----------------------------- MODULE ServicesProofs ----------------------------
(***************************************************************************)
(* Proofs about the session tree and its coordinator, the run modes, the   *)
(* interaction plugin and one thread of the web console, for every number  *)
(* of sessions, requests, runs, questions, callers, streams and restarts.  *)
(*                                                                         *)
(* IInv is about the tree alone; NoOrphanRuns is not inductive: the        *)
(* orchestrator walks childSessionIds while the property speaks of         *)
(* parentSessionId, so LinksAgree has to be carried along.  The            *)
(* coordinator drives the tree by legal calls only, so what is proved of   *)
(* the tree holds under it.  DInv adds the coordinator's own state: that a *)
(* resolved delegation's session has ended, which with the finality of     *)
(* ended sessions keeps its record true.                                   *)
(*                                                                         *)
(* RInv: that no second end of a run is told rests on its machine being in *)
(* a terminal state once one was told (Quiet); a run's record is begun     *)
(* once, before its task can do anything with it (Begun).                  *)
(*                                                                         *)
(* AInv: what a reader of the event stream shows is what the table holds   *)
(* (EventsShowPending) because the table has one entry for a question      *)
(* (Unique), and a stream has missed nothing because the history is        *)
(* numbered without a hole up to the latest event (Dense).                 *)
(*                                                                         *)
(* CInv: the numbers of a thread's events have no gap because only the     *)
(* call that holds the lock has one (Locked), and it and the cached one go *)
(* on from the events (Counted); a thread that says it runs has a post     *)
(* that will save another status (RunningTold); and the run that is under  *)
(* way has its controller registered, unless runs crossed (Reached).       *)
(***************************************************************************)
EXTENDS Integers, Delegation, RunModes, Interaction, WebConsole, SequenceTheorems, TLAPS

-----------------------------------------------------------------------------
(***************************************************************************)
(* The session tree                                                        *)
(***************************************************************************)

IInv == TypeOK /\ LinksAgree /\ NoOrphanRuns

-----------------------------------------------------------------------------
\* Appending a child id adds it to the set of listed children.
LEMMA AppendSet ==
  ASSUME NEW S, NEW q \in Seq(S), NEW x \in S
  PROVE  {Append(q, x)[i] : i \in DOMAIN Append(q, x)}
           = {q[i] : i \in DOMAIN q} \cup {x}
<1> DEFINE a == Append(q, x)
<1>1. /\ DOMAIN q = 1 .. Len(q)
      /\ DOMAIN a = 1 .. Len(q) + 1
      /\ Len(q) \in Nat
      /\ \A i \in 1 .. Len(q) : a[i] = q[i]
      /\ a[Len(q) + 1] = x
  OBVIOUS
<1>2. ASSUME NEW y PROVE y \in {a[i] : i \in DOMAIN a} <=> y \in {q[i] : i \in DOMAIN q} \cup {x}
  <2>1. ASSUME y \in {a[i] : i \in DOMAIN a}
        PROVE  y \in {q[i] : i \in DOMAIN q} \cup {x}
    <3>1. PICK i \in DOMAIN a : y = a[i]
      BY <2>1
    <3>2. CASE i = Len(q) + 1
      BY <1>1, <3>1, <3>2
    <3>3. CASE i # Len(q) + 1
      BY <1>1, <3>1, <3>3
    <3> QED BY <3>2, <3>3
  <2>2. ASSUME y \in {q[i] : i \in DOMAIN q} \cup {x}
        PROVE  y \in {a[i] : i \in DOMAIN a}
    <3>1. CASE y = x
      BY <1>1, <3>1
    <3>2. CASE y \in {q[i] : i \in DOMAIN q}
      BY <1>1, <3>2
    <3> QED BY <2>2, <3>1, <3>2
  <2> QED BY <2>1, <2>2
<1> QED BY <1>2

\* A walk visits every successor of its start and of what it visited.
LEMMA BelowClosed ==
  ASSUME NEW E \in SUBSET (Ids \X Ids), NEW r \in Ids
  PROVE  Closed(Below(r, E), r, E)
<1> SUFFICES ASSUME NEW e \in E, e[1] \in Below(r, E) \cup {r}
             PROVE  e[2] \in Below(r, E)
  BY DEF Closed
<1>1. e[2] \in Ids
  OBVIOUS
<1>2. ASSUME NEW C \in SUBSET Ids, Closed(C, r, E)
      PROVE  e[2] \in C
  BY <1>2 DEF Below, Closed
<1> QED BY <1>1, <1>2 DEF Below

\* A walk visits nothing outside a set that is closed under its edges.
LEMMA BelowLeast ==
  ASSUME NEW E, NEW r \in Ids, NEW C \in SUBSET Ids, Closed(C, r, E)
  PROVE  Below(r, E) \subseteq C
BY DEF Below

\* The cascade reaches only active sessions, and no orphan is left behind:
\* an active child of the start or of a reached session is reached.
LEMMA CascadeFacts ==
  ASSUME TypeOK, NEW r \in Ids
  PROVE  /\ Cascade(r) \subseteq {s \in Ids : IsActive(s)}
         /\ \A p, s \in Ids :
              p \in Cascade(r) \cup {r} /\ s \in KidSet(p) /\ IsActive(s)
                => s \in Cascade(r)
<1>1. ActiveEdges \in SUBSET (Ids \X Ids)
  BY DEF ActiveEdges, ChildEdges
<1>2. Closed({s \in Ids : IsActive(s)}, r, ActiveEdges)
  BY DEF Closed, ActiveEdges, ChildEdges
<1>3. Cascade(r) \subseteq {s \in Ids : IsActive(s)}
  BY <1>2, BelowLeast DEF Cascade
<1>4. Closed(Cascade(r), r, ActiveEdges)
  BY <1>1, BelowClosed DEF Cascade
<1>5. ASSUME NEW p \in Ids, NEW s \in Ids,
             p \in Cascade(r) \cup {r}, s \in KidSet(p), IsActive(s)
      PROVE  s \in Cascade(r)
  <2>1. <<p, s>> \in ActiveEdges
    BY <1>5 DEF ActiveEdges, ChildEdges
  <2> QED BY <1>4, <1>5, <2>1 DEF Closed
<1> QED BY <1>3, <1>5

\* Descending through active children only, as the code does, still reaches
\* every active descendant, because none hides below a terminal session.
LEMMA CascadeIsActiveDescendants ==
  ASSUME IInv, NEW r \in Ids
  PROVE  Cascade(r) = {s \in Descendants(r) : IsActive(s)}
<1> USE DEF IInv
<1> DEFINE Rest == {s \in Ids : ~ IsActive(s)}
<1>1. ChildEdges \in SUBSET (Ids \X Ids) /\ ActiveEdges \subseteq ChildEdges
  BY DEF ActiveEdges, ChildEdges
<1>2. Closed(Descendants(r), r, ChildEdges) /\ Descendants(r) \subseteq Ids
  BY <1>1, BelowClosed DEF Descendants, Below
<1>3. Closed(Descendants(r), r, ActiveEdges)
  BY <1>1, <1>2 DEF Closed
<1>4. Cascade(r) \subseteq Descendants(r)
  BY <1>2, <1>3, BelowLeast DEF Cascade
<1>5. Closed(Cascade(r) \cup Rest, r, ChildEdges)
  <2> SUFFICES ASSUME NEW a \in Ids, NEW b \in Ids, b \in KidSet(a),
                      a \in Cascade(r) \cup Rest \cup {r}, IsActive(b)
               PROVE  b \in Cascade(r)
    BY DEF Closed, ChildEdges
  <2>1. parent[b] = a
    BY DEF LinksAgree
  <2>2. IsActive(a)
    BY <2>1, NoSessionAssumption DEF NoOrphanRuns
  <2> QED BY <2>2, CascadeFacts
<1>6. Descendants(r) \subseteq Cascade(r) \cup Rest
  <2>1. Cascade(r) \cup Rest \in SUBSET Ids
    BY CascadeFacts
  <2> QED BY <1>5, <2>1, BelowLeast DEF Descendants
<1> QED BY <1>4, <1>6, CascadeFacts

-----------------------------------------------------------------------------
LEMMA InitIInv == Init => IInv
<1> SUFFICES ASSUME Init PROVE IInv
  OBVIOUS
<1>1. TypeOK
  BY DEF Init, TypeOK, Reasons
<1>2. LinksAgree
  <2>1. \A p \in Ids : KidSet(p) = {}
    BY DEF Init, KidSet
  <2> QED BY <2>1, NoSessionAssumption DEF Init, LinksAgree, Known
<1>3. NoOrphanRuns
  BY DEF Init, NoOrphanRuns
<1> QED BY <1>1, <1>2, <1>3 DEF IInv

LEMMA CreateRootIInv ==
  ASSUME IInv, NEW s \in Ids, CreateRootSession(s)
  PROVE  IInv'
<1> USE DEF IInv, CreateRootSession
<1>1. TypeOK'
  BY DEF TypeOK
<1>2. LinksAgree'
  BY DEF TypeOK, LinksAgree, KidSet, Known
<1>3. NoOrphanRuns'
  BY DEF TypeOK, LinksAgree, NoOrphanRuns, IsActive
<1> QED BY <1>1, <1>2, <1>3

LEMMA CreateChildIInv ==
  ASSUME IInv, NEW p \in Ids, NEW s \in Ids, CreateChildSession(p, s)
  PROVE  IInv'
<1> USE DEF IInv, CreateChildSession
<1>1. TypeOK'
  BY DEF TypeOK, Reasons
<1>2. KidSet(p)' = KidSet(p) \cup {s}
  <2>1. kids[p] \in Seq(Ids) /\ kids'[p] = Append(kids[p], s)
    BY DEF TypeOK
  <2> QED BY <2>1, AppendSet DEF KidSet
<1>3. \A q \in Ids \ {p} : KidSet(q)' = KidSet(q)
  BY DEF KidSet, TypeOK
<1>4. LinksAgree'
  <2> SUFFICES ASSUME NEW q \in Ids, NEW t \in Ids
               PROVE  /\ t \in KidSet(q)' <=> parent'[t] = q
                      /\ parent'[t] = q => status'[q] # "absent" /\ status'[t] # "absent"
                      /\ t \in Known' =>
                           root'[t] = IF parent'[t] = NoSession THEN t ELSE root'[parent'[t]]
    BY DEF LinksAgree, Known
  <2>1. \A a \in Ids : parent[s] # a
    BY DEF LinksAgree
  <2>2. parent' = [parent EXCEPT ![s] = p] /\ parent \in [Ids -> Ids \cup {NoSession}]
    BY DEF TypeOK
  <2>3. t \in KidSet(q)' <=> parent'[t] = q
    BY <1>2, <1>3, <2>1, <2>2 DEF LinksAgree
  <2>4. parent'[t] = q => status'[q] # "absent" /\ status'[t] # "absent"
    BY <2>1, <2>2 DEF LinksAgree, TypeOK, IsActive
  <2>5. ASSUME t \in Known'
        PROVE  root'[t] = IF parent'[t] = NoSession THEN t ELSE root'[parent'[t]]
    <3>1. root' = [root EXCEPT ![s] = root[p]] /\ root \in [Ids -> Ids \cup {NoSession}]
      BY DEF TypeOK
    <3>2. p # s /\ p # NoSession
      BY NoSessionAssumption DEF IsActive
    <3>3. CASE t = s
      BY <2>2, <3>1, <3>2, <3>3
    <3>4. CASE t # s
      <4>1. t \in Known /\ parent'[t] = parent[t] /\ root'[t] = root[t]
        BY <2>2, <2>5, <3>1, <3>4 DEF Known, TypeOK
      <4>2. parent[t] # s
        BY <2>1, <4>1 DEF LinksAgree
      <4>3. CASE parent[t] = NoSession
        BY <4>1, <4>3 DEF LinksAgree
      <4>4. CASE parent[t] \in Ids
        BY <3>1, <4>1, <4>2, <4>4, NoSessionAssumption DEF LinksAgree
      <4> QED BY <2>2, <4>3, <4>4
    <3> QED BY <3>3, <3>4
  <2> QED BY <2>3, <2>4, <2>5
<1>5. NoOrphanRuns'
  BY NoSessionAssumption DEF TypeOK, LinksAgree, NoOrphanRuns, IsActive
<1> QED BY <1>1, <1>4, <1>5

LEMMA CompleteIInv ==
  ASSUME IInv, NEW s \in Ids, CompleteSession(s)
  PROVE  IInv'
<1> USE DEF IInv, CompleteSession
<1>1. TypeOK'
  BY DEF TypeOK, Terminal
<1>2. LinksAgree'
  BY DEF TypeOK, LinksAgree, KidSet, IsActive, Known
<1>3. \A t \in Ids : t \in KidSet(s) => ~ IsActive(t)
  <2>1. Closed(Descendants(s), s, ChildEdges)
    BY BelowClosed DEF Descendants, ChildEdges
  <2>2. ASSUME NEW t \in Ids, t \in KidSet(s) PROVE t \in Descendants(s)
    <3>1. <<s, t>> \in ChildEdges
      BY <2>2 DEF ChildEdges
    <3> QED BY <2>1, <3>1 DEF Closed
  <2> QED BY <2>2 DEF HasActiveDescendant
<1>4. NoOrphanRuns'
  BY <1>3 DEF TypeOK, LinksAgree, NoOrphanRuns, IsActive
<1> QED BY <1>1, <1>2, <1>4

LEMMA EndIInv ==
  ASSUME IInv, NEW s \in Ids, NEW st \in Terminal,
         NEW own \in Reasons, NEW handed \in Reasons,
         EndWithCascade(s, st, own, handed)
  PROVE  IInv'
<1> USE DEF IInv, EndWithCascade
<1>1. TypeOK'
  BY DEF TypeOK, Terminal
<1>2. LinksAgree'
  <2>1. \A t \in Ids : status'[t] = "absent" <=> status[t] = "absent"
    BY CascadeFacts DEF IsActive, Terminal
  <2>2. UNCHANGED <<parent, root, kids>> /\ Known' = Known /\ \A p \in Ids : KidSet(p)' = KidSet(p)
    BY <2>1 DEF Known, KidSet
  <2> QED BY <2>1, <2>2 DEF LinksAgree
<1>3. NoOrphanRuns'
  <2> SUFFICES ASSUME NEW t \in Ids, IsActive(t)', parent'[t] # NoSession
               PROVE  IsActive(parent[t])'
    BY DEF NoOrphanRuns
  <2>1. t # s /\ t \notin Cascade(s) /\ IsActive(t)
    BY DEF IsActive, Terminal
  <2>2. parent[t] \in Ids /\ t \in KidSet(parent[t]) /\ IsActive(parent[t])
    BY <2>1 DEF TypeOK, LinksAgree, NoOrphanRuns
  <2>3. parent[t] # s /\ parent[t] \notin Cascade(s)
    BY <2>1, <2>2, CascadeFacts
  <2> QED BY <2>2, <2>3 DEF IsActive
<1> QED BY <1>1, <1>2, <1>3

LEMMA NextIInv == IInv /\ [Next]_tree => IInv'
<1> SUFFICES ASSUME IInv, [Next]_tree PROVE IInv'
  OBVIOUS
<1>1. ASSUME NEW s \in Ids, CreateRootSession(s) PROVE IInv'
  BY <1>1, CreateRootIInv
<1>2. ASSUME NEW s \in Ids, NEW p \in Ids, CreateChildSession(p, s) PROVE IInv'
  BY <1>2, CreateChildIInv
<1>3. ASSUME NEW s \in Ids, CompleteSession(s) PROVE IInv'
  BY <1>3, CompleteIInv
<1>4. ASSUME NEW s \in Ids, FailSession(s) PROVE IInv'
  BY <1>4, EndIInv DEF FailSession, Terminal, Reasons, CascadeReason
<1>5. ASSUME NEW s \in Ids, NEW why \in CallerReasons \cup {NoReason},
             CancelSession(s, why)
      PROVE  IInv'
  <2>1. /\ why \in Reasons
        /\ (IF why = NoReason THEN CascadeReason("cancelled", s) ELSE why) \in Reasons
    BY DEF Reasons, CascadeReason
  <2> QED BY <1>5, <2>1, EndIInv DEF CancelSession, Terminal
<1>6. CASE UNCHANGED tree
  BY <1>6 DEF tree, IInv, TypeOK, LinksAgree, NoOrphanRuns, KidSet, IsActive, Known
<1> QED BY <1>1, <1>2, <1>3, <1>4, <1>5, <1>6 DEF Next

-----------------------------------------------------------------------------
\* In every reachable state the records are well formed, whatever calls are
\* made on the orchestrator in whatever order.
THEOREM TypeCorrect == Spec => []TypeOK
BY InitIInv, NextIInv, PTL DEF Spec, IInv

\* No session is active below a terminal one, at any depth of any tree.
THEOREM NoOrphans == Spec => []NoOrphanRuns
BY InitIInv, NextIInv, PTL DEF Spec, IInv

\* The child lists and the parent links always describe the same tree.
THEOREM LinksCorrect == Spec => []LinksAgree
BY InitIInv, NextIInv, PTL DEF Spec, IInv

\* Both, of every forest that calls can build.
THEOREM TreeAlwaysSound == Spec => []TreeSound
BY NoOrphans, LinksCorrect, PTL DEF TreeSound

-----------------------------------------------------------------------------
\* A wider set of edges is never walked less far.
LEMMA BelowMonotone ==
  ASSUME NEW E, NEW F, E \subseteq F, NEW r \in Ids
  PROVE  Below(r, E) \subseteq Below(r, F)
BY DEF Below, Closed

\* What FailSession and CancelSession have in common.
EndsAs(s, st) ==
  \E own \in CallerReasons \cup {NoReason} :
    \E handed \in CallerReasons \cup {CascadeReason(st, s)} :
      EndWithCascade(s, st, own, handed)

LEMMA EndingSteps ==
  ASSUME NEW s \in Ids,
         \/ FailSession(s)
         \/ \E why \in CallerReasons \cup {NoReason} : CancelSession(s, why)
  PROVE  \E st \in {"failed", "cancelled"} : EndsAs(s, st)
<1>1. CASE FailSession(s)
  <2>1. EndsAs(s, "failed")
    BY <1>1 DEF FailSession, EndsAs
  <2> QED BY <2>1
<1>2. ASSUME NEW why \in CallerReasons \cup {NoReason}, CancelSession(s, why)
      PROVE  EndsAs(s, "cancelled")
  <2> DEFINE handed == IF why = NoReason THEN CascadeReason("cancelled", s) ELSE why
  <2>1. handed \in CallerReasons \cup {CascadeReason("cancelled", s)}
    OBVIOUS
  <2>2. EndWithCascade(s, "cancelled", why, handed)
    BY <1>2 DEF CancelSession
  <2> HIDE DEF handed
  <2> QED BY <2>1, <2>2 DEF EndsAs
<1> QED BY <1>1, <1>2

\* Every step is one of the five calls.
LEMMA StepCases ==
  ASSUME Next
  PROVE  \E s \in Ids :
           \/ CreateRootSession(s)
           \/ \E p \in Ids : CreateChildSession(p, s)
           \/ CompleteSession(s)
           \/ \E st \in {"failed", "cancelled"} : EndsAs(s, st)
BY EndingSteps DEF Next

LEMMA StepIsFinal ==
  ASSUME IInv, Next, NEW t \in Ids, status[t] \in Terminal
  PROVE  status'[t] = status[t] /\ reason'[t] = reason[t] /\ kids'[t] = kids[t]
<1> USE DEF IInv, TypeOK
<1>0. status[t] # "absent" /\ ~ IsActive(t)
  BY DEF Terminal, IsActive
<1>1. PICK s \in Ids :
           \/ CreateRootSession(s)
           \/ \E p \in Ids : CreateChildSession(p, s)
           \/ CompleteSession(s)
           \/ \E st \in {"failed", "cancelled"} : EndsAs(s, st)
  BY StepCases
<1>2. CASE CreateRootSession(s)
  BY <1>0, <1>2 DEF CreateRootSession
<1>3. ASSUME NEW p \in Ids, CreateChildSession(p, s)
      PROVE  status'[t] = status[t] /\ reason'[t] = reason[t] /\ kids'[t] = kids[t]
  BY <1>0, <1>3 DEF CreateChildSession, IsActive
<1>4. CASE CompleteSession(s)
  BY <1>0, <1>4 DEF CompleteSession, IsActive
<1>5. ASSUME NEW st, NEW own, NEW handed, EndWithCascade(s, st, own, handed)
      PROVE  status'[t] = status[t] /\ reason'[t] = reason[t] /\ kids'[t] = kids[t]
  <2>1. t # s /\ t \notin Cascade(s)
    BY <1>0, <1>5, CascadeFacts DEF EndWithCascade
  <2> QED BY <1>5, <2>1 DEF EndWithCascade
<1> QED BY <1>1, <1>2, <1>3, <1>4, <1>5 DEF EndsAs

\* A terminal session keeps its status, its reason and its children.
THEOREM TerminalStaysFinal == Spec => TerminalIsFinal
<1>1. IInv /\ [Next]_tree =>
        [\A s \in Ids : status[s] \in Terminal =>
           /\ status'[s] = status[s]
           /\ reason'[s] = reason[s]
           /\ kids'[s] = kids[s]]_tree
  BY StepIsFinal
<1> QED BY <1>1, InitIInv, NextIInv, PTL DEF Spec, TerminalIsFinal

-----------------------------------------------------------------------------
\* The sessions a step ends.
Ended == {s \in Ids : IsActive(s) /\ ~ IsActive(s)'}

LEMMA StepEndsOneSubtree ==
  ASSUME IInv, Next, Ended # {}
  PROVE  \E r \in Ended :
           /\ Ended = {r} \cup {s \in Descendants(r) : IsActive(s)}
           /\ \A s \in Ended \ {r} : status'[s] = "cancelled"
<1> USE DEF IInv, TypeOK
<1>1. PICK s \in Ids :
           \/ CreateRootSession(s)
           \/ \E p \in Ids : CreateChildSession(p, s)
           \/ CompleteSession(s)
           \/ \E st \in {"failed", "cancelled"} : EndsAs(s, st)
  BY StepCases
<1>2. ASSUME CreateRootSession(s) \/ \E p \in Ids : CreateChildSession(p, s)
      PROVE  FALSE
  BY <1>2 DEF CreateRootSession, CreateChildSession, Ended, IsActive
<1>3. ASSUME CompleteSession(s)
      PROVE  /\ Ended = {s}
             /\ {t \in Descendants(s) : IsActive(t)} = {}
  BY <1>3 DEF CompleteSession, HasActiveDescendant, Ended, IsActive
<1>4. ASSUME NEW st \in {"failed", "cancelled"}, EndsAs(s, st)
      PROVE  /\ s \in Ended
             /\ Ended = {s} \cup {t \in Descendants(s) : IsActive(t)}
             /\ \A t \in Ended \ {s} : status'[t] = "cancelled"
  <2>1. PICK own, handed : EndWithCascade(s, st, own, handed)
    BY <1>4 DEF EndsAs
  <2>2. /\ IsActive(s)
        /\ \A t \in Ids : status'[t] = IF t = s THEN st
                                       ELSE IF t \in Cascade(s) THEN "cancelled"
                                       ELSE status[t]
    BY <2>1 DEF EndWithCascade
  <2>3. /\ Cascade(s) = {t \in Descendants(s) : IsActive(t)}
        /\ Cascade(s) \subseteq Ids
    BY CascadeIsActiveDescendants, CascadeFacts
  <2>4. Ended = {s} \cup Cascade(s)
    BY <2>2, <2>3 DEF Ended, IsActive
  <2> QED BY <2>2, <2>3, <2>4
<1> QED BY <1>1, <1>2, <1>3, <1>4

\* One call ends one session and exactly the active part of its subtree.
THEOREM CascadesAreExact == Spec => CascadeIsExact
<1>1. IInv /\ [Next]_tree =>
        [LET ended == {s \in Ids : IsActive(s) /\ ~ IsActive(s)'}
         IN ended # {} =>
              \E r \in ended :
                /\ ended = {r} \cup {s \in Descendants(r) : IsActive(s)}
                /\ \A s \in ended \ {r} : status'[s] = "cancelled"]_tree
  BY StepEndsOneSubtree DEF Ended
<1> QED BY <1>1, InitIInv, NextIInv, PTL DEF Spec, CascadeIsExact

-----------------------------------------------------------------------------
(***************************************************************************)
(* Cascade reasons.  An ancestor stays an ancestor because child lists     *)
(* only grow, and its status stays because terminal sessions are final.    *)
(***************************************************************************)
LEMMA DescendantsGrow ==
  ASSUME IInv, Next, NEW a \in Ids
  PROVE  Descendants(a) \subseteq Descendants(a)'
<1> USE DEF IInv
<1>1. ChildEdges \subseteq ChildEdges'
  <2>1. PICK s \in Ids :
           \/ CreateRootSession(s)
           \/ \E p \in Ids : CreateChildSession(p, s)
           \/ CompleteSession(s)
           \/ \E st \in {"failed", "cancelled"} : EndsAs(s, st)
    BY StepCases
  <2>2. CASE UNCHANGED kids
    BY <2>2 DEF ChildEdges, KidSet
  <2>3. ASSUME NEW p \in Ids, CreateChildSession(p, s)
        PROVE  ChildEdges \subseteq ChildEdges'
    <3>1. kids[p] \in Seq(Ids) /\ kids'[p] = Append(kids[p], s)
      BY <2>3 DEF CreateChildSession, TypeOK
    <3>2. KidSet(p) \subseteq KidSet(p)'
      BY <3>1, AppendSet DEF KidSet
    <3>3. \A q \in Ids \ {p} : KidSet(q)' = KidSet(q)
      BY <2>3 DEF KidSet, TypeOK, CreateChildSession
    <3> QED BY <3>2, <3>3 DEF ChildEdges
  <2> QED BY <2>1, <2>2, <2>3
          DEF CreateRootSession, CompleteSession, EndsAs, EndWithCascade
<1> QED BY <1>1, BelowMonotone DEF Descendants, Below, Closed

LEMMA InitReason == Init => CascadeReasonIsTrue
BY ReasonAssumption DEF Init, CascadeReasonIsTrue, CascadeReason

LEMMA NextReason ==
  IInv /\ CascadeReasonIsTrue /\ [Next]_tree => CascadeReasonIsTrue'
<1> SUFFICES ASSUME IInv, CascadeReasonIsTrue, [Next]_tree,
                    NEW t \in Ids, NEW a \in Ids,
                    NEW how \in {"failed", "cancelled"},
                    reason'[t] = CascadeReason(how, a)
             PROVE  /\ status'[t] = "cancelled"
                    /\ t \in Descendants(a)'
                    /\ status'[a] = how
  BY DEF CascadeReasonIsTrue
<1> USE DEF IInv
<1>1. CASE UNCHANGED tree
  BY <1>1 DEF tree, CascadeReasonIsTrue, Descendants, Below, Closed, ChildEdges, KidSet
<1>2. ASSUME Next, reason'[t] = reason[t]
      PROVE  /\ status'[t] = "cancelled"
             /\ t \in Descendants(a)'
             /\ status'[a] = how
  <2>1. status[t] = "cancelled" /\ t \in Descendants(a) /\ status[a] = how
    BY <1>2 DEF CascadeReasonIsTrue
  <2>2. status[t] \in Terminal /\ status[a] \in Terminal
    BY <2>1 DEF Terminal
  <2> QED BY <1>2, <2>1, <2>2, StepIsFinal, DescendantsGrow
<1>3. ASSUME Next, reason'[t] # reason[t]
      PROVE  /\ status'[t] = "cancelled"
             /\ t \in Descendants(a)'
             /\ status'[a] = how
  <2>1. PICK s \in Ids : \E st \in {"failed", "cancelled"} : EndsAs(s, st)
    BY <1>3, StepCases DEF CreateRootSession, CreateChildSession, CompleteSession
  <2>0. PICK st \in {"failed", "cancelled"} : EndsAs(s, st)
    BY <2>1
  <2>2. PICK own \in CallerReasons \cup {NoReason},
             handed \in CallerReasons \cup {CascadeReason(st, s)} :
               EndWithCascade(s, st, own, handed)
    BY <2>0 DEF EndsAs
  <2>3. CascadeReason(how, a) \notin CallerReasons \cup {NoReason}
    BY ReasonAssumption DEF CascadeReason
  <2>4. t # s /\ t \in Cascade(s) /\ handed = CascadeReason(how, a)
    BY <1>3, <2>2, <2>3 DEF EndWithCascade
  <2>5. st = how /\ s = a
    BY <2>3, <2>4 DEF CascadeReason
  <2>6. t \in Descendants(a)
    BY <2>4, <2>5, CascadeIsActiveDescendants
  <2>7. t \in Descendants(a)'
    BY <1>3, <2>6, DescendantsGrow
  <2>8. status'[t] = "cancelled" /\ status'[s] = st
    BY <2>2, <2>4 DEF EndWithCascade
  <2> QED BY <2>5, <2>7, <2>8
<1> QED BY <1>1, <1>2, <1>3

\* Whoever reads "Parent session r failed / was cancelled" on a session can
\* rely on it: r is above that session and did end that way.
THEOREM CascadeReasonsAreTrue == Spec => []CascadeReasonIsTrue
BY InitIInv, NextIInv, InitReason, NextReason, PTL DEF Spec

\* Every call ends exactly one subtree, and nothing ends twice.
THEOREM EndsExactly == Spec => EndsAreExact
BY TerminalStaysFinal, CascadesAreExact DEF EndsAreExact

-----------------------------------------------------------------------------
(***************************************************************************)
(* The coordinator                                                         *)
(***************************************************************************)

\* A session ends in a legal call on the tree: what terminalizeSuccess and
\* terminalizeFailure do.
EndingCall(s) ==
  \/ CompleteSession(s)
  \/ FailSession(s)
  \/ \E why \in CallerReasons \cup {NoReason} : CancelSession(s, why)

BatchStates == {"none", "issuing", "open", "rejected", "resolved"}

\* A batch issues its requests under a session.
BatchOK ==
  /\ batch \in [state : BatchStates, under : Ids \cup {NoSession}, todo : Int, issued : SUBSET Ids]
  /\ Synchronous => batch.under \in Ids

DInv ==
  /\ IInv
  /\ BatchOK
  /\ record \in [Ids -> [status : {"none"} \cup Terminal, reason : Reasons]]
  /\ DOMAIN promise = Ids
  /\ \A s \in Ids : promise[s] = "resolved" => status[s] \in Terminal
  /\ RecordMatchesTree

-----------------------------------------------------------------------------
\* Whatever is called, the session that it ends has ended afterwards.
LEMMA EndingCallEnds ==
  ASSUME TypeOK, NEW s \in Ids, EndingCall(s)
  PROVE  status'[s] \in Terminal
<1>1. CASE CompleteSession(s)
  BY <1>1 DEF CompleteSession, TypeOK, Terminal
<1>2. CASE FailSession(s)
  BY <1>2 DEF FailSession, EndWithCascade, Terminal
<1>3. ASSUME NEW why \in CallerReasons \cup {NoReason}, CancelSession(s, why)
      PROVE  status'[s] \in Terminal
  BY <1>3 DEF CancelSession, EndWithCascade, Terminal
<1> QED BY <1>1, <1>2, <1>3 DEF EndingCall

LEMMA EndingCallIsNext ==
  ASSUME NEW s \in Ids, EndingCall(s)
  PROVE  Next
BY DEF EndingCall, Next

\* The coordinator settles a delegation by leaving its session as it ended, or
\* by ending it now.
LEMMA SettlingCases ==
  ASSUME NEW s \in Ids, ExecutorSettles(s)
  PROVE  /\ promise[s] = "running"
         /\ Resolve(s)
         /\ KeepExisting(s) \/ EndingCall(s)
BY DEF ExecutorSettles, ExecutorReturns, ExecutorThrows, TerminalizeSuccess,
       TerminalizeFailure, EndingCall

LEMMA SettlingEnds ==
  ASSUME TypeOK, NEW s \in Ids, ExecutorSettles(s)
  PROVE  [Next]_tree /\ status'[s] \in Terminal
<1>1. CASE KeepExisting(s)
  BY <1>1 DEF KeepExisting, tree
<1>2. CASE EndingCall(s)
  BY <1>2, EndingCallEnds, EndingCallIsNext
<1> QED BY <1>1, <1>2, SettlingCases

\* Each step of the coordinator is one of these.
LEMMA DelegationCases ==
  ASSUME BatchOK, DelegationNext
  PROVE  \/ Next /\ UNCHANGED <<promise, record>>
         \/ \E p, s \in Ids : StartChild(p, s)
         \/ \E s \in Ids : ExecutorSettles(s)
         \/ UNCHANGED <<tree, promise, record>>
<1>1. CASE OrchestratorCall
  BY <1>1 DEF OrchestratorCall, Next
<1>2. ASSUME NEW p \in Ids, NEW s \in Ids, Delegate(p, s)
      PROVE  StartChild(p, s)
  BY <1>2 DEF Delegate
<1>3. ASSUME NEW s \in Ids, IssueRequest(s)
      PROVE  \E p, t \in Ids : StartChild(p, t)
  BY <1>3 DEF IssueRequest, BatchOK
<1> QED BY <1>1, <1>2, <1>3 DEF DelegationNext, DelegateMany, IssueRefused, BatchResolves

LEMMA BatchStaysOK ==
  ASSUME BatchOK, DelegationNext
  PROVE  BatchOK'
<1> USE DEF BatchOK, BatchStates, Synchronous
<1>0. /\ batch.under \in Ids \cup {NoSession} /\ batch.todo \in Int /\ batch.issued \in SUBSET Ids
      /\ batch = [state |-> batch.state, under |-> batch.under, todo |-> batch.todo, issued |-> batch.issued]
  OBVIOUS
<1>1. CASE UNCHANGED batch
  BY <1>1
<1>2. ASSUME NEW p \in Ids, NEW n \in 1 .. MaxRequests, DelegateMany(p, n)
      PROVE  BatchOK'
  BY <1>2 DEF DelegateMany
<1>3. ASSUME NEW s \in Ids, IssueRequest(s)
      PROVE  BatchOK'
  <2>1. batch.state = "issuing" /\ batch.under \in Ids
    BY <1>3 DEF IssueRequest
  <2>2. batch' = [state |-> IF batch.todo = 1 THEN "open" ELSE batch.state, under |-> batch.under,
                  todo |-> batch.todo - 1, issued |-> batch.issued \cup {s}]
    BY <1>0, <1>3 DEF IssueRequest
  <2> QED BY <1>0, <2>1, <2>2
<1>4. CASE IssueRefused
  <2>1. batch' = [state |-> "rejected", under |-> batch.under, todo |-> 0, issued |-> batch.issued]
    BY <1>0, <1>4 DEF IssueRefused
  <2> QED BY <1>0, <2>1
<1>5. CASE BatchResolves
  <2>1. batch' = [state |-> "resolved", under |-> batch.under, todo |-> batch.todo, issued |-> batch.issued]
    BY <1>0, <1>5 DEF BatchResolves
  <2> QED BY <1>0, <2>1
<1>6. ASSUME NEW s \in Ids, ExecutorSettles(s)
      PROVE  UNCHANGED batch
  BY <1>6, SettlingCases DEF Resolve
<1> QED BY <1>1, <1>2, <1>3, <1>4, <1>5, <1>6 DEF DelegationNext, OrchestratorCall, Delegate

\* Every step of the coordinator is a call on the tree, or leaves it alone.
LEMMA CoordinatorCalls ==
  ASSUME TypeOK, BatchOK, [DelegationNext]_vars
  PROVE  [Next]_tree
<1>1. ASSUME NEW p \in Ids, NEW s \in Ids, StartChild(p, s)
      PROVE  Next
  BY <1>1 DEF StartChild, Next
<1>2. CASE UNCHANGED vars
  BY <1>2 DEF vars, tree
<1>3. ASSUME UNCHANGED <<tree, promise, record>>
      PROVE  UNCHANGED tree
  BY <1>3
<1>4. CASE DelegationNext
  BY <1>1, <1>3, <1>4, DelegationCases, SettlingEnds
<1> QED BY <1>2, <1>4

-----------------------------------------------------------------------------
LEMMA InitDInv == DelegationInit => DInv
<1> SUFFICES ASSUME DelegationInit PROVE DInv
  OBVIOUS
<1>1. IInv
  BY InitIInv DEF DelegationInit
<1>2. BatchOK
  BY DEF DelegationInit, BatchOK, BatchStates, NoBatch, Synchronous
<1> QED BY <1>1, <1>2 DEF DelegationInit, DInv, RecordMatchesTree, NoRecord, Reasons

\* A delegation resolved before the step keeps its session as it was.
LEMMA ResolvedStays ==
  ASSUME DInv, [Next]_tree, NEW s \in Ids, promise[s] = "resolved"
  PROVE  /\ status'[s] = status[s] /\ reason'[s] = reason[s]
         /\ status'[s] \in Terminal
         /\ record[s] = [status |-> status'[s], reason |-> reason'[s]]
<1>1. status[s] \in Terminal /\ IInv
  BY DEF DInv
<1>2. status'[s] = status[s] /\ reason'[s] = reason[s]
  BY <1>1, StepIsFinal DEF tree
<1> QED BY <1>1, <1>2 DEF DInv, RecordMatchesTree

LEMMA NextDInv == DInv /\ [DelegationNext]_vars => DInv'
<1> SUFFICES ASSUME DInv, [DelegationNext]_vars PROVE DInv'
  OBVIOUS
<1>0. IInv /\ TypeOK /\ BatchOK
  BY DEF DInv, IInv
<1>1. [Next]_tree
  BY <1>0, CoordinatorCalls
<1>2. IInv' /\ TypeOK'
  BY <1>0, <1>1, NextIInv DEF IInv
<1>3. BatchOK'
  BY <1>0, BatchStaysOK DEF vars, BatchOK, Synchronous
<1>4. CASE UNCHANGED <<promise, record>>
  BY <1>1, <1>2, <1>3, <1>4, ResolvedStays DEF DInv, RecordMatchesTree
<1>5. ASSUME NEW p \in Ids, NEW s \in Ids, StartChild(p, s)
      PROVE  DInv'
  <2>1. status[s] = "absent" /\ promise' = [promise EXCEPT ![s] = "running"] /\ record' = record
    BY <1>5 DEF StartChild, CreateChildSession
  <2>2. promise[s] # "resolved"
    BY <2>1 DEF DInv, Terminal
  <2>3. DOMAIN promise = Ids
    BY DEF DInv
  <2>4. \A t \in Ids : promise'[t] = "resolved" <=> promise[t] = "resolved"
    BY <2>1, <2>2, <2>3
  <2> QED BY <1>1, <1>2, <1>3, <2>1, <2>3, <2>4, ResolvedStays DEF DInv, RecordMatchesTree
<1>6. ASSUME NEW s \in Ids, ExecutorSettles(s)
      PROVE  DInv'
  <2>1. /\ promise' = [promise EXCEPT ![s] = "resolved"]
        /\ record' = [record EXCEPT ![s] = [status |-> status'[s], reason |-> reason'[s]]]
    BY <1>6, SettlingCases DEF Resolve
  <2>2. status'[s] \in Terminal
    BY <1>0, <1>6, SettlingEnds
  <2>3. /\ DOMAIN promise = Ids /\ reason'[s] \in Reasons
        /\ record \in [Ids -> [status : {"none"} \cup Terminal, reason : Reasons]]
    BY <1>2 DEF DInv, TypeOK
  <2>4. \A t \in Ids \ {s} : promise'[t] = promise[t] /\ record'[t] = record[t]
    BY <2>1, <2>3
  <2>5. /\ promise'[s] = "resolved" /\ DOMAIN promise' = Ids
        /\ record'[s] = [status |-> status'[s], reason |-> reason'[s]]
        /\ record' \in [Ids -> [status : {"none"} \cup Terminal, reason : Reasons]]
    BY <2>1, <2>2, <2>3
  <2>6. RecordMatchesTree'
    BY <1>1, <2>4, <2>5, ResolvedStays DEF DInv, RecordMatchesTree
  <2>7. \A t \in Ids : promise'[t] = "resolved" => status'[t] \in Terminal
    BY <1>1, <2>2, <2>4, ResolvedStays
  <2> QED BY <1>2, <1>3, <2>5, <2>6, <2>7 DEF DInv
<1>7. CASE UNCHANGED vars
  BY <1>4, <1>7 DEF vars
<1> QED BY <1>0, <1>4, <1>5, <1>6, <1>7, DelegationCases

\* Nothing is active below a session that has ended, at any depth.
LEMMA NothingActiveBelow ==
  ASSUME IInv, NEW s \in Ids, ~ IsActive(s)
  PROVE  ~ HasActiveDescendant(s)
<1> DEFINE Rest == {t \in Ids : ~ IsActive(t)}
<1>1. Closed(Rest, s, ChildEdges)
  <2> SUFFICES ASSUME NEW a \in Rest, NEW b \in Ids, b \in KidSet(a)
               PROVE  ~ IsActive(b)
    BY DEF Closed, ChildEdges
  <2> QED BY NoSessionAssumption DEF IInv, LinksAgree, NoOrphanRuns
<1>2. Descendants(s) \subseteq Rest
  BY <1>1, BelowLeast DEF Descendants
<1> QED BY <1>2 DEF HasActiveDescendant

LEMMA RecordsFollow == DInv => RecordsTrue
BY NothingActiveBelow DEF DInv, RecordsTrue, ResolvedSubtreeEnded, IsActive, Terminal

-----------------------------------------------------------------------------
\* However executors, batches and outside calls interleave, the coordinator
\* implements the orchestrator: each of its steps is one legal call on the tree or
\* none.
THEOREM CoordinatorImplementsTree == DelegationSpec => TreeImplemented
<1>1. DelegationInit => Init
  BY DEF DelegationInit
<1>2. DInv /\ [DelegationNext]_vars => [Next]_tree
  BY CoordinatorCalls DEF DInv, IInv
<1> QED BY <1>1, <1>2, InitDInv, NextDInv, PTL DEF DelegationSpec, TreeImplemented, Spec

\* A delegation that has resolved says for good what became of its session, and
\* leaves nothing active below it.
THEOREM RecordsAlwaysTrue == DelegationSpec => []RecordsTrue
BY InitDInv, NextDInv, RecordsFollow, PTL DEF DelegationSpec

\* The trees under the coordinator are sound, whatever executors do to them.
THEOREM DelegatedTreesSound == DelegationSpec => []TreeSound
BY CoordinatorImplementsTree, TreeAlwaysSound, PTL DEF TreeImplemented

\* Whatever step of the coordinator ends sessions ends exactly one subtree.
THEOREM DelegationsEndExactly == DelegationSpec => EndsAreExact
BY CoordinatorImplementsTree, EndsExactly, PTL DEF TreeImplemented

-----------------------------------------------------------------------------
(***************************************************************************)
(* Run modes: a run ends once                                              *)
(***************************************************************************)

States == {"none", "idle", "running"} \cup Ends
Types == {"created", "child-created", "running"} \cup Ends
Told == Sessions \X Types
RunStates == {"idle", "scheduled", "dispatched", "task", "returned", "threw",
              "resolved", "rejected", "lost"}

RunTypes ==
  /\ state \in [Sessions -> States]
  /\ heard \in [Sessions -> Seq(Told)]
  /\ run \in [Runs -> RunStates]
  /\ queue \in Seq(Runs)

\* The end of session s is among what its observer heard.
EndTold(s, i) == heard[s][i][1] = s /\ heard[s][i][2] \in Ends

Quiet == \A s \in Sessions : \A i \in DOMAIN heard[s] : EndTold(s, i) => state[s] \in Ends

\* A task that runs, or will, has a session.
Begun ==
  /\ \A r \in Runs : run[r] \in {"dispatched", "task"} => state[r] # "none"
  /\ \A i \in DOMAIN queue : state[queue[i]] # "none"

RInv == RunTypes /\ Quiet /\ Begun /\ OneEnd

-----------------------------------------------------------------------------
\* What a transition tells is heard once by the session itself, and is not an
\* end of anybody else.
LEMMA TransitionKeeps ==
  ASSUME RInv, NEW s \in Sessions, NEW next \in Ends \cup {"running"}, Transition(s, next)
  PROVE  /\ state' \in [Sessions -> States]
         /\ heard' \in [Sessions -> Seq(Told)]
         /\ Quiet' /\ OneEnd'
         /\ \A t \in Sessions : state[t] # "none" => state'[t] # "none"
<1> DEFINE e == <<s, next>>
<1>1. state[s] \notin Ends /\ state' = [state EXCEPT ![s] = next]
  BY DEF Transition, MayBecome, Ends
<1>2. state' \in [Sessions -> States] /\ \A t \in Sessions \ {s} : state'[t] = state[t]
  BY <1>1 DEF RInv, RunTypes, States
<1>3. state'[s] = next
  BY <1>1 DEF RInv, RunTypes
<1>4. e \in Told /\ e[1] = s /\ e[2] = next
  BY DEF Types, Told
<1>5. \A t \in Sessions : heard'[t] = heard[t] \/ heard'[t] = Append(heard[t], e)
  BY DEF Transition, Notified
<1>6. heard' \in [Sessions -> Seq(Told)]
  <2>1. heard' = [t \in Sessions |-> heard'[t]]
    BY DEF Transition, Notified
  <2>2. \A t \in Sessions : heard'[t] \in Seq(Told)
    <3> SUFFICES ASSUME NEW t \in Sessions
                 PROVE  heard'[t] \in Seq(Told)
      OBVIOUS
    <3>1. heard[t] \in Seq(Told) /\ e \in Told
      BY <1>4 DEF RInv, RunTypes
    <3> HIDE DEF e
    <3> QED BY <3>1, <1>5
  <2> QED BY <2>1, <2>2
<1>7. ASSUME NEW t \in Sessions
      PROVE  \A i \in DOMAIN heard'[t] :
               \/ i \in DOMAIN heard[t] /\ heard'[t][i] = heard[t][i]
               \/ i = Len(heard'[t]) /\ i = Len(heard[t]) + 1 /\ heard'[t][i] = e
  <2>1. heard[t] \in Seq(Told)
    BY DEF RInv, RunTypes
  <2> HIDE DEF e
  <2> QED BY <1>4, <1>5, <2>1
<1>8. \A t \in Sessions : DOMAIN heard[t] = 1 .. Len(heard[t]) /\ Len(heard[t]) \in Nat
  BY DEF RInv, RunTypes
<1>9. \A i \in DOMAIN heard[s] : heard[s][i][1] = s => heard[s][i][2] \notin Ends
  BY <1>1 DEF RInv, Quiet, EndTold
<1> HIDE DEF e
<1>10. Quiet'
  <2> SUFFICES ASSUME NEW t \in Sessions, NEW i \in DOMAIN heard'[t],
                      heard'[t][i][1] = t, heard'[t][i][2] \in Ends
               PROVE  state'[t] \in Ends
    BY DEF Quiet, EndTold
  <2>1. CASE i \in DOMAIN heard[t] /\ heard'[t][i] = heard[t][i]
    <3>1. state[t] \in Ends
      BY <2>1 DEF RInv, Quiet, EndTold
    <3> QED BY <3>1, <1>1, <1>2
  <2>2. CASE heard'[t][i] = e
    BY <2>2, <1>3, <1>4
  <2> QED BY <2>1, <2>2, <1>7
<1>11. OneEnd'
  <2> SUFFICES ASSUME NEW t \in Sessions, NEW i \in DOMAIN heard'[t], NEW j \in DOMAIN heard'[t],
                      heard'[t][i][1] = t, heard'[t][i][2] \in Ends, heard'[t][j][1] = t
               PROVE  j <= i
    BY DEF OneEnd
  <2>1. CASE i \in DOMAIN heard[t] /\ heard'[t][i] = heard[t][i]
    <3>1. state[t] \in Ends
      BY <2>1 DEF RInv, Quiet, EndTold
    <3>2. t # s
      BY <3>1, <1>1
    <3>3. heard'[t][j] # e
      BY <3>2, <1>4
    <3>4. j \in DOMAIN heard[t] /\ heard'[t][j] = heard[t][j]
      BY <3>3, <1>7
    <3> QED BY <2>1, <3>4 DEF RInv, OneEnd
  <2>2. CASE i = Len(heard'[t]) /\ i = Len(heard[t]) + 1
    BY <2>2, <1>7, <1>8
  <2> QED BY <2>1, <2>2, <1>7
<1>12. \A t \in Sessions : state[t] # "none" => state'[t] # "none"
  BY <1>2, <1>3 DEF Ends
<1> QED BY <1>2, <1>6, <1>10, <1>11, <1>12

\* A run's first records are written at once.
LEMMA BeginKeeps ==
  ASSUME RInv, NEW r \in Runs, NEW end \in Ends \cup {"running"}, NEW told \in Seq(Told),
         \A i \in DOMAIN told : told[i][2] \in Ends => i = Len(told) /\ end \in Ends,
         state' = [state EXCEPT ![r] = end], heard' = [heard EXCEPT ![r] = told]
  PROVE  /\ state' \in [Sessions -> States]
         /\ heard' \in [Sessions -> Seq(Told)]
         /\ Quiet' /\ OneEnd'
         /\ \A t \in Sessions : state[t] # "none" => state'[t] # "none"
<1>1. r \in Sessions
  BY DEF Sessions
<1>2. /\ state' \in [Sessions -> States] /\ heard' \in [Sessions -> Seq(Told)]
      /\ state'[r] = end /\ heard'[r] = told
      /\ \A t \in Sessions \ {r} : state'[t] = state[t] /\ heard'[t] = heard[t]
  BY <1>1 DEF RInv, RunTypes, States
<1>3. Quiet'
  <2> SUFFICES ASSUME NEW t \in Sessions, NEW i \in DOMAIN heard'[t],
                      heard'[t][i][1] = t, heard'[t][i][2] \in Ends
               PROVE  state'[t] \in Ends
    BY DEF Quiet, EndTold
  <2>1. CASE t = r
    BY <2>1, <1>2
  <2>2. CASE t # r
    BY <2>2, <1>2 DEF RInv, Quiet, EndTold
  <2> QED BY <2>1, <2>2
<1>4. OneEnd'
  <2> SUFFICES ASSUME NEW t \in Sessions, NEW i \in DOMAIN heard'[t], NEW j \in DOMAIN heard'[t],
                      heard'[t][i][1] = t, heard'[t][i][2] \in Ends, heard'[t][j][1] = t
               PROVE  j <= i
    BY DEF OneEnd
  <2>1. CASE t = r
    BY <2>1, <1>2
  <2>2. CASE t # r
    BY <2>2, <1>2 DEF RInv, OneEnd
  <2> QED BY <2>1, <2>2
<1>5. \A t \in Sessions : state[t] # "none" => state'[t] # "none"
  BY <1>2 DEF Ends
<1> QED BY <1>2, <1>3, <1>4, <1>5

LEMMA TwoMore ==
  ASSUME NEW S, NEW q \in Seq(S), NEW a \in S, NEW b \in S
  PROVE  /\ q \o <<a, b>> \in Seq(S)
         /\ \A i \in DOMAIN (q \o <<a, b>>) :
              \/ i \in DOMAIN q /\ (q \o <<a, b>>)[i] = q[i]
              \/ (q \o <<a, b>>)[i] \in {a, b}
<1>1. <<a, b>> \in Seq(S) /\ Len(<<a, b>>) = 2 /\ <<a, b>>[1] = a /\ <<a, b>>[2] = b
  OBVIOUS
<1> DEFINE two == <<a, b>>
<1> HIDE DEF two
<1>2. two \in Seq(S) /\ Len(two) = 2 /\ two[1] = a /\ two[2] = b
  BY <1>1 DEF two
<1>3. /\ q \o two \in Seq(S) /\ Len(q \o two) = Len(q) + 2
      /\ \A i \in 1 .. Len(q) + 2 : (q \o two)[i] = IF i <= Len(q) THEN q[i] ELSE two[i - Len(q)]
  <2>1. /\ q \o two \in Seq(S) /\ Len(q \o two) = Len(q) + Len(two)
        /\ \A i \in 1 .. Len(q) + Len(two) : (q \o two)[i] = IF i <= Len(q) THEN q[i] ELSE two[i - Len(q)]
    BY <1>2, ConcatProperties
  <2> QED BY <1>2, <2>1
<1>4. \A i \in DOMAIN (q \o two) :
         \/ i \in DOMAIN q /\ (q \o two)[i] = q[i]
         \/ (q \o two)[i] \in {a, b}
  <2> SUFFICES ASSUME NEW i \in DOMAIN (q \o two)
               PROVE  \/ i \in DOMAIN q /\ (q \o two)[i] = q[i]
                      \/ (q \o two)[i] \in {a, b}
    OBVIOUS
  <2>1. i \in 1 .. Len(q) + 2 /\ Len(q) \in Nat /\ DOMAIN q = 1 .. Len(q)
    BY <1>3
  <2>2. CASE i <= Len(q)
    BY <1>3, <2>1, <2>2
  <2>3. CASE i > Len(q)
    <3>1. i - Len(q) \in {1, 2}
      BY <2>1, <2>3
    <3> QED BY <1>2, <1>3, <2>1, <2>3, <3>1
  <2> QED BY <2>1, <2>2, <2>3
<1> QED BY <1>3, <1>4 DEF two

LEMMA CreateChildKeeps ==
  ASSUME RInv, NEW r \in Runs, NEW c \in Children, CreateChild(r, c)
  PROVE  RInv'
<1> DEFINE first == <<c, "created">>
           second == <<c, "child-created">>
<1>1. c \in Sessions /\ r \in Sessions /\ c # r
  BY DEF Sessions, CreateChild, RInv, Begun
<1>2. /\ state' = [state EXCEPT ![c] = "idle"]
      /\ heard' = [heard EXCEPT ![c] = <<first>>, ![r] = @ \o <<first, second>>]
      /\ UNCHANGED <<run, queue>>
  BY DEF CreateChild
<1>3. /\ first \in Told /\ first[1] = c /\ first[2] \notin Ends
      /\ second \in Told /\ second[1] = c /\ second[2] \notin Ends
  BY <1>1 DEF Types, Told, Ends
<1> HIDE DEF first, second
<1>4. /\ state' \in [Sessions -> States] /\ state'[c] = "idle"
      /\ \A t \in Sessions \ {c} : state'[t] = state[t]
  BY <1>1, <1>2 DEF RInv, RunTypes, States
<1>5. /\ heard[r] \in Seq(Told) /\ <<first>> \in Seq(Told)
      /\ heard[r] \o <<first, second>> \in Seq(Told)
      /\ \A i \in DOMAIN (heard[r] \o <<first, second>>) :
           \/ i \in DOMAIN heard[r] /\ (heard[r] \o <<first, second>>)[i] = heard[r][i]
           \/ (heard[r] \o <<first, second>>)[i] \in {first, second}
  <2>1. heard[r] \in Seq(Told)
    BY <1>1 DEF RInv, RunTypes
  <2> QED BY <1>3, <2>1, TwoMore
<1>6. /\ heard' \in [Sessions -> Seq(Told)]
      /\ heard'[c] = <<first>> /\ heard'[r] = heard[r] \o <<first, second>>
      /\ \A t \in Sessions \ {c, r} : heard'[t] = heard[t]
  BY <1>1, <1>2, <1>5 DEF RInv, RunTypes
<1>7. \A i \in DOMAIN heard'[r] :
        \/ i \in DOMAIN heard[r] /\ heard'[r][i] = heard[r][i]
        \/ heard'[r][i][1] = c
  BY <1>3, <1>5, <1>6
<1>8. \A t \in Sessions \ {c} : \A i \in DOMAIN heard'[t] :
        heard'[t][i][1] = t => i \in DOMAIN heard[t] /\ heard'[t][i] = heard[t][i]
  <2> SUFFICES ASSUME NEW t \in Sessions \ {c}, NEW i \in DOMAIN heard'[t], heard'[t][i][1] = t
               PROVE  i \in DOMAIN heard[t] /\ heard'[t][i] = heard[t][i]
    OBVIOUS
  <2>1. CASE t = r
    BY <2>1, <1>7
  <2>2. CASE t # r
    BY <2>2, <1>6
  <2> QED BY <2>1, <2>2
<1>9. \A i \in DOMAIN heard'[c] : heard'[c][i][2] \notin Ends
  BY <1>3, <1>6
<1>10. Quiet'
  <2> SUFFICES ASSUME NEW t \in Sessions, NEW i \in DOMAIN heard'[t],
                      heard'[t][i][1] = t, heard'[t][i][2] \in Ends
               PROVE  state'[t] \in Ends
    BY DEF Quiet, EndTold
  <2>1. t # c
    BY <1>9
  <2> QED BY <2>1, <1>4, <1>8 DEF RInv, Quiet, EndTold
<1>11. OneEnd'
  <2> SUFFICES ASSUME NEW t \in Sessions, NEW i \in DOMAIN heard'[t], NEW j \in DOMAIN heard'[t],
                      heard'[t][i][1] = t, heard'[t][i][2] \in Ends, heard'[t][j][1] = t
               PROVE  j <= i
    BY DEF OneEnd
  <2>1. t # c
    BY <1>9
  <2> QED BY <2>1, <1>8 DEF RInv, OneEnd
<1>12. Begun' /\ run' \in [Runs -> RunStates] /\ queue' \in Seq(Runs)
  BY <1>2, <1>4 DEF RInv, RunTypes, Begun, Sessions
<1> QED BY <1>4, <1>6, <1>10, <1>11, <1>12 DEF RInv, RunTypes

-----------------------------------------------------------------------------
LEMMA InitRInv == ModesInit => RInv
BY DEF ModesInit, RInv, RunTypes, Quiet, EndTold, Begun, OneEnd, States, RunStates

LEMMA NextRInv == RInv /\ [ModesNext]_modesVars => RInv'
<1> SUFFICES ASSUME RInv, [ModesNext]_modesVars
             PROVE  RInv'
  OBVIOUS
<1>1. CASE UNCHANGED modesVars
  BY <1>1 DEF modesVars, RInv, RunTypes, Quiet, EndTold, Begun, OneEnd
<1>2. CASE FlushNext
  <2>1. Head(queue) \in Runs /\ Tail(queue) \in Seq(Runs) /\ state[Head(queue)] # "none"
    BY <1>2 DEF FlushNext, RInv, RunTypes, Begun
  <2>2. \A i \in DOMAIN Tail(queue) : state[Tail(queue)[i]] # "none"
    <3>1. \A i \in DOMAIN Tail(queue) : i + 1 \in DOMAIN queue /\ Tail(queue)[i] = queue[i + 1]
      BY <1>2 DEF FlushNext, RInv, RunTypes
    <3> QED BY <3>1 DEF RInv, Begun
  <2>3. RunTypes' /\ Begun'
    BY <1>2, <2>1, <2>2 DEF FlushNext, RInv, RunTypes, Begun, RunStates
  <2> QED BY <1>2, <2>3 DEF FlushNext, RInv, Quiet, EndTold, OneEnd
<1>3. ASSUME NEW r \in Runs, NEW end \in Ends \cup {"running"}, NEW told \in Seq(Told), NEW at \in RunStates,
             \A i \in DOMAIN told : told[i][2] \in Ends => i = Len(told) /\ end \in Ends,
             state' = [state EXCEPT ![r] = end], heard' = [heard EXCEPT ![r] = told],
             run' = [run EXCEPT ![r] = at],
             \/ UNCHANGED queue
             \/ queue' = Append(queue, r)
      PROVE  RInv'
  <2>1. /\ state' \in [Sessions -> States] /\ heard' \in [Sessions -> Seq(Told)]
        /\ Quiet' /\ OneEnd'
        /\ \A t \in Sessions : state[t] # "none" => state'[t] # "none"
    BY <1>3, BeginKeeps
  <2>2. state'[r] # "none"
    BY <1>3 DEF RInv, RunTypes, Sessions, Ends
  <2>3. run' \in [Runs -> RunStates] /\ \A q \in Runs \ {r} : run'[q] = run[q]
    BY <1>3 DEF RInv, RunTypes
  <2>4. queue' \in Seq(Runs) /\ \A i \in DOMAIN queue' : queue'[i] = r \/ (i \in DOMAIN queue /\ queue'[i] = queue[i])
    <3>1. queue \in Seq(Runs)
      BY DEF RInv, RunTypes
    <3>2. CASE UNCHANGED queue
      BY <3>1, <3>2
    <3>3. CASE queue' = Append(queue, r)
      BY <3>1, <3>3
    <3> QED BY <1>3, <3>2, <3>3
  <2>5. \A i \in DOMAIN queue : queue[i] \in Sessions
    BY DEF RInv, RunTypes, Sessions
  <2>6. Begun'
    BY <2>1, <2>2, <2>3, <2>4, <2>5 DEF RInv, Begun, Sessions
  <2> QED BY <2>1, <2>3, <2>4, <2>6 DEF RInv, RunTypes
<1>4. ASSUME NEW s \in Sessions, NEW next \in Ends \cup {"running"}, Transition(s, next),
             run' \in [Runs -> RunStates], UNCHANGED queue,
             \A r \in Runs : run'[r] \in {"dispatched", "task"} => run'[r] = run[r]
      PROVE  RInv'
  <2>1. /\ state' \in [Sessions -> States] /\ heard' \in [Sessions -> Seq(Told)]
        /\ Quiet' /\ OneEnd'
        /\ \A t \in Sessions : state[t] # "none" => state'[t] # "none"
    BY <1>4, TransitionKeeps
  <2>2. \A i \in DOMAIN queue : queue[i] \in Sessions
    BY DEF RInv, RunTypes, Sessions
  <2> QED BY <1>4, <2>1, <2>2 DEF RInv, RunTypes, Begun, Sessions
<1>5. ASSUME NEW r \in Runs, NEW at \in RunStates, run' = [run EXCEPT ![r] = at],
             UNCHANGED <<state, heard, queue>>, at \in {"dispatched", "task"} => state[r] # "none"
      PROVE  RInv'
  BY <1>5 DEF RInv, RunTypes, Quiet, EndTold, Begun, OneEnd
<1>6. ASSUME NEW r \in Runs, Schedule(r)
      PROVE  RInv'
  <2> DEFINE told == <<<<r, "created">>, <<r, "running">>>>
  <2>1. told \in Seq(Told) /\ \A i \in DOMAIN told : told[i][2] \notin Ends
    BY DEF Told, Types, Sessions, Ends
  <2>2. "scheduled" \in RunStates /\ "running" \in Ends \cup {"running"}
    BY DEF RunStates
  <2> QED BY <1>3, <1>6, <2>1, <2>2 DEF Schedule
<1>7. ASSUME NEW r \in Runs, NEW end \in Ends, NEW at \in RunStates, run' = [run EXCEPT ![r] = at],
             state' = [state EXCEPT ![r] = end], UNCHANGED queue,
             heard' = [heard EXCEPT ![r] = <<<<r, "created">>, <<r, "running">>, <<r, end>>>>]
      PROVE  RInv'
  <2> DEFINE told == <<<<r, "created">>, <<r, "running">>, <<r, end>>>>
  <2>1. <<r, "created">> \in Told /\ <<r, "running">> \in Told /\ <<r, end>> \in Told
    BY DEF Told, Types, Sessions
  <2>2. told \in Seq(Told)
    BY <2>1
  <2>3. \A i \in DOMAIN told : told[i][2] \in Ends => i = Len(told)
    BY DEF Ends
  <2> HIDE DEF told
  <2>4. heard' = [heard EXCEPT ![r] = told]
    BY <1>7 DEF told
  <2> QED BY <1>3, <1>7, <2>2, <2>3, <2>4
<1>8. ASSUME NEW r \in Runs, ScheduleThrows(r)
      PROVE  RInv'
  BY <1>7, <1>8 DEF ScheduleThrows, Ends, RunStates
<1>9. ASSUME NEW r \in Runs, NEW left \in Ends \cup {"running"}, NEW how \in {"returned", "threw"},
             SyncRun(r, left, how)
      PROVE  RInv'
  <2> DEFINE end == IF left # "running" THEN left
                    ELSE IF how = "returned" THEN "succeeded" ELSE "failed"
             at == IF left = "running" /\ how = "returned" THEN "resolved" ELSE "rejected"
  <2>1. end \in Ends /\ at \in RunStates
    BY DEF Ends, RunStates
  <2>2. /\ run' = [run EXCEPT ![r] = at] /\ state' = [state EXCEPT ![r] = end] /\ UNCHANGED queue
        /\ heard' = [heard EXCEPT ![r] = <<<<r, "created">>, <<r, "running">>, <<r, end>>>>]
    BY <1>9 DEF SyncRun
  <2> HIDE DEF end, at
  <2> QED BY <1>7, <2>1, <2>2
<1>10. ASSUME NEW r \in Runs, TaskStarts(r)
       PROVE  RInv'
  BY <1>5, <1>10 DEF TaskStarts, RunStates, RInv, Begun
<1>11. ASSUME NEW r \in Runs, NEW how \in {"returned", "threw"}, TaskSettles(r, how)
       PROVE  RInv'
  BY <1>5, <1>11 DEF TaskSettles, RunStates
<1>12. ASSUME NEW r \in Runs, NEW next \in Ends, NEW how \in {"resolved", "rejected"}, Complete(r, next, how)
       PROVE  RInv'
  <2>1. r \in Sessions /\ next \in Ends \cup {"running"}
    BY DEF Sessions
  <2>2. CASE Transition(r, next) /\ run' = [run EXCEPT ![r] = how]
    <3>1. run' \in [Runs -> RunStates] /\ \A q \in Runs : run'[q] \in {"dispatched", "task"} => run'[q] = run[q]
      BY <2>2 DEF RInv, RunTypes, RunStates
    <3> QED BY <1>4, <1>12, <2>1, <2>2, <3>1 DEF Complete
  <2>3. CASE run' = [run EXCEPT ![r] = "lost"] /\ UNCHANGED <<state, heard>>
    BY <1>5, <1>12, <2>3 DEF Complete, RunStates
  <2> QED BY <1>12, <2>2, <2>3 DEF Complete
<1>13. ASSUME NEW r \in Runs, TaskFulfilled(r) \/ TaskRejected(r)
       PROVE  RInv'
  BY <1>12, <1>13 DEF TaskFulfilled, TaskRejected, Ends
<1>14. ASSUME NEW s \in Sessions, NEW next \in Ends \cup {"running"}, Transition(s, next), UNCHANGED <<run, queue>>
       PROVE  RInv'
  BY <1>4, <1>14 DEF RInv, RunTypes
<1>15. ASSUME NEW r \in Runs, NEW next \in Ends, Meddle(r, next)
       PROVE  RInv'
  BY <1>14, <1>15 DEF Meddle, Sessions
<1>16. ASSUME NEW c \in Children, NEW next \in Ends \cup {"running"}, MoveChild(c, next)
       PROVE  RInv'
  BY <1>14, <1>16 DEF MoveChild, Sessions
<1> QED BY <1>1, <1>2, <1>6, <1>8, <1>9, <1>10, <1>11, <1>13, <1>15, <1>16, CreateChildKeeps DEF ModesNext

\* A session has one end, whoever ends it and whenever: observers hear of one
\* terminal transition, and of nothing from that session afterwards.
THEOREM OneEndAlways == ModesSpec => []OneEnd
<1>1. RInv => OneEnd
  BY DEF RInv
<1> QED BY <1>1, InitRInv, NextRInv, PTL DEF ModesSpec

-----------------------------------------------------------------------------
(***************************************************************************)
(* Interaction: every question is settled by its own, and told             *)
(***************************************************************************)

Names == Questions \cup {Nothing}
AskStates == {"none", "waiting", "refused", "answered", "cancelled", "timeout", "aborted"}
Causes == {"timeout", "aborted"}
Kinds == {"question.requested", "question.answered", "question.cancelled", "task_list.updated"}
Notices == [type : Kinds, question : Names]
Entries == [sequence : Nat, event : Notices]

Typed ==
  /\ ask \in [Asks -> [question : Names, state : AskStates, by : Asks \cup {Nothing}]]
  /\ pending \in Seq(Asks)
  /\ armed \subseteq Asks \X Causes
  /\ tasks \in BOOLEAN /\ attached \in BOOLEAN /\ closed \in BOOLEAN

Sent ==
  /\ history \in Seq(Entries)
  /\ nextSequence \in Nat \ {0}
  /\ stream \in [Clients -> [on : BOOLEAN, from : Nat, got : Seq(Nat)]]

\* The history is numbered without a hole up to the latest event.
Dense ==
  /\ Len(history) < nextSequence
  /\ \A i \in DOMAIN history : history[i].sequence = nextSequence - 1 - Len(history) + i

\* The table has one entry for a question, and a call that waits has asked one.
Unique ==
  /\ \A i, j \in DOMAIN pending : ask[pending[i]].question = ask[pending[j]].question => i = j
  /\ \A i \in DOMAIN pending : ask[pending[i]].question \in Questions

Transport == Sent /\ Dense /\ StreamsWhole
Table == Typed /\ Unique /\ SettledByItsOwn
Reader == shown \in SUBSET Questions /\ EventsShowPending
AInv == Table /\ Transport /\ Reader

-----------------------------------------------------------------------------
\* record() leaves the end of what it is given.
LEMMA RecordedEnd ==
  ASSUME NEW S, NEW s \in Seq(S)
  PROVE  /\ Recorded(s) \in Seq(S) /\ Len(Recorded(s)) <= Len(s)
         /\ \A i \in 1..Len(Recorded(s)) : Recorded(s)[i] = s[Len(s) - Len(Recorded(s)) + i]
<1> DEFINE drop == IF HistoryLimit >= 0 /\ Len(s) > HistoryLimit THEN Len(s) - HistoryLimit ELSE 0
<1>1. drop \in 0..Len(s) /\ Len(s) \in Nat
  BY InteractionAssumption, LenProperties
<1>2. Recorded(s) = SubSeq(s, drop + 1, Len(s))
  BY DEF Recorded
<1> HIDE DEF drop
<1>3. /\ SubSeq(s, drop + 1, Len(s)) \in Seq(S)
      /\ Len(SubSeq(s, drop + 1, Len(s))) = Len(s) - drop
      /\ \A i \in 1..(Len(s) - drop) : SubSeq(s, drop + 1, Len(s))[i] = s[drop + i]
  BY <1>1
<1> DEFINE kept == SubSeq(s, drop + 1, Len(s))
<1> HIDE DEF kept
<1>4. Len(kept) \in Nat /\ Len(s) - Len(kept) = drop /\ Len(kept) <= Len(s)
  BY <1>1, <1>3 DEF kept
<1>5. \A i \in 1..Len(kept) : kept[i] = s[Len(s) - Len(kept) + i]
  BY <1>3, <1>4 DEF kept
<1>6. kept \in Seq(S) /\ Recorded(s) = kept
  BY <1>2, <1>3 DEF kept
<1> QED
  BY <1>4, <1>5, <1>6

\* emit() keeps the history dense, and gives every stream what it numbers.
LEMMA PublishKeeps ==
  ASSUME Transport, NEW evs \in Seq(Notices), NEW on \in BOOLEAN, NEW before, Publish(evs, on, before)
  PROVE  Transport'
<1>1. CASE ~ (on /\ ~ closed)
  BY <1>1 DEF Publish, Transport, Sent, Dense, StreamsWhole
<1>2. CASE on /\ ~ closed
  <2> DEFINE n == Len(evs)
             new == [i \in DOMAIN evs |-> [sequence |-> nextSequence + i - 1, event |-> evs[i]]]
             numbers == [i \in DOMAIN evs |-> nextSequence + i - 1]
             all == history \o new
             h == Recorded(all)
  <2>1. /\ history' = h /\ nextSequence' = nextSequence + n
        /\ stream' = [c \in Clients |-> IF stream[c].on THEN [stream[c] EXCEPT !.got = @ \o numbers] ELSE stream[c]]
    BY <1>2 DEF Publish
  <2>2. /\ n \in Nat /\ DOMAIN evs = 1..n /\ Len(history) \in Nat /\ nextSequence \in Nat \ {0}
        /\ history \in Seq(Entries)
    BY DEF Transport, Sent
  <2>3. new \in Seq(Entries) /\ Len(new) = n /\ \A i \in 1..n : new[i].sequence = nextSequence + i - 1
    <3>1. new \in [1..n -> Entries]
      BY <2>2 DEF Entries
    <3> QED
      BY <3>1, <2>2
  <2>4. numbers \in Seq(Nat) /\ Len(numbers) = n /\ \A i \in 1..n : numbers[i] = nextSequence + i - 1
    BY <2>2
  <2> HIDE DEF new, numbers
  <2>5. /\ all \in Seq(Entries) /\ Len(all) = Len(history) + n
        /\ \A i \in 1..Len(all) : all[i] = IF i <= Len(history) THEN history[i] ELSE new[i - Len(history)]
    BY <2>2, <2>3, ConcatProperties
  <2>6. \A i \in 1..Len(all) : all[i].sequence = nextSequence + n - 1 - Len(all) + i
    BY <2>2, <2>3, <2>5 DEF Transport, Dense
  <2> HIDE DEF all
  <2>7. /\ h \in Seq(Entries) /\ Len(h) <= Len(all)
        /\ \A i \in 1..Len(h) : h[i] = all[Len(all) - Len(h) + i]
    BY <2>5, RecordedEnd
  <2> HIDE DEF h
  <2>8. Len(h) \in Nat /\ DOMAIN h = 1..Len(h) /\ DOMAIN history = 1..Len(history)
    BY <2>7, <2>2
  <2>9. Dense'
    <3>1. Len(history) < nextSequence
      BY DEF Transport, Dense
    <3>2. Len(h) < nextSequence + n
      BY <3>1, <2>2, <2>5, <2>7, <2>8
    <3>3. ASSUME NEW i \in 1..Len(h)
          PROVE  h[i].sequence = nextSequence + n - 1 - Len(h) + i
      <4>1. Len(all) - Len(h) + i \in 1..Len(all)
        BY <2>2, <2>5, <2>7, <2>8
      <4>2. h[i].sequence = nextSequence + n - 1 - Len(all) + (Len(all) - Len(h) + i)
        BY <4>1, <2>6, <2>7
      <4> QED
        BY <4>2, <2>2, <2>5, <2>8
    <3>4. history' = h /\ nextSequence' = nextSequence + n
      BY <2>1
    <3>5. \A i \in DOMAIN h : h[i].sequence = (nextSequence + n) - 1 - Len(h) + i
      BY <3>3, <2>2, <2>8
    <3> QED
      BY <3>2, <3>4, <3>5 DEF Dense
  <2>10. Sent'
    <3>1. \A c \in Clients : stream[c].got \o numbers \in Seq(Nat)
      BY <2>4, ConcatProperties DEF Transport, Sent
    <3>2. stream' \in [Clients -> [on : BOOLEAN, from : Nat, got : Seq(Nat)]]
      BY <3>1, <2>1 DEF Transport, Sent
    <3> QED
      <4>1. nextSequence + n \in Nat \ {0}
        BY <2>2
      <4> QED
        BY <4>1, <3>2, <2>1, <2>7 DEF Sent
  <2>11. StreamsWhole'
    <3> SUFFICES ASSUME NEW c \in Clients, stream'[c].on
                 PROVE  /\ \A i \in DOMAIN stream'[c].got :
                             stream'[c].got[i] = nextSequence' - 1 - Len(stream'[c].got) + i
                        /\ \A i \in DOMAIN history' : history'[i].sequence >= stream'[c].from =>
                             \E j \in DOMAIN stream'[c].got : stream'[c].got[j] = history'[i].sequence
      BY DEF StreamsWhole
    <3> DEFINE old == stream[c].got
               got == old \o numbers
    <3>1. stream[c].on /\ stream'[c].got = got /\ stream'[c].from = stream[c].from
      BY <2>1 DEF Transport, Sent
    <3>2. old \in Seq(Nat) /\ stream[c].from \in Nat
      BY DEF Transport, Sent
    <3>3. /\ \A i \in DOMAIN old : old[i] = nextSequence - 1 - Len(old) + i
          /\ \A i \in DOMAIN history : history[i].sequence >= stream[c].from =>
               \E j \in DOMAIN old : old[j] = history[i].sequence
      BY <3>1 DEF Transport, StreamsWhole
    <3> HIDE DEF old
    <3>4. /\ DOMAIN got = 1..(Len(old) + n) /\ Len(got) = Len(old) + n /\ Len(old) \in Nat /\ DOMAIN old = 1..Len(old)
          /\ \A i \in 1..Len(got) : got[i] = IF i <= Len(old) THEN old[i] ELSE numbers[i - Len(old)]
      <4>1. /\ got \in Seq(Nat) /\ Len(got) = Len(old) + n
            /\ \A i \in 1..Len(got) : got[i] = IF i <= Len(old) THEN old[i] ELSE numbers[i - Len(old)]
        BY <2>4, <3>2, ConcatProperties
      <4> HIDE DEF got
      <4> QED
        BY <4>1, <3>2, LenProperties
    <3> HIDE DEF got
    <3>5. ASSUME NEW i \in DOMAIN got
          PROVE  got[i] = nextSequence + n - 1 - Len(got) + i
      <4>1. i \in 1..(Len(old) + n)
        BY <3>4
      <4>2. CASE i <= Len(old)
        <5>1. i \in DOMAIN old /\ got[i] = old[i]
          BY <4>1, <4>2, <3>4
        <5> QED
          BY <5>1, <4>1, <3>3, <3>4, <2>2
      <4>3. CASE i > Len(old)
        <5>1. i - Len(old) \in 1..n /\ got[i] = numbers[i - Len(old)]
          BY <4>1, <4>3, <3>4, <2>2
        <5>2. got[i] = nextSequence + (i - Len(old)) - 1
          BY <5>1, <2>4
        <5> QED
          BY <5>2, <4>1, <3>4, <2>2
      <4> QED
        BY <4>1, <4>2, <4>3, <3>4
    <3>6. ASSUME NEW i \in 1..Len(h), h[i].sequence >= stream[c].from
          PROVE  \E j \in DOMAIN got : got[j] = h[i].sequence
      <4> DEFINE k == Len(all) - Len(h) + i
      <4>1. k \in 1..Len(all) /\ h[i] = all[k]
        BY <2>2, <2>5, <2>7, <2>8
      <4> HIDE DEF k
      <4>2. CASE k <= Len(history)
        <5>1. all[k] = history[k] /\ k \in DOMAIN history
          BY <4>1, <4>2, <2>2, <2>5, <2>8
        <5>2. PICK j \in DOMAIN old : old[j] = history[k].sequence
          BY <5>1, <4>1, <3>3, <3>6
        <5>3. j \in DOMAIN got /\ got[j] = old[j]
          BY <3>4, <2>2
        <5> QED
          BY <5>1, <5>2, <5>3, <4>1
      <4>3. CASE k > Len(history)
        <5> DEFINE m == k - Len(history)
        <5>1. m \in 1..n /\ all[k] = new[m]
          BY <4>1, <4>3, <2>2, <2>5
        <5>2. Len(old) + m \in DOMAIN got /\ got[Len(old) + m] = numbers[m]
          BY <5>1, <3>4, <2>2
        <5> QED
          BY <5>1, <5>2, <4>1, <2>3, <2>4
      <4> QED
        BY <4>1, <4>2, <4>3, <2>2
    <3>7. stream'[c].got = got /\ stream'[c].from = stream[c].from /\ nextSequence' = nextSequence + n /\ history' = h
      BY <3>1, <2>1
    <3>8. \A i \in DOMAIN got : got[i] = (nextSequence + n) - 1 - Len(got) + i
      BY <3>5, <3>4, <2>2
    <3>9. \A i \in DOMAIN h : h[i].sequence >= stream[c].from => \E j \in DOMAIN got : got[j] = h[i].sequence
      BY <3>6, <2>8
    <3> QED
      BY <3>7, <3>8, <3>9
  <2> QED
    BY <2>9, <2>10, <2>11 DEF Transport
<1> QED
  BY <1>1, <1>2

\* A client that connects has what is kept from where it asked to start.
LEMMA ConnectKeeps ==
  ASSUME Transport, NEW c \in Clients, NEW from \in Starts, Connect(c, from)
  PROVE  Transport'
<1>1. PICK n \in 0..Len(history) :
        /\ \A i \in DOMAIN history : history[i].sequence >= from <=> i > n
        /\ stream' = [stream EXCEPT ![c] =
             [on |-> TRUE, from |-> from,
              got |-> [i \in DOMAIN SubSeq(history, n + 1, Len(history)) |->
                         SubSeq(history, n + 1, Len(history))[i].sequence]]]
  <2>1. PICK kept \in Snapshot(from) :
          stream' = [stream EXCEPT ![c] = [on |-> TRUE, from |-> from, got |-> [i \in DOMAIN kept |-> kept[i].sequence]]]
    BY DEF Connect
  <2>2. PICK n \in 0..Len(history) :
          /\ \A i \in DOMAIN history : history[i].sequence >= from <=> i > n
          /\ kept = SubSeq(history, n + 1, Len(history))
    BY DEF Snapshot
  <2> QED
    BY <2>1, <2>2
<1> DEFINE kept == SubSeq(history, n + 1, Len(history))
           got == [i \in DOMAIN kept |-> kept[i].sequence]
<1>2. history \in Seq(Entries) /\ Len(history) \in Nat /\ n \in Nat /\ nextSequence \in Nat /\ from \in Nat
  BY InteractionAssumption DEF Transport, Sent
<1>3. DOMAIN history = 1..Len(history)
  BY <1>2
<1>4. /\ kept \in Seq(Entries) /\ Len(kept) = Len(history) - n /\ DOMAIN kept = 1..(Len(history) - n)
      /\ \A i \in 1..(Len(history) - n) : kept[i] = history[n + i]
  BY <1>2
<1> HIDE DEF kept
<1>5. \A i \in DOMAIN kept : kept[i] \in Entries /\ kept[i].sequence \in Nat
  <2>1. \A i \in DOMAIN kept : kept[i] \in Entries
    BY <1>4
  <2> QED
    BY <2>1 DEF Entries
<1>6. got \in [1..(Len(history) - n) -> Nat] /\ Len(history) - n \in Nat
  BY <1>2, <1>4, <1>5
<1>7. got \in Seq(Nat) /\ Len(got) = Len(history) - n /\ DOMAIN got = 1..(Len(history) - n)
  BY <1>6
<1>8. \A i \in DOMAIN got : got[i] = history[n + i].sequence /\ n + i \in DOMAIN history
  BY <1>2, <1>3, <1>4, <1>7
<1> HIDE DEF got
<1>9. stream' = [stream EXCEPT ![c] = [on |-> TRUE, from |-> from, got |-> got]]
  BY <1>1 DEF kept, got
<1>10. UNCHANGED <<history, nextSequence>>
  BY DEF Connect
<1>11. Sent' /\ Dense'
  BY <1>2, <1>7, <1>9, <1>10 DEF Transport, Sent, Dense
<1>12. stream'[c] = [on |-> TRUE, from |-> from, got |-> got] /\ \A d \in Clients \ {c} : stream'[d] = stream[d]
  BY <1>9 DEF Transport, Sent
<1>13. ASSUME NEW i \in DOMAIN got
       PROVE  got[i] = nextSequence - 1 - Len(got) + i
  <2>1. history[n + i].sequence = nextSequence - 1 - Len(history) + (n + i)
    BY <1>8 DEF Transport, Dense
  <2>2. i \in Nat
    BY <1>7
  <2> QED
    BY <2>1, <2>2, <1>2, <1>7, <1>8
<1>14. ASSUME NEW i \in DOMAIN history, history[i].sequence >= from
       PROVE  \E j \in DOMAIN got : got[j] = history[i].sequence
  <2>1. i > n /\ i \in 1..Len(history)
    BY <1>1, <1>3, <1>14
  <2>2. i - n \in DOMAIN got /\ n + (i - n) = i
    BY <2>1, <1>2, <1>7
  <2> QED
    BY <2>2, <1>8
<1>15. StreamsWhole'
  <2> SUFFICES ASSUME NEW d \in Clients, stream'[d].on
               PROVE  /\ \A i \in DOMAIN stream'[d].got :
                           stream'[d].got[i] = nextSequence - 1 - Len(stream'[d].got) + i
                      /\ \A i \in DOMAIN history : history[i].sequence >= stream'[d].from =>
                           \E j \in DOMAIN stream'[d].got : stream'[d].got[j] = history[i].sequence
    BY <1>10 DEF StreamsWhole
  <2>1. CASE d = c
    BY <2>1, <1>12, <1>13, <1>14
  <2>2. CASE d # c
    BY <2>2, <1>12 DEF Transport, StreamsWhole
  <2> QED
    BY <2>1, <2>2
<1> QED
  BY <1>11, <1>15 DEF Transport

\* A stream that ends, or the end of all streams and of what was kept.
LEMMA DisconnectKeeps ==
  ASSUME Transport, NEW c \in Clients, Disconnect(c)
  PROVE  Transport'
<1>1. Off \in [on : BOOLEAN, from : Nat, got : Seq(Nat)] /\ Off.on = FALSE
  BY DEF Off
<1> QED
  BY <1>1 DEF Disconnect, Transport, Sent, Dense, StreamsWhole

LEMMA CloseKeeps ==
  ASSUME Transport, Close
  PROVE  Transport'
<1>1. Off \in [on : BOOLEAN, from : Nat, got : Seq(Nat)] /\ Off.on = FALSE
  BY DEF Off
<1>2. \A c \in Clients : stream'[c] = Off
  BY DEF Close
<1>3. Len(<<>>) = 0 /\ history' = <<>> /\ <<>> \in Seq(Entries) /\ DOMAIN <<>> = {}
  BY DEF Close
<1>4. Sent'
  BY <1>1, <1>3 DEF Close, Transport, Sent
<1>5. Dense'
  BY <1>3 DEF Close, Transport, Sent, Dense
<1>6. StreamsWhole'
  BY <1>1, <1>2 DEF StreamsWhole
<1> QED
  BY <1>4, <1>5, <1>6 DEF Transport

-----------------------------------------------------------------------------
\* What a reader shows after a question is asked, after it is closed, and after
\* a task list.
LEMMA ShownRequest ==
  ASSUME NEW before \in SUBSET Questions, NEW q \in Questions
  PROVE  ShownAfter(before, <<Requested(q)>>) = before \cup {q}
BY DEF ShownAfter, Requested, Closing, Event

LEMMA ShownClose ==
  ASSUME NEW before \in SUBSET Questions, NEW q \in Questions,
         NEW type \in {"question.answered", "question.cancelled"}
  PROVE  ShownAfter(before, <<Event(type, q)>>) = before \ {q}
BY DEF ShownAfter, Requested, Closing, Event

LEMMA ShownTask ==
  ASSUME NEW before \in SUBSET Questions
  PROVE  ShownAfter(before, <<TaskEvent>>) = before
BY DEF ShownAfter, TaskEvent, Requested, Closing, Event

\* The replay to a new transport shows what is pending.
LEMMA ShownReplay ==
  ASSUME Table
  PROVE  LET evs == Listed \o [i \in DOMAIN pending |-> Requested(ask[pending[i]].question)]
         IN /\ evs \in Seq(Notices)
            /\ ShownAfter({}, evs) = {ask[pending[i]].question : i \in DOMAIN pending}
<1> DEFINE asked == [i \in DOMAIN pending |-> Requested(ask[pending[i]].question)]
           evs == Listed \o asked
           l == Len(Listed)
           open == {ask[pending[i]].question : i \in DOMAIN pending}
<1>1. Listed \in Seq(Notices) /\ l \in {0, 1} /\ DOMAIN Listed = 1..l
  <2>1. TaskEvent \in Notices
    BY DEF TaskEvent, Event, Notices, Kinds, Names
  <2>2. CASE tasks
    BY <2>1, <2>2 DEF Listed
  <2>3. CASE ~ tasks
    BY <2>3 DEF Listed
  <2> QED
    BY <2>2, <2>3
<1>2. DOMAIN pending = 1..Len(pending) /\ Len(pending) \in Nat
  BY DEF Table, Typed
<1>3. \A i \in DOMAIN pending : ask[pending[i]].question \in Questions
  BY DEF Table, Unique
<1>4. asked \in Seq(Notices) /\ Len(asked) = Len(pending)
  <2>1. asked \in [1..Len(pending) -> Notices]
    BY <1>2, <1>3 DEF Requested, Event, Notices, Kinds, Names
  <2> QED
    BY <2>1, <1>2
<1>5. \A i \in DOMAIN pending : asked[i] = Requested(ask[pending[i]].question)
  OBVIOUS
<1>6. \A i \in DOMAIN Listed : Listed[i] = TaskEvent
  BY DEF Listed
<1> HIDE DEF asked
<1>7. /\ evs \in Seq(Notices) /\ Len(evs) = l + Len(pending)
      /\ \A i \in 1..Len(evs) : evs[i] = IF i <= l THEN Listed[i] ELSE asked[i - l]
  <2>1. /\ evs \in Seq(Notices) /\ Len(evs) = Len(Listed) + Len(asked)
        /\ \A i \in 1..(Len(Listed) + Len(asked)) :
             evs[i] = IF i <= Len(Listed) THEN Listed[i] ELSE asked[i - Len(Listed)]
    BY <1>1, <1>4, ConcatProperties
  <2> HIDE DEF evs
  <2> QED
    BY <2>1, <1>4
<1> HIDE DEF evs, l
<1>8. DOMAIN evs = 1..(l + Len(pending))
  BY <1>7, LenProperties
<1>9. ASSUME NEW i \in DOMAIN evs
      PROVE  \/ evs[i] = TaskEvent
             \/ i - l \in DOMAIN pending /\ evs[i] = Requested(ask[pending[i - l]].question)
  <2>1. i \in 1..Len(evs)
    BY <1>7, <1>8
  <2>2. CASE i <= l
    <3>1. i \in DOMAIN Listed /\ evs[i] = Listed[i]
      BY <2>1, <2>2, <1>1, <1>7
    <3> QED
      BY <3>1, <1>6
  <2>3. CASE i > l
    <3>1. i - l \in DOMAIN pending /\ ~ (i <= l)
      BY <2>1, <2>3, <1>1, <1>2, <1>7
    <3>2. evs[i] = asked[i - l]
      BY <2>1, <3>1, <1>7
    <3> QED
      BY <3>1, <3>2, <1>5
  <2> QED
    BY <2>1, <2>2, <2>3, <1>1, <1>7
<1>10. \A i \in DOMAIN evs, q \in Questions : evs[i] \notin Closing(q)
  BY <1>9 DEF Closing, TaskEvent, Requested, Event
<1>11. ASSUME NEW q \in open
       PROVE  q \in Questions /\ \E i \in DOMAIN evs : evs[i] = Requested(q)
  <2>1. PICK i \in DOMAIN pending : q = ask[pending[i]].question
    OBVIOUS
  <2>2. l + i \in DOMAIN evs /\ ~ (l + i <= l) /\ (l + i) - l = i
    BY <1>1, <1>2, <1>8
  <2>3. evs[l + i] = asked[i]
    BY <2>2, <1>7, <1>8
  <2> QED
    BY <2>1, <2>2, <2>3, <1>3, <1>5
<1>12. ASSUME NEW q \in Questions, NEW i \in DOMAIN evs, evs[i] = Requested(q)
       PROVE  q \in open
  <2>1. evs[i] # TaskEvent
    BY <1>12 DEF TaskEvent, Requested, Event
  <2>2. i - l \in DOMAIN pending /\ evs[i] = Requested(ask[pending[i - l]].question)
    BY <2>1, <1>9
  <2>3. q = ask[pending[i - l]].question
    BY <2>2, <1>12 DEF Requested, Event
  <2> QED
    BY <2>2, <2>3
<1>13. ShownAfter({}, evs) = open
  BY <1>10, <1>11, <1>12 DEF ShownAfter
<1> QED
  BY <1>7, <1>13 DEF evs, asked

-----------------------------------------------------------------------------
\* Where a call waits, and that it waits only there.
LEMMA Entry ==
  ASSUME Table, NEW i \in DOMAIN pending
  PROVE  /\ pending[i] \in Asks /\ ask[pending[i]].state = "waiting"
         /\ ask[pending[i]].question \in Questions
         /\ i \in 1..Len(pending) /\ Len(pending) \in Nat
         /\ \A j \in DOMAIN pending : pending[j] = pending[i] => j = i
<1>1. pending \in Seq(Asks)
  BY DEF Table, Typed
<1>2. pending[i] \in Asks /\ i \in 1..Len(pending) /\ Len(pending) \in Nat
  BY <1>1
<1>3. Waits(pending[i])
  BY DEF Waits
<1> QED
  BY <1>2, <1>3 DEF Table, Unique, SettledByItsOwn

\* A question leaves the table: it and its timers are gone, and nothing else is.
LEMMA SettleKeeps ==
  ASSUME AInv, NEW i \in DOMAIN pending, NEW how \in {"answered", "cancelled", "timeout", "aborted"},
         NEW by \in Asks, how \in Causes => by = pending[i], Settle(i, how, by)
  PROVE  AInv'
<1>a. PICK a \in Asks : a = pending[i]
  BY Entry DEF AInv
<1> DEFINE q == ask[a].question
           n == Len(pending)
<1>1. a \in Asks /\ ask[a].state = "waiting" /\ q \in Questions /\ i \in 1..n /\ n \in Nat
  BY <1>a, Entry DEF AInv
<1>2. \A j \in DOMAIN pending : pending[j] = a => j = i
  BY <1>a, Entry DEF AInv
<1>3. pending \in Seq(Asks) /\ DOMAIN pending = 1..n
  BY DEF AInv, Table, Typed
<1>4. /\ pending' \in Seq(Asks) /\ Len(pending') = n - 1
      /\ \A j \in 1..(n - 1) : pending'[j] = IF j < i THEN pending[j] ELSE pending[j + 1]
  <2> DEFINE left == SubSeq(pending, 1, i - 1)
             right == SubSeq(pending, i + 1, n)
  <2>1. /\ left \in Seq(Asks) /\ Len(left) = i - 1
        /\ \A j \in 1..(i - 1) : left[j] = pending[j]
    BY <1>1, <1>3
  <2>2. /\ right \in Seq(Asks) /\ Len(right) = n - i
        /\ \A j \in 1..(n - i) : right[j] = pending[i + j]
    BY <1>1, <1>3
  <2>3. pending' = left \o right
    BY DEF Settle
  <2> HIDE DEF left, right
  <2>4. /\ pending' \in Seq(Asks) /\ Len(pending') = Len(left) + Len(right)
        /\ \A j \in 1..(Len(left) + Len(right)) :
             pending'[j] = IF j <= Len(left) THEN left[j] ELSE right[j - Len(left)]
    BY <2>1, <2>2, <2>3, ConcatProperties
  <2>5. Len(left) + Len(right) = n - 1
    BY <2>1, <2>2, <1>1
  <2>6. ASSUME NEW j \in 1..(n - 1)
        PROVE  pending'[j] = IF j < i THEN pending[j] ELSE pending[j + 1]
    <3>1. CASE j < i
      BY <3>1, <2>1, <2>4, <2>5, <1>1
    <3>2. CASE j >= i
      <4>1. ~ (j <= Len(left)) /\ j - (i - 1) \in 1..(n - i) /\ i + (j - (i - 1)) = j + 1
        <5>1. j \in Nat /\ i \in Nat /\ n \in Nat /\ j <= n - 1 /\ i <= j
          BY <3>2, <1>1
        <5> QED
          BY <5>1, <2>1
      <4>2. pending'[j] = right[j - (i - 1)]
        BY <4>1, <2>1, <2>4, <2>5
      <4> QED
        BY <4>1, <4>2, <3>2, <2>2, <1>1
    <3> QED
      BY <3>1, <3>2, <1>1
  <2> QED
    BY <2>4, <2>5, <2>6
<1>5. DOMAIN pending' = 1..(n - 1)
  BY <1>4, LenProperties
<1>6. ask' = [ask EXCEPT ![a] = [@ EXCEPT !.state = how, !.by = by]]
  BY <1>a DEF Settle
<1>7. /\ ask' \in [Asks -> [question : Names, state : AskStates, by : Asks \cup {Nothing}]]
      /\ ask'[a].state = how /\ ask'[a].by = by /\ ask'[a].question = q
      /\ \A b \in Asks \ {a} : ask'[b] = ask[b]
  BY <1>1, <1>6 DEF AInv, Table, Typed, AskStates, Names
<1>8. armed' = armed \ ({a} \X Causes \cup {<<by, how>>})
  BY <1>a DEF Settle, Cleared, Causes
<1> DEFINE From(j) == IF j < i THEN j ELSE j + 1
<1>9. ASSUME NEW j \in DOMAIN pending'
      PROVE  /\ From(j) \in DOMAIN pending /\ From(j) # i /\ pending'[j] = pending[From(j)]
             /\ pending'[j] \in Asks /\ pending'[j] # a
  <2>1. From(j) \in DOMAIN pending /\ From(j) # i /\ pending'[j] = pending[From(j)]
    BY <1>1, <1>3, <1>4, <1>5
  <2> QED
    BY <2>1, <1>2, <1>3
<1>10. ASSUME NEW j \in DOMAIN pending, j # i
       PROVE  \E k \in DOMAIN pending' : pending'[k] = pending[j]
  <2> DEFINE k == IF j < i THEN j ELSE j - 1
  <2>1. k \in 1..(n - 1) /\ From(k) = j
    BY <1>1, <1>3, <1>10
  <2> HIDE DEF k
  <2>2. k \in DOMAIN pending'
    BY <2>1, <1>5
  <2> QED
    BY <2>1, <2>2, <1>9
<1>11. Waits(a) /\ ~ Waits(a)'
  BY <1>a, <1>9 DEF Waits
<1>12. ASSUME NEW b \in Asks \ {a}
       PROVE  Waits(b)' <=> Waits(b)
  <2>1. ASSUME NEW j \in DOMAIN pending', pending'[j] = b
        PROVE  Waits(b)
    BY <2>1, <1>9 DEF Waits
  <2>2. ASSUME NEW j \in DOMAIN pending, pending[j] = b
        PROVE  Waits(b)'
    <3>1. j # i
      BY <2>2, <1>12, <1>a
    <3> QED
      BY <3>1, <2>2, <1>10 DEF Waits
  <2> QED
    BY <2>1, <2>2 DEF Waits
<1>13. Unique'
  <2>1. ASSUME NEW j \in DOMAIN pending'
        PROVE  ask'[pending'[j]] = ask[pending[From(j)]] /\ From(j) \in DOMAIN pending
    BY <1>7, <1>9
  <2>2. \A j \in DOMAIN pending' : ask'[pending'[j]].question \in Questions
    BY <2>1 DEF AInv, Table, Unique
  <2>3. ASSUME NEW j \in DOMAIN pending', NEW k \in DOMAIN pending',
               ask'[pending'[j]].question = ask'[pending'[k]].question
        PROVE  j = k
    <3>1. From(j) = From(k)
      BY <2>1, <2>3 DEF AInv, Table, Unique
    <3> QED
      BY <3>1, <1>1, <1>5
  <2> QED
    BY <2>2, <2>3 DEF Unique
<1>14. Typed'
  BY <1>4, <1>7, <1>8 DEF AInv, Table, Typed, Settle, served
<1>15. SettledByItsOwn'
  <2>1. \A b \in Asks : ask'[b].state \in {"timeout", "aborted"} => ask'[b].by = b
    BY <1>a, <1>7 DEF AInv, Table, SettledByItsOwn, Causes
  <2>2. ASSUME NEW p \in armed'
        PROVE  ask'[p[1]].state = "waiting"
    <3>1. p \in armed /\ p[1] \in Asks /\ p[1] # a
      BY <1>8 DEF AInv, Table, Typed
    <3> QED
      BY <3>1, <1>7 DEF AInv, Table, SettledByItsOwn
  <2>3. ASSUME NEW b \in Asks
        PROVE  ask'[b].state = "waiting" <=> Waits(b)'
    <3>1. CASE b = a
      BY <3>1, <1>7, <1>11
    <3>2. CASE b # a
      BY <3>2, <1>7, <1>12 DEF AInv, Table, SettledByItsOwn
    <3> QED
      BY <3>1, <3>2
  <2> QED
    BY <2>1, <2>2, <2>3 DEF SettledByItsOwn
<1> DEFINE type == IF how = "answered" THEN "question.answered" ELSE "question.cancelled"
<1>16. Publish(<<Event(type, q)>>, attached, shown)
  BY <1>a DEF Settle, Notify
<1>17. Transport'
  <2>1. <<Event(type, q)>> \in Seq(Notices) /\ attached \in BOOLEAN
    BY <1>1 DEF Event, Notices, Kinds, Names, AInv, Table, Typed
  <2> QED
    BY <2>1, <1>16, PublishKeeps DEF AInv
<1>18. Reader'
  <2>1. CASE ~ (attached /\ ~ closed)
    BY <2>1, <1>16 DEF Publish, AInv, Reader, EventsShowPending, Settle, served
  <2>2. CASE attached /\ ~ closed
    <3>1. shown' = shown \ {q}
      <4>1. shown' = ShownAfter(shown, <<Event(type, q)>>)
        BY <2>2, <1>16 DEF Publish
      <4>2. shown \in SUBSET Questions /\ type \in {"question.answered", "question.cancelled"}
        BY DEF AInv, Reader
      <4> HIDE DEF type, q
      <4> QED
        BY <4>1, <4>2, <1>1, ShownClose
    <3>2. shown = {ask[pending[j]].question : j \in DOMAIN pending}
      BY <2>2 DEF AInv, Reader, EventsShowPending
    <3>3. ASSUME NEW j \in DOMAIN pending'
          PROVE  ask'[pending'[j]].question \in shown \ {q}
      <4>1. ask'[pending'[j]] = ask[pending[From(j)]] /\ From(j) \in DOMAIN pending /\ From(j) # i
        BY <1>7, <1>9
      <4> QED
        BY <4>1, <3>2, <1>a DEF AInv, Table, Unique
    <3>4. ASSUME NEW x \in shown \ {q}
          PROVE  \E j \in DOMAIN pending' : x = ask'[pending'[j]].question
      <4>1. PICK j \in DOMAIN pending : x = ask[pending[j]].question
        BY <3>2
      <4>2. j # i
        BY <4>1, <3>4, <1>a
      <4>3. PICK k \in DOMAIN pending' : pending'[k] = pending[j]
        BY <4>2, <1>10
      <4>4. ask'[pending'[k]] = ask[pending[j]]
        BY <4>3, <1>7, <1>9
      <4> QED
        BY <4>1, <4>4
    <3>5. shown' = {ask'[pending'[j]].question : j \in DOMAIN pending'}
      BY <3>1, <3>3, <3>4
    <3> QED
      BY <3>1, <3>5 DEF AInv, Reader, EventsShowPending
  <2> QED
    BY <2>1, <2>2
<1> QED
  BY <1>13, <1>14, <1>15, <1>17, <1>18 DEF AInv, Table

\* A call that is turned down leaves everything else alone.
LEMMA AskRefusedKeeps ==
  ASSUME AInv, NEW a \in Asks, NEW q \in Questions, AskRefused(a, q)
  PROVE  AInv'
<1>1. PICK how \in {"aborted", "refused"} : ask' = [ask EXCEPT ![a] = [question |-> q, state |-> how, by |-> a]]
  BY DEF AskRefused
<1>2. UNCHANGED <<pending, armed, tasks, attached, closed, history, nextSequence, stream, shown>>
  BY DEF AskRefused, served
<1>3. /\ ask' \in [Asks -> [question : Names, state : AskStates, by : Asks \cup {Nothing}]]
      /\ ask'[a].state = how /\ ask'[a].by = a
      /\ \A b \in Asks \ {a} : ask'[b] = ask[b]
  BY <1>1 DEF AInv, Table, Typed, Names, AskStates
<1>4. ask[a].state = "none"
  BY DEF AskRefused, NotAsked
<1>5. ~ Waits(a)
  BY <1>4 DEF AInv, Table, SettledByItsOwn
<1>6. \A i \in DOMAIN pending : pending[i] \in Asks \ {a} /\ ask'[pending[i]] = ask[pending[i]]
  BY <1>3, <1>5, Entry DEF AInv, Waits
<1>7. \A b \in Asks : Waits(b)' <=> Waits(b)
  BY <1>2 DEF Waits
<1>8. Typed' /\ Unique'
  BY <1>2, <1>3, <1>6 DEF AInv, Table, Typed, Unique
<1>9. SettledByItsOwn'
  <2>1. \A p \in armed : p[1] \in Asks /\ p[1] # a
    BY <1>4 DEF AInv, Table, Typed, SettledByItsOwn
  <2>2. \A p \in armed' : ask'[p[1]].state = "waiting"
    BY <2>1, <1>2, <1>3 DEF AInv, Table, SettledByItsOwn
  <2>3. \A b \in Asks : ask'[b].state \in {"timeout", "aborted"} => ask'[b].by = b
    BY <1>3 DEF AInv, Table, SettledByItsOwn
  <2>4. \A b \in Asks : ask'[b].state = "waiting" <=> Waits(b)'
    BY <1>3, <1>5, <1>7 DEF AInv, Table, SettledByItsOwn
  <2> QED
    BY <2>2, <2>3, <2>4 DEF SettledByItsOwn
<1>10. Transport'
  BY <1>2 DEF AInv, Transport, Sent, Dense, StreamsWhole
<1>11. Reader'
  BY <1>2, <1>6 DEF AInv, Reader, EventsShowPending
<1> QED
  BY <1>8, <1>9, <1>10, <1>11 DEF AInv, Table

\* A call that waits has a question that nobody else has open.
LEMMA AskWaitsKeeps ==
  ASSUME AInv, NEW a \in Asks, NEW q \in Questions, NEW causes \in SUBSET Causes, AskWaits(a, q, causes)
  PROVE  AInv'
<1> DEFINE n == Len(pending)
<1>1. ask' = [ask EXCEPT ![a] = [question |-> q, state |-> "waiting", by |-> a]]
  BY DEF AskWaits
<1>2. /\ ask' \in [Asks -> [question : Names, state : AskStates, by : Asks \cup {Nothing}]]
      /\ ask'[a].state = "waiting" /\ ask'[a].question = q
      /\ \A b \in Asks \ {a} : ask'[b] = ask[b]
  BY <1>1 DEF AInv, Table, Typed, Names, AskStates
<1>3. ask[a].state = "none" /\ ~ Waits(a)
  BY DEF AskWaits, NotAsked, AInv, Table, SettledByItsOwn
<1>4. pending \in Seq(Asks) /\ n \in Nat /\ DOMAIN pending = 1..n
  BY DEF AInv, Table, Typed
<1>5. pending' = Append(pending, a)
  BY DEF AskWaits
<1>6. /\ pending' \in Seq(Asks) /\ DOMAIN pending' = 1..(n + 1) /\ pending'[n + 1] = a
      /\ \A i \in 1..n : pending'[i] = pending[i]
  BY <1>4, <1>5, AppendProperties
<1>7. \A i \in DOMAIN pending : pending[i] \in Asks \ {a} /\ ask'[pending[i]] = ask[pending[i]]
  BY <1>2, <1>3, Entry DEF AInv, Waits
<1>8. \A i \in DOMAIN pending : ask[pending[i]].question # q
  BY DEF AskWaits, Open
<1>9. Typed'
  BY <1>2, <1>6 DEF AskWaits, served, AInv, Table, Typed
<1>10. Unique'
  <2>1. ASSUME NEW i \in DOMAIN pending'
        PROVE  \/ i = n + 1 /\ ask'[pending'[i]].question = q
               \/ i \in DOMAIN pending /\ ask'[pending'[i]].question = ask[pending[i]].question
                  /\ ask'[pending'[i]].question # q
    BY <1>2, <1>4, <1>6, <1>7, <1>8
  <2> QED
    BY <2>1 DEF AInv, Table, Unique
<1>11. Waits(a)'
  BY <1>4, <1>6 DEF Waits
<1>12. ASSUME NEW b \in Asks \ {a}
       PROVE  Waits(b)' <=> Waits(b)
  BY <1>4, <1>6 DEF Waits
<1>13. SettledByItsOwn'
  <2>1. armed' = armed \cup ({a} \X causes)
    BY DEF AskWaits
  <2>2. \A p \in armed' : p[1] \in Asks /\ (p \in armed \/ p[1] = a)
    BY <2>1 DEF AInv, Table, Typed
  <2>3. \A p \in armed' : ask'[p[1]].state = "waiting"
    BY <2>2, <1>2 DEF AInv, Table, SettledByItsOwn
  <2>4. \A b \in Asks : ask'[b].state \in {"timeout", "aborted"} => ask'[b].by = b
    BY <1>2 DEF AInv, Table, SettledByItsOwn
  <2>5. \A b \in Asks : ask'[b].state = "waiting" <=> Waits(b)'
    BY <1>2, <1>11, <1>12 DEF AInv, Table, SettledByItsOwn
  <2> QED
    BY <2>3, <2>4, <2>5 DEF SettledByItsOwn
<1>14. Publish(<<Requested(q)>>, attached, shown)
  BY DEF AskWaits, Notify
<1>15. Transport'
  <2>1. <<Requested(q)>> \in Seq(Notices) /\ attached \in BOOLEAN
    BY DEF Requested, Event, Notices, Kinds, Names, AInv, Table, Typed
  <2> QED
    BY <2>1, <1>14, PublishKeeps DEF AInv
<1>16. Reader'
  <2>1. UNCHANGED <<attached, closed>>
    BY DEF AskWaits, served
  <2>2. CASE ~ (attached /\ ~ closed)
    BY <2>1, <2>2, <1>14 DEF Publish, AInv, Reader, EventsShowPending
  <2>3. CASE attached /\ ~ closed
    <3>1. shown' = shown \cup {q} /\ shown \in SUBSET Questions
      BY <2>3, <1>14, ShownRequest DEF Publish, AInv, Reader
    <3>2. shown = {ask[pending[i]].question : i \in DOMAIN pending}
      BY <2>3 DEF AInv, Reader, EventsShowPending
    <3>3. \A i \in DOMAIN pending' : ask'[pending'[i]].question \in shown \cup {q}
      BY <3>2, <1>2, <1>4, <1>6, <1>7
    <3>4. n + 1 \in DOMAIN pending' /\ q = ask'[pending'[n + 1]].question
      BY <1>2, <1>4, <1>6
    <3>5. ASSUME NEW x \in shown
          PROVE  \E i \in DOMAIN pending' : x = ask'[pending'[i]].question
      <4>1. PICK i \in DOMAIN pending : x = ask[pending[i]].question
        BY <3>2
      <4>2. i \in DOMAIN pending' /\ pending'[i] = pending[i]
        BY <1>4, <1>6
      <4> QED
        BY <4>1, <4>2, <1>7
    <3>6. shown' = {ask'[pending'[i]].question : i \in DOMAIN pending'}
      BY <3>1, <3>3, <3>4, <3>5
    <3> QED
      BY <3>1, <3>6 DEF Reader, EventsShowPending
  <2> QED
    BY <2>2, <2>3
<1> QED
  BY <1>9, <1>10, <1>13, <1>15, <1>16 DEF AInv, Table

-----------------------------------------------------------------------------
\* What leaves the calls and the table as they are keeps what is known of them.
LEMMA TableKept ==
  ASSUME Table, UNCHANGED <<ask, pending, armed>>,
         tasks' \in BOOLEAN, attached' \in BOOLEAN, closed' \in BOOLEAN
  PROVE  Table'
BY DEF Table, Typed, Unique, SettledByItsOwn, Waits

LEMMA AttachKeeps ==
  ASSUME AInv, Attach
  PROVE  AInv'
<1> DEFINE evs == Listed \o [i \in DOMAIN pending |-> Requested(ask[pending[i]].question)]
<1>1. Publish(evs, TRUE, {}) /\ attached' = TRUE /\ UNCHANGED <<ask, pending, armed, tasks, closed>>
  BY DEF Attach
<1>2. evs \in Seq(Notices) /\ ShownAfter({}, evs) = {ask[pending[i]].question : i \in DOMAIN pending}
  BY ShownReplay DEF AInv
<1> HIDE DEF evs
<1>3. Table'
  BY <1>1, TableKept DEF AInv, Table, Typed
<1>4. Transport'
  BY <1>1, <1>2, PublishKeeps DEF AInv
<1>5. Reader'
  <2>1. CASE closed
    BY <2>1, <1>1 DEF Publish, Reader, EventsShowPending
  <2>2. CASE ~ closed
    <3>1. shown' = {ask[pending[i]].question : i \in DOMAIN pending}
      BY <2>2, <1>1, <1>2 DEF Publish
    <3>2. shown' \in SUBSET Questions
      BY <3>1 DEF AInv, Table, Unique
    <3> QED
      BY <3>1, <3>2, <1>1 DEF Reader, EventsShowPending
  <2> QED
    BY <2>1, <2>2
<1> QED
  BY <1>3, <1>4, <1>5 DEF AInv

LEMMA TaskWriteKeeps ==
  ASSUME AInv, TaskWrite
  PROVE  AInv'
<1>1. Publish(<<TaskEvent>>, attached, shown) /\ tasks' = TRUE
  BY DEF TaskWrite, Notify
<1>2. UNCHANGED <<ask, pending, armed, attached, closed>>
  BY DEF TaskWrite, served
<1>3. Table'
  BY <1>1, <1>2, TableKept DEF AInv, Table, Typed
<1>4. <<TaskEvent>> \in Seq(Notices) /\ attached \in BOOLEAN
  BY DEF TaskEvent, Event, Notices, Kinds, Names, AInv, Table, Typed
<1>5. Transport'
  BY <1>1, <1>4, PublishKeeps DEF AInv
<1>6. shown' = shown
  BY <1>1, ShownTask DEF Publish, AInv, Reader
<1>7. Reader'
  BY <1>2, <1>6 DEF AInv, Reader, EventsShowPending
<1> QED
  BY <1>3, <1>5, <1>7 DEF AInv

\* The invariant holds at first and is kept by every step.
LEMMA InteractionStarts == InteractionInit => AInv
<1> SUFFICES ASSUME InteractionInit
             PROVE  AInv
  OBVIOUS
<1>1. NotAsked \in [question : Names, state : AskStates, by : Asks \cup {Nothing}]
      /\ NotAsked.state = "none"
  BY DEF NotAsked, Names, AskStates
<1>2. Off \in [on : BOOLEAN, from : Nat, got : Seq(Nat)] /\ Off.on = FALSE
  BY DEF Off
<1>3. \A a \in Asks : ask[a] = NotAsked
  BY DEF InteractionInit
<1>4. pending = <<>> /\ DOMAIN pending = {} /\ armed = {}
  BY DEF InteractionInit
<1>5. Typed
  <2>1. ask \in [Asks -> [question : Names, state : AskStates, by : Asks \cup {Nothing}]]
    BY <1>1 DEF InteractionInit
  <2>2. pending \in Seq(Asks) /\ armed \subseteq Asks \X Causes
    BY <1>4
  <2>3. tasks = FALSE /\ attached = FALSE /\ closed = FALSE
    BY DEF InteractionInit
  <2> QED
    BY <2>1, <2>2, <2>3 DEF Typed
<1>6. Unique /\ SettledByItsOwn
  BY <1>1, <1>3, <1>4 DEF Unique, SettledByItsOwn, Waits
<1>7. history = <<>> /\ DOMAIN history = {} /\ Len(history) = 0 /\ nextSequence = 1
  BY DEF InteractionInit
<1>8. Transport
  BY <1>2, <1>7 DEF InteractionInit, Transport, Sent, Dense, StreamsWhole
<1>9. Reader
  BY DEF InteractionInit, Reader, EventsShowPending
<1> QED
  BY <1>5, <1>6, <1>8, <1>9 DEF AInv, Table

LEMMA InteractionStep == AInv /\ [InteractionNext]_interactionVars => AInv'
<1> SUFFICES ASSUME AInv, [InteractionNext]_interactionVars
             PROVE  AInv'
  OBVIOUS
<1>1. CASE Attach
  BY <1>1, AttachKeeps
<1>2. CASE Detach
  <2>1. UNCHANGED <<ask, pending, armed, tasks, closed, history, nextSequence, stream, shown>> /\ attached' = FALSE
    BY <1>2 DEF Detach
  <2>2. Table'
    BY <2>1, TableKept DEF AInv, Table, Typed
  <2>3. Transport'
    BY <2>1 DEF AInv, Transport, Sent, Dense, StreamsWhole
  <2>4. Reader'
    BY <2>1 DEF AInv, Reader, EventsShowPending
  <2> QED
    BY <2>2, <2>3, <2>4 DEF AInv
<1>3. CASE Close
  <2>1. Table' /\ Transport'
    BY <1>3, TableKept, CloseKeeps DEF Close, AInv, Table, Typed
  <2>2. Reader'
    BY <1>3 DEF Close, AInv, Reader, EventsShowPending
  <2> QED
    BY <2>1, <2>2 DEF AInv
<1>4. CASE TaskWrite
  BY <1>4, TaskWriteKeeps
<1>5. ASSUME NEW c \in Clients, Disconnect(c)
      PROVE  AInv'
  <2>1. Table' /\ Transport'
    BY <1>5, TableKept, DisconnectKeeps DEF Disconnect, served, AInv, Table, Typed
  <2>2. Reader'
    BY <1>5 DEF Disconnect, served, AInv, Reader, EventsShowPending
  <2> QED
    BY <2>1, <2>2 DEF AInv
<1>6. ASSUME NEW c \in Clients, NEW from \in Starts, Connect(c, from)
      PROVE  AInv'
  <2>1. Table' /\ Transport'
    BY <1>6, TableKept, ConnectKeeps DEF Connect, served, AInv, Table, Typed
  <2>2. Reader'
    BY <1>6 DEF Connect, served, AInv, Reader, EventsShowPending
  <2> QED
    BY <2>1, <2>2 DEF AInv
<1>7. ASSUME NEW q \in Questions, Answer(q) \/ Cancel(q)
      PROVE  AInv'
  <2>1. PICK i \in Open(q), how \in {"answered", "cancelled"} : Settle(i, how, pending[i])
    BY <1>7 DEF Answer, Cancel
  <2>2. i \in DOMAIN pending /\ pending[i] \in Asks
    BY Entry DEF Open, AInv
  <2> QED
    BY <2>1, <2>2, SettleKeeps
<1>8. ASSUME NEW a \in Asks, NEW cause \in Causes, Fire(a, cause)
      PROVE  AInv'
  <2>1. ask[a].state = "waiting" /\ Waits(a)
    BY <1>8 DEF Fire, AInv, Table, SettledByItsOwn
  <2>2. PICK j \in DOMAIN pending : pending[j] = a
    BY <2>1 DEF Waits
  <2>3. Open(ask[a].question) = {j}
    BY <2>2 DEF Open, AInv, Table, Unique
  <2>4. Settle(j, cause, a)
    BY <1>8, <2>3 DEF Fire
  <2> QED
    BY <2>2, <2>4, SettleKeeps DEF Causes
<1>9. ASSUME NEW a \in Asks, NEW q \in Questions, AskRefused(a, q)
      PROVE  AInv'
  BY <1>9, AskRefusedKeeps
<1>10. ASSUME NEW a \in Asks, NEW q \in Questions, NEW causes \in SUBSET Causes, AskWaits(a, q, causes)
       PROVE  AInv'
  BY <1>10, AskWaitsKeeps
<1>11. CASE UNCHANGED interactionVars
  BY <1>11 DEF interactionVars, AInv, Table, Typed, Unique, SettledByItsOwn, Waits,
               Transport, Sent, Dense, StreamsWhole, Reader, EventsShowPending
<1> QED
  BY <1>1, <1>2, <1>3, <1>4, <1>5, <1>6, <1>7, <1>8, <1>9, <1>10, <1>11 DEF InteractionNext, Causes

\* A question is closed by what belongs to its call, the events show the pending
\* questions and a stream has no hole: for any number of calls, questions and
\* clients and any limit of the history.
THEOREM QuestionsAlwaysTold == InteractionSpec => []QuestionsTold
<1>1. AInv => QuestionsTold
  BY DEF AInv, Table, Transport, Reader, QuestionsTold
<1> QED
  BY <1>1, InteractionStarts, InteractionStep, PTL DEF InteractionSpec

-----------------------------------------------------------------------------
(***************************************************************************)
(* Web console: what a thread, its events and its streams tell             *)
(***************************************************************************)

Statuses == {"none", "idle", "running", "interrupted", "completed", "failed"}
Threads == [status : Statuses, titled : BOOLEAN]
Tellings == {"ensured", "posted", "begun", "replied", "closed", "stopped"}
PostSteps == {"start", "creating", "ensured", "selecting", "titling", "posted", "registering", "starting",
              "begun", "running", "replied", "closing", "closed", "leaving", "done"}
InterruptSteps == {"start", "stopping", "stopped", "done"}
CallRecords == [at : PostSteps \cup InterruptSteps, copy : Threads, outcome : Outcomes \cup {"none"},
                number : Nat, stored : BOOLEAN]
Readers == [at : {"off", "listed", "live"}, from : Nat, got : Seq(Nat), missed : SUBSET Nat]

ConsoleTyped ==
  /\ thread \in Threads
  /\ events \in Seq(Nat) /\ cache \in Nat
  /\ lock \in Calls \cup {NoCall} /\ active \in Posts \cup {NoCall}
  /\ aborted \subseteq Posts /\ crossed \subseteq Posts
  /\ call \in [Calls -> CallRecords]
  /\ reader \in [Streams -> Readers]
  /\ crashes \in Nat

\* Which steps the calls of each kind take; a run that has ended has an outcome.
Roles ==
  /\ \A i \in Interrupts : call[i].at \in InterruptSteps
  /\ \A p \in Posts : call[p].at \in PostSteps
  /\ \A p \in Posts : call[p].at \in {"replied", "closing"} => call[p].outcome \in Outcomes

\* A thread that says it runs has a post that will save another status.
Underway == {"titling", "posted", "registering", "starting", "begun", "running", "replied", "closing"}
RunningTold == crashes = 0 /\ thread.status = "running" => \E p \in Posts : call[p].at \in Underway

\* The run that is under way has its controller registered, unless runs crossed.
Reached ==
  /\ \A p, q \in Posts : InRun(p) /\ InRun(q) /\ p # q => p \in crossed
  /\ \A p \in Posts : InRun(p) => active = p \/ p \in crossed

\* A call that has a number holds the lock and is about to store or push its event.
Locked ==
  /\ \A p \in Calls : call[p].number # 0 => lock = p /\ call[p].at \in Tellings
  /\ \A p \in Calls : call[p].stored => call[p].number # 0

Unstored(p) == call[p].number # 0 /\ ~ call[p].stored

\* The number in a call's hand and the cached one go on from the events.
Counted ==
  /\ EventsNumbered
  /\ \A p \in Calls : Unstored(p) => call[p].number = Len(events) + 1
  /\ \A p \in Calls : call[p].stored => call[p].number = Len(events)
  /\ cache # 0 => cache = Len(events) + (IF \E p \in Calls : Unstored(p) THEN 2 ELSE 1)

\* No stream is ahead of what is stored.
Following ==
  /\ StreamMissesOnlyGap
  /\ \A s \in Streams : \A i \in DOMAIN reader[s].got : reader[s].got[i] <= Len(events)

Posting == Roles /\ RunningTold /\ Reached
Telling == Locked /\ Counted /\ Following
CInv == ConsoleTyped /\ Posting /\ Telling

-----------------------------------------------------------------------------
LEMMA TellingSteps ==
  /\ DOMAIN After = Tellings
  /\ After["ensured"] = "titling" /\ After["posted"] = "registering" /\ After["begun"] = "running"
  /\ After["replied"] = "closing" /\ After["closed"] = "leaving" /\ After["stopped"] = "done"
BY DEF After, Tellings

\* What is stored is what is numbered so far.
LEMMA StoredNumbers ==
  ASSUME events \in Seq(Nat), EventsNumbered
  PROVE  Stored = 1..Len(events) /\ DOMAIN events = 1..Len(events) /\ Len(events) \in Nat
BY DEF Stored, EventsNumbered

\* The number that a call takes under the lock is the next one.
LEMMA NextIsNext ==
  ASSUME CInv, lock = NoCall, NEW number \in NextNumber
  PROVE  number = Len(events) + 1
<1>1. \A p \in Calls : call[p].number = 0
  BY ConsoleAssumption DEF CInv, Telling, Locked
<1>2. ~ \E p \in Calls : Unstored(p)
  BY <1>1 DEF Unstored
<1>3. Stored = 1..Len(events) /\ Len(events) \in Nat
  BY StoredNumbers DEF CInv, Telling, Counted, ConsoleTyped
<1>4. CASE cache # 0
  BY <1>2, <1>4 DEF NextNumber, CInv, Telling, Counted
<1>5. CASE cache = 0
  <2>1. PICK n \in {0} \cup Stored : number = n + 1 /\ \A m \in Stored : m <= n
    BY <1>5 DEF NextNumber
  <2>2. n = Len(events)
    BY <2>1, <1>3
  <2> QED
    BY <2>1, <2>2
<1> QED
  BY <1>4, <1>5

-----------------------------------------------------------------------------
(***************************************************************************)
(* The steps that tell an event                                            *)
(***************************************************************************)
\* Nothing that the runs are about changes while an event is numbered and stored.
LEMMA PostingKept ==
  ASSUME Posting, UNCHANGED <<thread, active, crossed, crashes>>,
         \A p \in Calls : call'[p].at = call[p].at /\ call'[p].outcome = call[p].outcome
  PROVE  Posting'
<1>1. \A p \in Posts : p \in Calls
  BY DEF Calls
<1>2. \A i \in Interrupts : i \in Calls
  BY DEF Calls
<1>3. Roles'
  BY <1>1, <1>2 DEF Posting, Roles
<1>4. RunningTold'
  BY <1>1 DEF Posting, RunningTold
<1>5. \A p \in Posts : InRun(p)' <=> InRun(p)
  BY <1>1 DEF InRun
<1>6. Reached'
  BY <1>5 DEF Posting, Reached
<1> QED
  BY <1>3, <1>4, <1>6 DEF Posting

LEMMA TakeNumberKeeps ==
  ASSUME CInv, NEW p \in Calls, TakeNumber(p)
  PROVE  CInv'
<1>1. PICK number \in NextNumber : cache' = number + 1 /\ call' = [call EXCEPT ![p].number = number]
  BY DEF TakeNumber
<1>2. lock = NoCall /\ lock' = p /\ call[p].at \in Tellings
  BY TellingSteps DEF TakeNumber, Locks, Emitting
<1>3. number = Len(events) + 1 /\ Len(events) \in Nat
  BY <1>2, NextIsNext, StoredNumbers DEF CInv, ConsoleTyped, Telling, Counted
<1>4. UNCHANGED <<thread, events, active, aborted, reader, crashes, crossed>>
  BY DEF TakeNumber, ghosts
<1>5. \A q \in Calls : call[q].number = 0 /\ ~ call[q].stored
  BY <1>2, ConsoleAssumption DEF CInv, Telling, Locked
<1>6. /\ call' \in [Calls -> CallRecords]
      /\ call'[p].number = number /\ ~ call'[p].stored
      /\ \A q \in Calls \ {p} : call'[q] = call[q]
      /\ \A q \in Calls : call'[q].at = call[q].at /\ call'[q].outcome = call[q].outcome
  BY <1>1, <1>3, <1>5 DEF CInv, ConsoleTyped, CallRecords
<1>7. ConsoleTyped'
  BY <1>1, <1>2, <1>3, <1>4, <1>6 DEF CInv, ConsoleTyped
<1>8. Posting'
  BY <1>4, <1>6, PostingKept DEF CInv
<1>9. Locked'
  BY <1>2, <1>5, <1>6 DEF Locked
<1>10. Counted'
  <2>1. Unstored(p)'
    BY <1>3, <1>6 DEF Unstored
  <2>2. \A q \in Calls \ {p} : ~ Unstored(q)' /\ ~ call'[q].stored
    BY <1>5, <1>6 DEF Unstored
  <2>3. cache' = Len(events') + 2
    BY <1>1, <1>3, <1>4
  <2>4. EventsNumbered'
    BY <1>4 DEF CInv, Telling, Counted, EventsNumbered
  <2> QED
    BY <2>1, <2>2, <2>3, <2>4, <1>3, <1>4, <1>6 DEF Counted
<1>11. Following'
  <2>1. \A q \in Calls : call[q].number # 0 => call'[q].number = call[q].number
    BY <1>5
  <2>2. Stored' = Stored
    BY <1>4 DEF Stored
  <2>3. 0 \notin Stored
    BY StoredNumbers DEF CInv, ConsoleTyped, Telling, Counted
  <2> QED
    BY <2>1, <2>2, <2>3, <1>4 DEF CInv, Telling, Following, StreamMissesOnlyGap
<1> QED
  BY <1>7, <1>8, <1>9, <1>10, <1>11 DEF CInv, Telling

LEMMA StoreEventKeeps ==
  ASSUME CInv, NEW p \in Calls, StoreEvent(p)
  PROVE  CInv'
<1> DEFINE number == call[p].number
<1>1. events' = Append(events, number) /\ call' = [call EXCEPT ![p].stored = TRUE] /\ Unstored(p)
  BY DEF StoreEvent, Unstored
<1>2. UNCHANGED <<thread, cache, lock, active, aborted, reader, crashes, crossed>>
  BY DEF StoreEvent, ghosts
<1>3. number = Len(events) + 1 /\ Len(events) \in Nat /\ lock = p /\ number # 0 /\ call[p].at \in Tellings
  BY <1>1, StoredNumbers DEF CInv, ConsoleTyped, Telling, Counted, Locked, Unstored
<1>4. \A q \in Calls \ {p} : call[q].number = 0 /\ ~ call[q].stored
  BY <1>3 DEF CInv, Telling, Locked
<1>5. /\ call' \in [Calls -> CallRecords]
      /\ call'[p].number = number /\ call'[p].stored
      /\ \A q \in Calls \ {p} : call'[q] = call[q]
      /\ \A q \in Calls : call'[q].at = call[q].at /\ call'[q].outcome = call[q].outcome
  BY <1>1 DEF CInv, ConsoleTyped, CallRecords
<1>6. /\ events' \in Seq(Nat) /\ Len(events') = Len(events) + 1 /\ events'[Len(events) + 1] = number
      /\ DOMAIN events' = 1..(Len(events) + 1) /\ DOMAIN events = 1..Len(events)
      /\ \A i \in 1..Len(events) : events'[i] = events[i]
  BY <1>1, <1>3 DEF CInv, ConsoleTyped
<1>7. ConsoleTyped'
  BY <1>2, <1>5, <1>6 DEF CInv, ConsoleTyped
<1>8. Posting'
  BY <1>2, <1>5, PostingKept DEF CInv
<1>9. Locked'
  BY <1>2, <1>3, <1>4, <1>5 DEF Locked
<1>10. EventsNumbered'
  BY <1>3, <1>6 DEF CInv, Telling, Counted, EventsNumbered
<1>11. Counted'
  <2>1. \A q \in Calls : ~ Unstored(q)'
    BY <1>4, <1>5 DEF Unstored
  <2>2. cache # 0 => cache = Len(events) + 2
    BY <1>1 DEF CInv, Telling, Counted
  <2>3. cache' # 0 => cache' = Len(events') + 1
    BY <2>2, <1>2, <1>3, <1>6
  <2>4. \A q \in Calls : call'[q].stored => call'[q].number = Len(events')
    BY <1>3, <1>4, <1>5, <1>6
  <2> QED
    BY <2>1, <2>3, <2>4, <1>10 DEF Counted
<1>12. Following'
  <2>1. Stored' = Stored \cup {number}
    <3>1. Stored = 1..Len(events) /\ Stored' = 1..Len(events')
      BY <1>10, <1>6, StoredNumbers DEF CInv, ConsoleTyped, Telling, Counted, Stored, EventsNumbered
    <3> QED
      BY <3>1, <1>3, <1>6
  <2>2. \A q \in Calls : call'[q].number = call[q].number
    BY <1>4, <1>5
  <2>3. StreamMissesOnlyGap'
    BY <2>1, <2>2, <1>2 DEF CInv, Telling, Following, StreamMissesOnlyGap
  <2>4. ASSUME NEW s \in Streams, NEW i \in DOMAIN reader[s].got
        PROVE  reader[s].got[i] <= Len(events')
    <3>1. reader[s].got[i] <= Len(events) /\ reader[s].got[i] \in Nat
      BY DEF CInv, Telling, Following, ConsoleTyped, Readers
    <3> QED
      BY <3>1, <1>3, <1>6
  <2> QED
    BY <2>3, <2>4, <1>2 DEF Following
<1> QED
  BY <1>7, <1>8, <1>9, <1>11, <1>12 DEF CInv, Telling

LEMMA PushEventKeeps ==
  ASSUME CInv, NEW p \in Calls, PushEvent(p)
  PROVE  CInv'
<1> DEFINE number == call[p].number
           Read(s) == CASE reader[s].at = "live"   -> [reader[s] EXCEPT !.got = Append(@, number)]
                        [] reader[s].at = "listed" -> [reader[s] EXCEPT !.missed = @ \cup {number}]
                        [] OTHER -> reader[s]
           told == [call[p] EXCEPT !.at = After[call[p].at], !.number = 0, !.stored = FALSE]
<1>1. /\ call[p].stored /\ lock' = NoCall
      /\ call' = [call EXCEPT ![p] = told]
      /\ reader' = [s \in Streams |-> Read(s)]
  BY DEF PushEvent
<1>2. UNCHANGED <<thread, events, cache, active, aborted, crashes, crossed>>
  BY DEF PushEvent, ghosts
<1>3. number = Len(events) /\ Len(events) \in Nat /\ lock = p /\ number # 0 /\ call[p].at \in Tellings
  BY <1>1, StoredNumbers DEF CInv, ConsoleTyped, Telling, Counted, Locked
<1>4. \A q \in Calls \ {p} : call[q].number = 0 /\ ~ call[q].stored
  BY <1>3 DEF CInv, Telling, Locked
<1>5. After[call[p].at] \in PostSteps \cup InterruptSteps
  BY <1>3, TellingSteps DEF Tellings, PostSteps, InterruptSteps
<1>6. /\ call' \in [Calls -> CallRecords]
      /\ call'[p].at = After[call[p].at] /\ call'[p].outcome = call[p].outcome
      /\ call'[p].number = 0 /\ ~ call'[p].stored
      /\ \A q \in Calls \ {p} : call'[q] = call[q]
  <2>1. call[p] \in CallRecords /\ call \in [Calls -> CallRecords]
    BY DEF CInv, ConsoleTyped
  <2>2. /\ told \in CallRecords
        /\ told.at = After[call[p].at] /\ told.outcome = call[p].outcome
        /\ told.number = 0 /\ ~ told.stored
    BY <2>1, <1>5 DEF CallRecords
  <2> HIDE DEF told
  <2> QED
    BY <2>1, <2>2, <1>1
<1>7. \A q \in Calls : call'[q].number = 0 /\ ~ call'[q].stored
  BY <1>4, <1>6
<1>8. ASSUME NEW s \in Streams
      PROVE  /\ reader'[s] \in Readers
             /\ reader'[s].at = reader[s].at /\ reader'[s].from = reader[s].from
             /\ reader[s].at = "live" => /\ reader'[s].got = Append(reader[s].got, number)
                                         /\ reader'[s].missed = reader[s].missed
             /\ reader[s].at # "live" => reader'[s].got = reader[s].got
             /\ reader[s].at = "listed" => reader'[s].missed = reader[s].missed \cup {number}
  <2>1. reader[s] \in Readers /\ reader'[s] = Read(s) /\ number \in Nat
    BY <1>1, <1>3 DEF CInv, ConsoleTyped
  <2>2. CASE reader[s].at = "live"
    <3>1. reader'[s] = [reader[s] EXCEPT !.got = Append(@, number)]
      BY <2>1, <2>2
    <3>2. Append(reader[s].got, number) \in Seq(Nat)
      BY <2>1 DEF Readers
    <3> QED
      BY <3>1, <3>2, <2>1, <2>2 DEF Readers
  <2>3. CASE reader[s].at = "listed"
    <3>1. reader'[s] = [reader[s] EXCEPT !.missed = @ \cup {number}]
      BY <2>1, <2>3
    <3> QED
      BY <3>1, <2>1, <2>3 DEF Readers
  <2>4. CASE reader[s].at = "off"
    <3>1. reader'[s] = reader[s]
      BY <2>1, <2>4
    <3> QED
      BY <3>1, <2>1, <2>4
  <2> QED
    BY <2>1, <2>2, <2>3, <2>4 DEF Readers
<1>9. ConsoleTyped'
  <2>1. reader' \in [Streams -> Readers]
    BY <1>1, <1>8
  <2> QED
    BY <2>1, <1>1, <1>2, <1>6 DEF CInv, ConsoleTyped
<1>10. Locked'
  BY <1>7 DEF Locked
<1>11. Counted'
  <2>1. \A q \in Calls : ~ Unstored(q)' /\ ~ Unstored(q)
    BY <1>1, <1>4, <1>7 DEF Unstored
  <2> QED
    BY <2>1, <1>2, <1>7 DEF CInv, Telling, Counted, EventsNumbered
<1>12. Following'
  <2>1. ASSUME NEW s \in Streams, reader'[s].at # "off"
        PROVE  /\ \A i, j \in DOMAIN reader'[s].got : i < j => reader'[s].got[i] <= reader'[s].got[j]
               /\ \A n \in Stored : n > reader'[s].from =>
                    n \in reader'[s].missed \/ \E i \in DOMAIN reader'[s].got : reader'[s].got[i] = n
    <3> DEFINE got == reader[s].got
    <3>1. got \in Seq(Nat) /\ DOMAIN got = 1..Len(got) /\ Len(got) \in Nat
      BY DEF CInv, ConsoleTyped, Readers
    <3>2. /\ \A i, j \in DOMAIN got : i < j => got[i] <= got[j]
          /\ \A i \in DOMAIN got : got[i] <= number
          /\ \A n \in Stored : n > reader[s].from =>
               n \in reader[s].missed \/ n = number \/ \E i \in DOMAIN got : got[i] = n
      <4>1. reader[s].at # "off"
        BY <2>1, <1>8
      <4>2. ASSUME NEW n \in Stored, NEW q \in Calls, call[q].number = n
            PROVE  n = number
        <5>1. n # 0
          BY StoredNumbers DEF CInv, ConsoleTyped, Telling, Counted
        <5> QED
          BY <5>1, <4>2, <1>4
      <4> QED
        BY <4>1, <4>2, <1>3 DEF CInv, Telling, Following, StreamMissesOnlyGap
    <3>3. CASE reader[s].at = "live"
      <4> DEFINE new == Append(got, number)
      <4>1. reader'[s].got = new /\ reader'[s].missed = reader[s].missed /\ reader'[s].from = reader[s].from
        BY <3>3, <1>8
      <4>2. /\ DOMAIN new = 1..(Len(got) + 1) /\ new[Len(got) + 1] = number
            /\ \A i \in 1..Len(got) : new[i] = got[i]
        BY <3>1, <1>3
      <4> HIDE DEF new, got
      <4>3. ASSUME NEW i \in DOMAIN new, NEW j \in DOMAIN new, i < j
            PROVE  new[i] <= new[j]
        <5>1. CASE j = Len(got) + 1
          BY <5>1, <4>2, <4>3, <3>1, <3>2
        <5>2. CASE j # Len(got) + 1
          <6>1. j \in 1..Len(got) /\ i \in 1..Len(got)
            BY <5>2, <4>2, <4>3, <3>1
          <6> QED
            BY <6>1, <4>2, <4>3, <3>1, <3>2
        <5> QED
          BY <5>1, <5>2
      <4>4. ASSUME NEW n \in Stored, n > reader[s].from
            PROVE  n \in reader[s].missed \/ \E i \in DOMAIN new : new[i] = n
        <5>1. CASE n = number
          BY <5>1, <4>2, <3>1
        <5>2. ASSUME NEW i \in DOMAIN got, got[i] = n
              PROVE  \E k \in DOMAIN new : new[k] = n
          BY <5>2, <4>2, <3>1
        <5> QED
          BY <5>1, <5>2, <4>4, <3>2
      <4> QED
        BY <4>1, <4>3, <4>4
    <3>4. CASE reader[s].at = "listed"
      BY <3>2, <3>4, <1>8
    <3> QED
      BY <3>3, <3>4, <2>1, <1>8 DEF CInv, ConsoleTyped, Readers
  <2>2. ASSUME NEW s \in Streams, NEW i \in DOMAIN reader'[s].got
        PROVE  reader'[s].got[i] <= Len(events)
    <3> DEFINE got == reader[s].got
    <3>1. got \in Seq(Nat) /\ DOMAIN got = 1..Len(got) /\ Len(got) \in Nat
      BY DEF CInv, ConsoleTyped, Readers
    <3>2. \A k \in DOMAIN got : got[k] <= Len(events)
      BY DEF CInv, Telling, Following
    <3>3. CASE reader[s].at = "live"
      <4>1. reader'[s].got = Append(got, number)
        BY <3>3, <1>8
      <4> QED
        BY <4>1, <3>1, <3>2, <2>2, <1>3
    <3>4. CASE reader[s].at # "live"
      BY <3>2, <3>4, <2>2, <1>8
    <3> QED
      BY <3>3, <3>4
  <2>3. Stored' = Stored
    BY <1>2 DEF Stored
  <2> QED
    BY <2>1, <2>2, <2>3, <1>2 DEF Following, StreamMissesOnlyGap
<1>13. Posting'
  <2>1. p \in Posts => call[p].at \in PostSteps
    BY DEF CInv, Posting, Roles
  <2>2. p \in Interrupts => call[p].at = "stopped"
    BY <1>3 DEF CInv, Posting, Roles, InterruptSteps, Tellings
  <2>3. \A q \in Posts \cup Interrupts : q \in Calls
    BY DEF Calls
  <2>4. Roles'
    <3>1. \A i \in Interrupts : call'[i].at \in InterruptSteps
      BY <2>2, <2>3, <1>6, TellingSteps DEF CInv, Posting, Roles, InterruptSteps
    <3>2. p \in Posts => /\ call'[p].at \in PostSteps
                         /\ call'[p].at \in {"replied", "closing"} => call'[p].outcome \in Outcomes
      BY <2>1, <1>3, <1>6, TellingSteps DEF CInv, Posting, Roles, Tellings, PostSteps
    <3> QED
      BY <3>1, <3>2, <2>3, <1>6 DEF CInv, Posting, Roles
  <2>5. RunningTold'
    <3>1. p \in Posts /\ call[p].at \in Underway => call'[p].at \in Underway
      BY <1>3, <1>6, TellingSteps DEF Tellings, Underway
    <3> QED
      BY <3>1, <2>3, <1>2, <1>6 DEF CInv, Posting, RunningTold
  <2>6. Reached'
    <3>1. p \in Posts => (InRun(p)' <=> InRun(p))
      BY <2>1, <1>3, <1>6, TellingSteps DEF Tellings, PostSteps, InRun
    <3>2. \A q \in Posts : InRun(q)' <=> InRun(q)
      BY <3>1, <2>3, <1>6 DEF InRun
    <3> QED
      BY <3>2, <1>2 DEF CInv, Posting, Reached
  <2> QED
    BY <2>4, <2>5, <2>6 DEF Posting
<1> QED
  BY <1>9, <1>10, <1>11, <1>12, <1>13 DEF CInv, Telling

-----------------------------------------------------------------------------
(***************************************************************************)
(* The steps that tell nothing                                             *)
(***************************************************************************)
\* A call that tells nothing has no number, so the events do not mind its step.
LEMMA TellingKept ==
  ASSUME CInv, NEW p \in Calls, NEW rec \in CallRecords, call' = [call EXCEPT ![p] = rec],
         call[p].at \notin Tellings, rec.number = 0, ~ rec.stored, UNCHANGED <<events, cache, lock, reader>>
  PROVE  /\ Telling'
         /\ call' \in [Calls -> CallRecords] /\ call'[p] = rec
         /\ \A q \in Calls \ {p} : call'[q] = call[q]
<1>1. /\ call' \in [Calls -> CallRecords] /\ call'[p] = rec
      /\ \A q \in Calls \ {p} : call'[q] = call[q]
  BY DEF CInv, ConsoleTyped
<1>2. call[p].number = 0 /\ ~ call[p].stored
  BY DEF CInv, Telling, Locked
<1>3. \A q \in Calls : call'[q].number = call[q].number /\ call'[q].stored = call[q].stored
  <2>1. call[p].stored \in BOOLEAN /\ rec.stored \in BOOLEAN
    BY DEF CInv, ConsoleTyped, CallRecords
  <2> QED
    BY <2>1, <1>1, <1>2
<1>4. Locked'
  BY <1>1, <1>3 DEF CInv, Telling, Locked
<1>5. Counted'
  <2>1. \A q \in Calls : Unstored(q)' <=> Unstored(q)
    BY <1>3 DEF Unstored
  <2> QED
    BY <2>1, <1>3 DEF CInv, Telling, Counted, EventsNumbered
<1>6. Following'
  BY <1>3 DEF CInv, Telling, Following, StreamMissesOnlyGap, Stored
<1> QED
  BY <1>1, <1>4, <1>5, <1>6 DEF Telling

\* A post goes on: what has to be shown of its step is what the threads says and
\* whom an interruption reaches.
LEMMA PostGoes ==
  ASSUME CInv, NEW p \in Posts, NEW rec \in CallRecords, call' = [call EXCEPT ![p] = rec],
         call[p].at \notin Tellings, rec.number = 0, ~ rec.stored, UNCHANGED <<events, cache, lock, reader, crashes>>,
         rec.at \in PostSteps, rec.at \in {"replied", "closing"} => rec.outcome \in Outcomes,
         thread' \in Threads, active' \in Posts \cup {NoCall}, aborted' \in SUBSET Posts, crossed' \in SUBSET Posts,
         \/ rec.at \in Underway
         \/ thread'.status # "running"
         \/ thread' = thread /\ call[p].at \notin Underway,
         Reached'
  PROVE  CInv'
<1>1. p \in Calls /\ p \notin Interrupts /\ \A q \in Posts \cup Interrupts : q \in Calls
  BY ConsoleAssumption DEF Calls
<1>2. /\ Telling'
      /\ call' \in [Calls -> CallRecords] /\ call'[p] = rec
      /\ \A q \in Calls \ {p} : call'[q] = call[q]
  BY <1>1, TellingKept
<1>3. ConsoleTyped'
  BY <1>2 DEF CInv, ConsoleTyped
<1>4. Roles'
  BY <1>1, <1>2 DEF CInv, Posting, Roles
<1>5. RunningTold'
  BY <1>1, <1>2 DEF CInv, Posting, RunningTold
<1> QED
  BY <1>2, <1>3, <1>4, <1>5 DEF CInv, Posting

\* Whom an interruption reaches does not change when no run begins or ends.
LEMMA ReachedKept ==
  ASSUME Reached, NEW p \in Calls, \A q \in Posts \ {p} : call'[q] = call[q],
         p \in Posts => (InRun(p)' <=> InRun(p)), UNCHANGED <<active, crossed>>
  PROVE  Reached'
<1>1. \A q \in Posts : InRun(q)' <=> InRun(q)
  BY DEF InRun
<1> QED
  BY <1>1 DEF Reached

\* A post goes on, and neither begins nor leaves its run.
LEMMA PostStays ==
  ASSUME CInv, NEW p \in Posts, NEW rec \in CallRecords, call' = [call EXCEPT ![p] = rec],
         call[p].at \notin Tellings, rec.number = 0, ~ rec.stored,
         rec.at \in PostSteps, rec.at \in {"replied", "closing"} => rec.outcome \in Outcomes,
         UNCHANGED <<events, cache, lock, reader, crashes, active, aborted, crossed>>,
         thread' \in Threads,
         \/ rec.at \in Underway
         \/ thread'.status # "running"
         \/ thread' = thread /\ call[p].at \notin Underway,
         InRun(p) <=> rec.at \in {"starting", "begun", "running", "replied", "closing", "closed", "leaving"}
  PROVE  CInv'
<1>1. p \in Calls /\ call \in [Calls -> CallRecords]
  BY DEF CInv, ConsoleTyped, Calls
<1>2. call'[p] = rec /\ \A q \in Posts \ {p} : call'[q] = call[q]
  BY <1>1 DEF Calls
<1>3. Reached'
  BY <1>1, <1>2, ReachedKept DEF CInv, Posting, InRun
<1>4. active \in Posts \cup {NoCall} /\ aborted \in SUBSET Posts /\ crossed \in SUBSET Posts
  BY DEF CInv, ConsoleTyped
<1> QED
  BY <1>3, <1>4, PostGoes

\* The steps of postMessage().
LEMMA PostStepKeeps ==
  ASSUME CInv, NEW p \in Posts,
         \/ Ensure(p) \/ Create(p) \/ Select(p) \/ Title(p) \/ Start(p) \/ Finish(p)
         \/ \E outcome \in Outcomes : RunnerSettles(p, outcome)
  PROVE  CInv'
<1>1. /\ p \in Calls /\ call[p] \in CallRecords /\ call \in [Calls -> CallRecords]
      /\ thread \in Threads /\ call[p].copy \in Threads
  BY DEF CInv, ConsoleTyped, CallRecords, Calls
<1>2. call[p].at \notin Tellings => call[p].number = 0 /\ ~ call[p].stored
  BY <1>1 DEF CInv, Telling, Locked
<1>4. NoThread \in Threads
  BY DEF NoThread, Threads, Statuses
<1>5. \A step \in PostSteps : /\ Fresh(step) \in CallRecords /\ Fresh(step).at = step
                              /\ Fresh(step).number = 0 /\ ~ Fresh(step).stored
  BY <1>4 DEF Fresh, CallRecords
<1>11. CASE Ensure(p)
  <2>1. PICK step \in {"creating", "selecting", "titling"} :
          call' = [call EXCEPT ![p] = [call[p] EXCEPT !.at = step, !.copy = thread]]
    BY <1>11 DEF Ensure
  <2> DEFINE rec == [call[p] EXCEPT !.at = step, !.copy = thread]
  <2>2. call[p].at = "start" /\ UNCHANGED <<thread, events, cache, lock, active, aborted, reader, crashes, crossed>>
    BY <1>11 DEF Ensure, ghosts
  <2>3. rec \in CallRecords /\ rec.at = step /\ rec.number = call[p].number /\ rec.stored = call[p].stored
    BY <1>1 DEF CallRecords, PostSteps
  <2> HIDE DEF rec
  <2>4. call' = [call EXCEPT ![p] = rec] /\ call[p].at \notin Tellings /\ call[p].at \notin Underway
    BY <2>1, <2>2 DEF rec, Tellings, Underway
  <2> QED
    BY <1>1, <1>2, PostStays, <2>1, <2>2, <2>3, <2>4 DEF PostSteps, InRun
<1>12. CASE Create(p)
  <2> DEFINE rec == [call[p] EXCEPT !.at = "ensured", !.copy = thread']
  <2>1. /\ call[p].at = "creating" /\ thread' = [status |-> "idle", titled |-> FALSE] /\ call' = [call EXCEPT ![p] = rec]
        /\ UNCHANGED <<events, cache, lock, active, aborted, reader, crashes, crossed>>
    BY <1>12 DEF Create, ghosts
  <2>2. thread' \in Threads /\ thread'.status # "running"
    BY <2>1 DEF Threads, Statuses
  <2>3. rec \in CallRecords /\ rec.at = "ensured" /\ rec.number = call[p].number /\ rec.stored = call[p].stored
    BY <1>1, <2>2 DEF CallRecords, PostSteps
  <2> HIDE DEF rec
  <2>4. call[p].at \notin Tellings
    BY <2>1 DEF Tellings
  <2> QED
    BY <1>1, <1>2, PostStays, <2>1, <2>2, <2>3, <2>4 DEF PostSteps, InRun
<1>13. CASE Select(p)
  <2> DEFINE rec == [call[p] EXCEPT !.at = "titling"]
  <2>1. /\ call[p].at = "selecting" /\ thread' = call[p].copy /\ call' = [call EXCEPT ![p] = rec]
        /\ UNCHANGED <<events, cache, lock, active, aborted, reader, crashes, crossed>>
    BY <1>13 DEF Select, Goes, ghosts
  <2>2. rec \in CallRecords /\ rec.at = "titling" /\ rec.number = call[p].number /\ rec.stored = call[p].stored
    BY <1>1 DEF CallRecords, PostSteps
  <2> HIDE DEF rec
  <2>3. call[p].at \notin Tellings /\ rec.at \in Underway
    BY <2>1, <2>2 DEF Tellings, Underway
  <2> QED
    BY <1>1, <1>2, PostStays, <2>1, <2>2, <2>3 DEF PostSteps, InRun
<1>14. CASE Title(p)
  <2>1. /\ call[p].at = "titling" /\ call' = [call EXCEPT ![p] = Fresh("posted")]
        /\ thread' = IF call[p].copy.titled THEN thread ELSE [call[p].copy EXCEPT !.titled = TRUE]
        /\ UNCHANGED <<events, cache, lock, active, aborted, reader, crashes, crossed>>
    BY <1>14 DEF Title, ghosts
  <2>2. thread' \in Threads
    BY <1>1, <2>1 DEF Threads
  <2>3. call[p].at \notin Tellings /\ "posted" \in Underway /\ "posted" \in PostSteps
    BY <2>1 DEF Tellings, Underway, PostSteps
  <2> QED
    BY <1>5, PostStays, <2>1, <2>2, <2>3 DEF InRun
<1>15. CASE Start(p)
  <2> DEFINE rec == [call[p] EXCEPT !.at = "begun"]
  <2>1. /\ call[p].at = "starting" /\ thread' = [status |-> "running", titled |-> TRUE] /\ call' = [call EXCEPT ![p] = rec]
        /\ UNCHANGED <<events, cache, lock, active, aborted, reader, crashes, crossed>>
    BY <1>15 DEF Start, Saved, Goes, ghosts
  <2>2. rec \in CallRecords /\ rec.at = "begun" /\ rec.number = call[p].number /\ rec.stored = call[p].stored
    BY <1>1 DEF CallRecords, PostSteps
  <2> HIDE DEF rec
  <2>3. call[p].at \notin Tellings /\ rec.at \in Underway /\ thread' \in Threads
    BY <2>1, <2>2 DEF Tellings, Underway, Threads, Statuses
  <2> QED
    BY <1>1, <1>2, PostStays, <2>1, <2>2, <2>3 DEF PostSteps, InRun
<1>16. CASE Finish(p)
  <2>1. PICK end \in Ending(p) : thread' = [status |-> end, titled |-> TRUE]
    BY <1>16 DEF Finish, Saved
  <2>2. /\ call[p].at = "closing" /\ call' = [call EXCEPT ![p] = Fresh("closed")]
        /\ UNCHANGED <<events, cache, lock, active, aborted, reader, crashes, crossed>>
    BY <1>16 DEF Finish, ghosts
  <2>3. end \in {"completed", "failed", "interrupted"}
    <3>1. call[p].outcome \in Outcomes
      BY <2>2 DEF CInv, Posting, Roles
    <3> QED
      BY <3>1, <2>1 DEF Ending, Outcomes
  <2>4. thread' \in Threads /\ thread'.status # "running" /\ call[p].at \notin Tellings /\ "closed" \in PostSteps
    BY <2>1, <2>2, <2>3 DEF Threads, Statuses, Tellings, PostSteps
  <2> QED
    BY <1>5, PostStays, <2>2, <2>4 DEF InRun
<1>17. ASSUME NEW outcome \in Outcomes, RunnerSettles(p, outcome)
      PROVE  CInv'
  <2> DEFINE rec == [call[p] EXCEPT !.at = "replied", !.outcome = outcome]
  <2>1. /\ call[p].at = "running" /\ call' = [call EXCEPT ![p] = rec]
        /\ UNCHANGED <<thread, events, cache, lock, active, aborted, reader, crashes, crossed>>
    BY <1>17 DEF RunnerSettles, ghosts
  <2>2. /\ rec \in CallRecords /\ rec.at = "replied" /\ rec.outcome \in Outcomes
        /\ rec.number = call[p].number /\ rec.stored = call[p].stored
    BY <1>1 DEF CallRecords, PostSteps
  <2> HIDE DEF rec
  <2>3. call[p].at \notin Tellings /\ rec.at \in Underway
    BY <2>1, <2>2 DEF Tellings, Underway
  <2> QED
    BY <1>1, <1>2, PostStays, <2>1, <2>2, <2>3 DEF PostSteps, InRun
<1> QED
  BY <1>11, <1>12, <1>13, <1>14, <1>15, <1>16, <1>17

\* A run begins: runs that are under way cross it, and it is the one that an
\* interruption reaches.
LEMMA RegisterKeeps ==
  ASSUME CInv, NEW p \in Posts, Register(p)
  PROVE  CInv'
<1> DEFINE rec == [call[p] EXCEPT !.at = "starting"]
           others == {q \in Posts : InRun(q)}
<1>1. /\ call[p].at = "registering" /\ call' = [call EXCEPT ![p] = rec] /\ active' = p
      /\ crossed' = IF others = {} THEN crossed ELSE crossed \cup others \cup {p}
      /\ UNCHANGED <<thread, events, cache, lock, aborted, reader, crashes>>
  BY DEF Register, Goes
<1>2. /\ p \in Calls /\ call[p] \in CallRecords /\ call \in [Calls -> CallRecords]
      /\ thread \in Threads /\ aborted \in SUBSET Posts /\ crossed \in SUBSET Posts
  BY DEF CInv, ConsoleTyped, Calls
<1>3. call[p].at \notin Tellings /\ ~ InRun(p)
  BY <1>1 DEF Tellings, InRun
<1>4. call[p].number = 0 /\ ~ call[p].stored
  BY <1>2, <1>3 DEF CInv, Telling, Locked
<1>5. rec \in CallRecords /\ rec.at = "starting" /\ rec.number = 0 /\ ~ rec.stored
  BY <1>2, <1>4 DEF CallRecords, PostSteps
<1> HIDE DEF rec
<1>6. call'[p] = rec /\ \A q \in Posts \ {p} : call'[q] = call[q]
  BY <1>1, <1>2 DEF Calls
<1>7. /\ InRun(p)'
      /\ \A q \in Posts \ {p} : InRun(q)' <=> InRun(q)
  BY <1>5, <1>6 DEF InRun
<1>8. Reached'
  BY <1>1, <1>3, <1>7 DEF CInv, Posting, Reached
<1>9. "starting" \in Underway /\ "starting" \in PostSteps
  BY DEF Underway, PostSteps
<1> QED
  BY <1>1, <1>2, <1>3, <1>5, <1>8, <1>9, PostGoes

\* A run ends: when another one is under way, they had crossed.
LEMMA LeaveKeeps ==
  ASSUME CInv, NEW p \in Posts, Leave(p)
  PROVE  CInv'
<1>1. /\ call[p].at = "leaving" /\ call' = [call EXCEPT ![p] = Fresh("done")] /\ active' = NoCall
      /\ crossed' = crossed \ {p} /\ aborted' = aborted \ {p}
      /\ UNCHANGED <<thread, events, cache, lock, reader, crashes>>
  BY DEF Leave
<1>2. /\ p \in Calls /\ call \in [Calls -> CallRecords]
      /\ thread \in Threads /\ aborted \in SUBSET Posts /\ crossed \in SUBSET Posts
  BY DEF CInv, ConsoleTyped, Calls
<1>3. call[p].at \notin Tellings /\ call[p].at \notin Underway /\ InRun(p)
  BY <1>1 DEF Tellings, Underway, InRun
<1>4. /\ Fresh("done") \in CallRecords /\ Fresh("done").at = "done"
      /\ Fresh("done").number = 0 /\ ~ Fresh("done").stored
  BY DEF Fresh, NoThread, Threads, Statuses, CallRecords, PostSteps
<1>5. call'[p] = Fresh("done") /\ \A q \in Posts \ {p} : call'[q] = call[q]
  BY <1>1, <1>2 DEF Calls
<1>6. /\ ~ InRun(p)'
      /\ \A q \in Posts \ {p} : InRun(q)' <=> InRun(q)
  BY <1>4, <1>5 DEF InRun
<1>7. Reached'
  BY <1>1, <1>3, <1>6 DEF CInv, Posting, Reached
<1>8. "done" \in PostSteps
  BY DEF PostSteps
<1> QED
  BY <1>1, <1>2, <1>3, <1>4, <1>7, <1>8, PostGoes

\* The steps of interruptThread().
LEMMA InterruptKeeps ==
  ASSUME CInv, NEW i \in Interrupts, Interrupt(i) \/ MarkInterrupted(i)
  PROVE  CInv'
<1>1. /\ i \in Calls /\ i \notin Posts /\ call[i] \in CallRecords /\ call \in [Calls -> CallRecords]
      /\ thread \in Threads /\ call[i].copy \in Threads
  BY ConsoleAssumption DEF CInv, ConsoleTyped, CallRecords, Calls
<1>2. \A step \in InterruptSteps :
        /\ Fresh(step) \in CallRecords /\ Fresh(step).at = step
        /\ Fresh(step).number = 0 /\ ~ Fresh(step).stored
        /\ [Fresh(step) EXCEPT !.copy = thread] \in CallRecords
        /\ [Fresh(step) EXCEPT !.copy = thread].at = step
        /\ [Fresh(step) EXCEPT !.copy = thread].number = 0
        /\ ~ [Fresh(step) EXCEPT !.copy = thread].stored
  BY <1>1 DEF Fresh, NoThread, Threads, Statuses, CallRecords
<1>3. PICK rec \in CallRecords :
        /\ call' = [call EXCEPT ![i] = rec] /\ call[i].at \notin Tellings
        /\ rec.number = 0 /\ ~ rec.stored /\ rec.at \in InterruptSteps
  <2>1. CASE Interrupt(i)
    <3>1. call' = [call EXCEPT ![i] = Stopping] /\ call[i].at \notin Tellings
      BY <2>1 DEF Interrupt, Tellings
    <3>2. Stopping \in CallRecords /\ Stopping.number = 0 /\ ~ Stopping.stored /\ Stopping.at \in InterruptSteps
      BY <1>2 DEF Stopping, InterruptSteps
    <3> QED
      BY <3>1, <3>2
  <2>2. CASE MarkInterrupted(i)
    <3>1. call' = [call EXCEPT ![i] = Fresh("stopped")] /\ call[i].at \notin Tellings
      BY <2>2 DEF MarkInterrupted, Tellings
    <3>2. "stopped" \in InterruptSteps
      BY DEF InterruptSteps
    <3> QED
      BY <3>1, <3>2, <1>2
  <2> QED
    BY <2>1, <2>2
<1>4. /\ UNCHANGED <<events, cache, lock, reader, crashes, active, crossed>>
      /\ aborted' \in SUBSET Posts /\ thread' \in Threads
      /\ thread' = thread \/ thread'.status # "running"
  <2>1. CASE Interrupt(i)
    BY <2>1, <1>1 DEF Interrupt, ghosts, CInv, ConsoleTyped
  <2>2. CASE MarkInterrupted(i)
    <3>1. thread' = [call[i].copy EXCEPT !.status = "interrupted"]
      BY <2>2 DEF MarkInterrupted
    <3>2. thread' \in Threads /\ thread'.status = "interrupted"
      BY <3>1, <1>1 DEF Threads, Statuses
    <3> QED
      BY <3>2, <2>2 DEF MarkInterrupted, ghosts, CInv, ConsoleTyped
  <2> QED
    BY <2>1, <2>2
<1>5. /\ Telling'
      /\ call' \in [Calls -> CallRecords] /\ call'[i] = rec
      /\ \A q \in Calls \ {i} : call'[q] = call[q]
  BY <1>1, <1>3, <1>4, TellingKept
<1>6. \A q \in Posts : call'[q] = call[q]
  BY <1>1, <1>5 DEF Calls
<1>7. ConsoleTyped'
  BY <1>4, <1>5 DEF CInv, ConsoleTyped
<1>8. Roles'
  BY <1>3, <1>5, <1>6 DEF CInv, Posting, Roles, Calls
<1>9. RunningTold'
  BY <1>4, <1>6 DEF CInv, Posting, RunningTold
<1>10. Reached'
  BY <1>1, <1>4, <1>6, ReachedKept DEF CInv, Posting
<1> QED
  BY <1>5, <1>7, <1>8, <1>9, <1>10 DEF CInv, Posting

-----------------------------------------------------------------------------
(***************************************************************************)
(* Streams and restarts                                                    *)
(***************************************************************************)
\* A step of a stream concerns nobody else.
LEMMA OnlyReader ==
  ASSUME CInv, UNCHANGED <<thread, events, cache, lock, active, aborted, call, crashes, crossed>>,
         reader' \in [Streams -> Readers], Following'
  PROVE  CInv'
BY DEF CInv, ConsoleTyped, Posting, Roles, RunningTold, Reached, InRun,
       Telling, Locked, Counted, Unstored, EventsNumbered

LEMMA ListStoredKeeps ==
  ASSUME CInv, NEW s \in Streams, NEW from \in 0..1, ListStored(s, from)
  PROVE  CInv'
<1>1. PICK sent \in StoredAfter(from) :
        reader' = [reader EXCEPT ![s] = [at |-> "listed", from |-> from, got |-> sent, missed |-> {}]]
  BY DEF ListStored
<1>2. PICK n \in 0..Len(events) :
        /\ \A i \in DOMAIN events : events[i] > from <=> i > n
        /\ sent = SubSeq(events, n + 1, Len(events))
  BY DEF StoredAfter
<1>3. UNCHANGED <<thread, events, cache, lock, active, aborted, call, crashes, crossed>>
  BY DEF ListStored, ghosts
<1>4. /\ events \in Seq(Nat) /\ Len(events) \in Nat /\ DOMAIN events = 1..Len(events) /\ Stored = 1..Len(events)
      /\ n \in Nat /\ \A i \in DOMAIN events : events[i] = i
  BY StoredNumbers DEF CInv, ConsoleTyped, Telling, Counted, EventsNumbered
<1>5. /\ sent \in Seq(Nat) /\ DOMAIN sent = 1..(Len(events) - n)
      /\ \A i \in 1..(Len(events) - n) : sent[i] = events[n + i]
  BY <1>2, <1>4
<1>6. \A i \in DOMAIN sent : sent[i] = n + i /\ sent[i] \in 1..Len(events)
  <2> SUFFICES ASSUME NEW i \in DOMAIN sent
               PROVE  sent[i] = n + i /\ sent[i] \in 1..Len(events)
    OBVIOUS
  <2>1. n + i \in 1..Len(events) /\ sent[i] = events[n + i]
    BY <1>4, <1>5
  <2> QED
    BY <2>1, <1>4
<1>7. ASSUME NEW m \in Stored, m > from
      PROVE  \E i \in DOMAIN sent : sent[i] = m
  <2>1. m > n /\ m \in 1..Len(events)
    BY <1>2, <1>4, <1>7
  <2>2. m - n \in DOMAIN sent /\ n + (m - n) = m
    BY <2>1, <1>4, <1>5
  <2> QED
    BY <2>2, <1>6
<1> DEFINE rec == [at |-> "listed", from |-> from, got |-> sent, missed |-> {}]
<1>8. rec \in Readers
  BY <1>5 DEF Readers
<1>9. /\ reader' \in [Streams -> Readers] /\ reader'[s] = rec
      /\ \A t \in Streams \ {s} : reader'[t] = reader[t]
  BY <1>1, <1>8 DEF CInv, ConsoleTyped
<1>10. Following'
  <2>1. Stored' = Stored
    BY <1>3 DEF Stored
  <2>2. \A i, j \in DOMAIN sent : i < j => sent[i] <= sent[j]
    BY <1>4, <1>5, <1>6
  <2>3. \A i \in DOMAIN sent : sent[i] <= Len(events)
    BY <1>4, <1>6
  <2> QED
    BY <2>1, <2>2, <2>3, <1>3, <1>7, <1>9 DEF CInv, Telling, Following, StreamMissesOnlyGap
<1> QED
  BY <1>3, <1>9, <1>10, OnlyReader

LEMMA SubscribeKeeps ==
  ASSUME CInv, NEW s \in Streams, Subscribe(s)
  PROVE  CInv'
<1> DEFINE rec == [reader[s] EXCEPT !.at = "live"]
<1>1. reader[s].at = "listed" /\ reader' = [reader EXCEPT ![s] = rec]
  BY DEF Subscribe
<1>2. UNCHANGED <<thread, events, cache, lock, active, aborted, call, crashes, crossed>>
  BY DEF Subscribe, ghosts
<1>3. /\ rec \in Readers /\ rec.at = "live" /\ rec.from = reader[s].from
      /\ rec.got = reader[s].got /\ rec.missed = reader[s].missed
  BY DEF CInv, ConsoleTyped, Readers
<1> HIDE DEF rec
<1>4. /\ reader' \in [Streams -> Readers] /\ reader'[s] = rec
      /\ \A t \in Streams \ {s} : reader'[t] = reader[t]
  BY <1>1, <1>3 DEF CInv, ConsoleTyped
<1>5. \A t \in Streams :
        /\ reader'[t].from = reader[t].from /\ reader'[t].got = reader[t].got
        /\ reader'[t].missed = reader[t].missed
        /\ reader'[t].at # "off" => reader[t].at # "off"
  BY <1>1, <1>3, <1>4
<1>6. Following'
  <2>1. Stored' = Stored
    BY <1>2 DEF Stored
  <2>2. \A t \in Streams : \A j \in DOMAIN reader'[t].got : reader'[t].got[j] <= Len(events')
    BY <1>2, <1>5 DEF CInv, Telling, Following
  <2>3. ASSUME NEW t \in Streams, reader'[t].at # "off"
        PROVE  /\ \A i, j \in DOMAIN reader'[t].got : i < j => reader'[t].got[i] <= reader'[t].got[j]
               /\ \A n \in Stored' : n > reader'[t].from =>
                    \/ n \in reader'[t].missed
                    \/ \E i \in DOMAIN reader'[t].got : reader'[t].got[i] = n
                    \/ \E p \in Calls : call'[p].number = n
    <3>1. /\ reader'[t].from = reader[t].from /\ reader'[t].got = reader[t].got
          /\ reader'[t].missed = reader[t].missed /\ reader[t].at # "off"
      BY <1>5, <2>3
    <3>2. /\ \A i, j \in DOMAIN reader[t].got : i < j => reader[t].got[i] <= reader[t].got[j]
          /\ \A n \in Stored : n > reader[t].from =>
               \/ n \in reader[t].missed
               \/ \E i \in DOMAIN reader[t].got : reader[t].got[i] = n
               \/ \E p \in Calls : call[p].number = n
      BY <3>1 DEF CInv, Telling, Following, StreamMissesOnlyGap
    <3>3. call' = call
      BY <1>2
    <3> QED
      BY <3>1, <3>2, <3>3, <2>1
  <2> QED
    BY <2>2, <2>3 DEF Following, StreamMissesOnlyGap
<1> QED
  BY <1>2, <1>4, <1>6, OnlyReader

\* A restart forgets the calls, the lock and the cached number; the events stay.
LEMMA CrashKeeps ==
  ASSUME CInv, Crash
  PROVE  CInv'
<1> DEFINE Step(p) == IF call[p].at = "start" THEN "start" ELSE "done"
<1>1. /\ crashes' = crashes + 1 /\ cache' = 0 /\ lock' = NoCall /\ active' = NoCall
      /\ call' = [p \in Calls |-> Fresh(Step(p))]
      /\ reader' = [s \in Streams |-> NotRead]
      /\ aborted' = {} /\ crossed' = {} /\ UNCHANGED <<thread, events>>
  BY DEF Crash
<1>2. \A step \in {"start", "done"} : /\ Fresh(step) \in CallRecords /\ Fresh(step).at = step
                                      /\ Fresh(step).number = 0 /\ ~ Fresh(step).stored
  BY DEF Fresh, NoThread, Threads, Statuses, CallRecords, PostSteps
<1>3. \A p \in Calls : /\ call'[p] \in CallRecords /\ call'[p].at \in {"start", "done"}
                       /\ call'[p].number = 0 /\ ~ call'[p].stored
  BY <1>1, <1>2
<1>4. NotRead \in Readers /\ NotRead.at = "off" /\ NotRead.got = <<>> /\ DOMAIN <<>> = {}
  BY DEF NotRead, Readers
<1>5. ConsoleTyped'
  <2>1. call' \in [Calls -> CallRecords] /\ reader' \in [Streams -> Readers]
    BY <1>1, <1>3, <1>4
  <2>2. crashes' \in Nat
    BY <1>1 DEF CInv, ConsoleTyped
  <2> QED
    BY <2>1, <2>2, <1>1 DEF CInv, ConsoleTyped
<1>6. Posting'
  <2>1. crashes' # 0
    BY <1>1 DEF CInv, ConsoleTyped
  <2>2. \A p \in Posts : ~ InRun(p)'
    BY <1>3 DEF InRun, Calls
  <2>3. Roles'
    BY <1>3 DEF Roles, Calls, PostSteps, InterruptSteps
  <2> QED
    BY <2>1, <2>2, <2>3 DEF Posting, RunningTold, Reached
<1>7. Locked' /\ Counted'
  BY <1>1, <1>3 DEF CInv, Telling, Locked, Counted, Unstored, EventsNumbered
<1>8. Following'
  BY <1>1, <1>4 DEF Following, StreamMissesOnlyGap
<1> QED
  BY <1>5, <1>6, <1>7, <1>8 DEF CInv, Telling

-----------------------------------------------------------------------------
LEMMA ConsoleStarts == ConsoleInit => CInv
<1> SUFFICES ASSUME ConsoleInit
             PROVE  CInv
  OBVIOUS
<1>1. /\ Fresh("start") \in CallRecords /\ Fresh("start").at = "start"
      /\ Fresh("start").number = 0 /\ ~ Fresh("start").stored
  BY DEF Fresh, NoThread, Threads, Statuses, CallRecords, PostSteps
<1>2. \A p \in Calls : call[p] = Fresh("start")
  BY DEF ConsoleInit
<1>3. NotRead \in Readers /\ NotRead.at = "off" /\ NotRead.got = <<>> /\ DOMAIN <<>> = {}
  BY DEF NotRead, Readers
<1>4. \A s \in Streams : reader[s] = NotRead
  BY DEF ConsoleInit
<1>5. events = <<>> /\ DOMAIN events = {} /\ cache = 0 /\ lock = NoCall /\ thread = NoThread
  BY DEF ConsoleInit
<1>6. ConsoleTyped
  <2>1. call \in [Calls -> CallRecords] /\ reader \in [Streams -> Readers] /\ thread \in Threads
    BY <1>1, <1>3, <1>5 DEF ConsoleInit, NoThread, Threads, Statuses
  <2>2. events \in Seq(Nat)
    BY <1>5
  <2> QED
    BY <2>1, <2>2 DEF ConsoleInit, ConsoleTyped
<1>7. Posting
  <2>1. \A p \in Posts \cup Interrupts : call[p].at = "start"
    BY <1>1, <1>2 DEF Calls
  <2>2. \A p \in Posts : ~ InRun(p)
    BY <2>1 DEF InRun
  <2>3. Roles
    BY <2>1 DEF Roles, PostSteps, InterruptSteps
  <2>4. RunningTold
    BY <1>5 DEF RunningTold, NoThread
  <2> QED
    BY <2>2, <2>3, <2>4 DEF Posting, Reached
<1>8. Telling
  <2>1. Locked
    BY <1>1, <1>2 DEF Locked
  <2>2. Counted
    BY <1>1, <1>2, <1>5 DEF Counted, Unstored, EventsNumbered
  <2>3. Following
    BY <1>3, <1>4 DEF Following, StreamMissesOnlyGap
  <2> QED
    BY <2>1, <2>2, <2>3 DEF Telling
<1> QED
  BY <1>6, <1>7, <1>8 DEF CInv

LEMMA ConsoleStep == CInv /\ [ConsoleNext]_consoleVars => CInv'
<1> SUFFICES ASSUME CInv, [ConsoleNext]_consoleVars
             PROVE  CInv'
  OBVIOUS
<1>1. CASE Crash
  BY <1>1, CrashKeeps
<1>2. ASSUME NEW p \in Calls, TakeNumber(p) \/ StoreEvent(p) \/ PushEvent(p)
      PROVE  CInv'
  BY <1>2, TakeNumberKeeps, StoreEventKeeps, PushEventKeeps
<1>3. ASSUME NEW p \in Posts,
             \/ Ensure(p) \/ Create(p) \/ Select(p) \/ Title(p) \/ Start(p) \/ Finish(p)
             \/ \E outcome \in Outcomes : RunnerSettles(p, outcome)
      PROVE  CInv'
  BY <1>3, PostStepKeeps
<1>4. ASSUME NEW p \in Posts, Register(p)
      PROVE  CInv'
  BY <1>4, RegisterKeeps
<1>5. ASSUME NEW p \in Posts, Leave(p)
      PROVE  CInv'
  BY <1>5, LeaveKeeps
<1>6. ASSUME NEW i \in Interrupts, Interrupt(i) \/ MarkInterrupted(i)
      PROVE  CInv'
  BY <1>6, InterruptKeeps
<1>7. ASSUME NEW s \in Streams, NEW from \in 0..1, ListStored(s, from)
      PROVE  CInv'
  BY <1>7, ListStoredKeeps
<1>8. ASSUME NEW s \in Streams, Subscribe(s)
      PROVE  CInv'
  BY <1>8, SubscribeKeeps
<1>9. CASE UNCHANGED consoleVars
  BY <1>9 DEF consoleVars, CInv, ConsoleTyped, Posting, Roles, RunningTold, Reached, InRun, Telling, Locked,
              Counted, Unstored, EventsNumbered, Following, StreamMissesOnlyGap, Stored
<1> QED
  BY <1>1, <1>2, <1>3, <1>4, <1>5, <1>6, <1>7, <1>8, <1>9 DEF ConsoleNext

\* The events of a thread are numbered without gap or duplicate, a quiet thread
\* does not say that it runs, and a stream misses only what was pushed before it
\* subscribed: for any posts, interruptions, streams and restarts.
THEOREM ThreadAlwaysTold == ConsoleSpec => []ThreadTold
<1>1. CInv => ThreadTold
  <2> SUFFICES ASSUME CInv
               PROVE  ThreadTold
    OBVIOUS
  <2>1. QuietThreadSaysSo
    <3> SUFFICES ASSUME crashes = 0, \A p \in Calls : call[p].at \in {"start", "done"}, thread.status = "running"
                 PROVE  FALSE
      BY DEF QuietThreadSaysSo
    <3>1. PICK p \in Posts : call[p].at \in Underway
      BY DEF CInv, Posting, RunningTold
    <3> QED
      BY <3>1 DEF Underway, Calls
  <2> QED
    BY <2>1 DEF CInv, Telling, Counted, Following, ThreadTold
<1> QED
  BY <1>1, ConsoleStarts, ConsoleStep, PTL DEF ConsoleSpec

\* An interruption aborts every run that is under way and that no other one
\* crossed: for any posts and interruptions, at any of their steps.
THEOREM InterruptionAlwaysReaches == ConsoleSpec => InterruptionReaches
<1>1. CInv /\ [ConsoleNext]_consoleVars => [InterruptReaches]_consoleVars
  <2> SUFFICES ASSUME CInv, ConsoleNext, NEW i \in Interrupts, call[i].at = "start", call'[i].at # "start",
                      NEW p \in Posts, InRun(p)
               PROVE  p \in aborted' \cup crossed
    BY DEF InterruptReaches
  <2>1. i \in Calls /\ i \notin Posts /\ call \in [Calls -> CallRecords] /\ p # NoCall
    BY ConsoleAssumption DEF CInv, ConsoleTyped, Calls
  <2>2. ASSUME NEW q \in Calls, q # i, NEW rec, call' = [call EXCEPT ![q] = rec]
        PROVE  FALSE
    BY <2>1, <2>2
  <2>3. CASE Interrupt(i)
    <3>1. aborted' = aborted \cup ({active} \ {NoCall})
      BY <2>3 DEF Interrupt
    <3> QED
      BY <3>1, <2>1 DEF CInv, Posting, Reached
  <2>4. ~ Crash
    BY <2>1 DEF Crash, Fresh
  <2>5. ASSUME NEW q \in Calls, TakeNumber(q) \/ StoreEvent(q) \/ PushEvent(q)
        PROVE  FALSE
    <3>1. call[q].at \in Tellings
      BY <2>5, TellingSteps DEF TakeNumber, StoreEvent, PushEvent, Emitting, CInv, Telling, Locked
    <3>2. q # i
      BY <3>1 DEF Tellings
    <3> QED
      BY <2>2, <2>5, <3>2 DEF TakeNumber, StoreEvent, PushEvent
  <2>6. ASSUME NEW q \in Posts,
               \/ Ensure(q) \/ Create(q) \/ Select(q) \/ Title(q) \/ Start(q) \/ Finish(q) \/ Register(q) \/ Leave(q)
               \/ \E outcome \in Outcomes : RunnerSettles(q, outcome)
        PROVE  FALSE
    <3>1. q \in Calls /\ q # i
      BY <2>1 DEF Calls
    <3>2. ~ \E rec : call' = [call EXCEPT ![q] = rec]
      BY <2>2, <3>1
    <3>3. \A step : call' # [call EXCEPT ![q].at = step]
      BY <3>2
    <3>4. CASE Ensure(q)
      BY <3>2, <3>4 DEF Ensure
    <3>5. CASE Create(q)
      BY <3>2, <3>5 DEF Create
    <3>6. CASE Select(q) \/ Start(q) \/ Register(q)
      BY <3>3, <3>6 DEF Select, Start, Register, Goes
    <3>7. CASE Title(q) \/ Finish(q) \/ Leave(q)
      BY <3>2, <3>7 DEF Title, Finish, Leave
    <3>8. CASE \E outcome \in Outcomes : RunnerSettles(q, outcome)
      BY <3>2, <3>8 DEF RunnerSettles
    <3> QED
      BY <2>6, <3>4, <3>5, <3>6, <3>7, <3>8
  <2>7. ASSUME NEW j \in Interrupts, Interrupt(j) \/ MarkInterrupted(j)
        PROVE  Interrupt(i)
    <3>1. j \in Calls
      BY DEF Calls
    <3>2. j = i
      BY <2>2, <2>7, <3>1 DEF Interrupt, MarkInterrupted
    <3> QED
      BY <2>7, <3>2 DEF MarkInterrupted
  <2>8. ASSUME NEW s \in Streams, Subscribe(s) \/ \E from \in 0..1 : ListStored(s, from)
        PROVE  FALSE
    BY <2>8 DEF Subscribe, ListStored
  <2> QED
    BY <2>3, <2>4, <2>5, <2>6, <2>7, <2>8 DEF ConsoleNext
<1> QED
  BY <1>1, ConsoleStarts, ConsoleStep, PTL DEF ConsoleSpec, InterruptionReaches
=============================================================================
