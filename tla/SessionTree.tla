------------------------------ MODULE SessionTree ------------------------------
(***************************************************************************)
(* The session tree of packages/core/src/session/orchestrator.ts.          *)
(*                                                                         *)
(* SessionOrchestrator keeps a Map of session records.  Every public       *)
(* method is synchronous, so each is one action.  Time stamps, metadata,   *)
(* results and error texts are left out: no method reads them to decide    *)
(* anything.  The cancellation reason is kept, because a cascade hands it  *)
(* down the tree.                                                          *)
(***************************************************************************)
EXTENDS Naturals, Sequences

CONSTANTS
  Ids,            \* the session ids a caller or the idFactory may produce
  NoSession,      \* "no parent" (parentSessionId: undefined)
  CallerReasons,  \* the texts a caller may give to cancelSession
  NoReason        \* cancellationReason: undefined

ASSUME NoSessionAssumption == NoSession \notin Ids

Terminal == {"succeeded", "failed", "cancelled"}

\* buildCascadeReason: "Parent session <of> failed / was cancelled."
CascadeReason(how, s) == [why |-> how, of |-> s]
Reasons == {NoReason} \cup CallerReasons
             \cup [why : {"failed", "cancelled"}, of : Ids]

\* Texts are told apart by who wrote them.
ASSUME ReasonAssumption ==
  [why : {"failed", "cancelled"}, of : Ids] \cap (CallerReasons \cup {NoReason}) = {}

VARIABLES
  status,   \* status[s]; "absent" while s is not a key of the sessions map
  parent,   \* parentSessionId
  root,     \* rootSessionId
  kids,     \* childSessionIds, in creation order
  reason    \* cancellationReason

tree == <<status, parent, root, kids, reason>>

Known == {s \in Ids : status[s] # "absent"}
IsActive(s) == status[s] = "active"

KidSet(s) == {kids[s][i] : i \in DOMAIN kids[s]}

(***************************************************************************)
(* The recursive walks over childSessionIds.  Below(r, E) is what a walk   *)
(* from r along the edges E visits: the least set that holds the           *)
(* E-successors of r and of its own members.                               *)
(***************************************************************************)
Closed(C, r, E) == \A e \in E : e[1] \in C \cup {r} => e[2] \in C
Below(r, E) == {s \in Ids : \A C \in SUBSET Ids : Closed(C, r, E) => s \in C}

ChildEdges == {e \in Ids \X Ids : e[2] \in KidSet(e[1])}
ActiveEdges == {e \in ChildEdges : IsActive(e[2])}

\* findFirstActiveDescendant looks below terminal sessions too.
Descendants(r) == Below(r, ChildEdges)
HasActiveDescendant(r) == \E s \in Descendants(r) : IsActive(s)

\* Mutant: the walk without its recursion.
CascadeOneLevel(r) == {s \in KidSet(r) : IsActive(s)}

\* cancelActiveDescendants descends through active children only.
Cascade(r) == Below(r, ActiveEdges)

-----------------------------------------------------------------------------
Init ==
  /\ status = [s \in Ids |-> "absent"]
  /\ parent = [s \in Ids |-> NoSession]
  /\ root = [s \in Ids |-> NoSession]
  /\ kids = [s \in Ids |-> << >>]
  /\ reason = [s \in Ids |-> NoReason]

CreateRootSession(s) ==
  /\ status[s] = "absent"
  /\ status' = [status EXCEPT ![s] = "active"]
  /\ root' = [root EXCEPT ![s] = s]
  /\ UNCHANGED <<parent, kids, reason>>

CreateChildSession(p, s) ==
  /\ IsActive(p)
  /\ status[s] = "absent"
  /\ status' = [status EXCEPT ![s] = "active"]
  /\ parent' = [parent EXCEPT ![s] = p]
  /\ root' = [root EXCEPT ![s] = root[p]]
  /\ kids' = [kids EXCEPT ![p] = Append(@, s)]
  /\ UNCHANGED reason

\* Mutant: no look at the subtree.
CompleteUnguarded(s) ==
  /\ IsActive(s)
  /\ status' = [status EXCEPT ![s] = "succeeded"]
  /\ UNCHANGED <<parent, root, kids, reason>>

CompleteSession(s) ==
  /\ IsActive(s)
  /\ ~ HasActiveDescendant(s)
  /\ status' = [status EXCEPT ![s] = "succeeded"]
  /\ UNCHANGED <<parent, root, kids, reason>>

\* s ends with status st and reason own; what the cascade reaches is
\* cancelled, with reason handed.
EndWithCascade(s, st, own, handed) ==
  /\ IsActive(s)
  /\ LET reached == Cascade(s) IN
       /\ status' = [t \in Ids |-> IF t = s THEN st
                                   ELSE IF t \in reached THEN "cancelled"
                                   ELSE status[t]]
       /\ reason' = [t \in Ids |-> IF t = s THEN own
                                   ELSE IF t \in reached THEN handed
                                   ELSE reason[t]]
  /\ UNCHANGED <<parent, root, kids>>

FailSession(s) ==
  EndWithCascade(s, "failed", NoReason, CascadeReason("failed", s))

\* options.reason ?? buildCascadeReason(record, "cancelled")
CancelSession(s, why) ==
  EndWithCascade(s, "cancelled", why,
                 IF why = NoReason THEN CascadeReason("cancelled", s) ELSE why)

Next ==
  \E s \in Ids :
    \/ CreateRootSession(s)
    \/ \E p \in Ids : CreateChildSession(p, s)
    \/ CompleteSession(s)
    \/ FailSession(s)
    \/ \E why \in CallerReasons \cup {NoReason} : CancelSession(s, why)

Spec == Init /\ [][Next]_tree

-----------------------------------------------------------------------------
(***************************************************************************)
(* Properties                                                              *)
(***************************************************************************)

\* Every field of a session record holds a value of its declared type.
TypeOK ==
  /\ status \in [Ids -> {"absent", "active"} \cup Terminal]
  /\ parent \in [Ids -> Ids \cup {NoSession}]
  /\ root \in [Ids -> Ids \cup {NoSession}]
  /\ kids \in [Ids -> Seq(Ids)]
  /\ reason \in [Ids -> Reasons]

\* childSessionIds of p lists exactly the sessions whose parentSessionId is
\* p, and only sessions that exist; a child belongs to its parent's root.
LinksAgree ==
  /\ \A p, s \in Ids :
       /\ s \in KidSet(p) <=> parent[s] = p
       /\ parent[s] = p => status[p] # "absent" /\ status[s] # "absent"
  /\ \A s \in Known :
       root[s] = IF parent[s] = NoSession THEN s ELSE root[parent[s]]

\* No session runs on below one that has ended: creation is refused under a
\* terminal parent, success waits for the subtree, failure and cancellation
\* take the subtree along.
NoOrphanRuns ==
  \A s \in Ids :
    IsActive(s) /\ parent[s] # NoSession => IsActive(parent[s])

\* The sessions form one well linked forest, with nothing left running under what
\* has ended.
TreeSound == LinksAgree /\ NoOrphanRuns

\* A reason that names a parent session names a real proper ancestor, one
\* that did end in the way the text says, and only a cancelled session
\* carries it: reasons survive any number of later cascades untouched.
CascadeReasonIsTrue ==
  \A s, a \in Ids : \A how \in {"failed", "cancelled"} :
    reason[s] = CascadeReason(how, a) =>
      /\ status[s] = "cancelled"
      /\ s \in Descendants(a)
      /\ status[a] = how

\* A terminal session never changes again: not its status, not its reason,
\* and no child is ever added to it.
TerminalIsFinal ==
  [][\A s \in Ids : status[s] \in Terminal =>
       /\ status'[s] = status[s]
       /\ reason'[s] = reason[s]
       /\ kids'[s] = kids[s]]_tree

\* One call ends a session and the active part of its subtree, and nothing
\* else: whatever ends in a step is some session r together with ALL of its
\* active descendants, and those all end as "cancelled".
CascadeIsExact ==
  [][LET ended == {s \in Ids : IsActive(s) /\ ~ IsActive(s)'}
     IN ended # {} =>
          \E r \in ended :
            /\ ended = {r} \cup {s \in Descendants(r) : IsActive(s)}
            /\ \A s \in ended \ {r} : status'[s] = "cancelled"]_tree

\* What a call ends is one session with the active part of its subtree, and what
\* has ended stays as it is.
EndsAreExact == TerminalIsFinal /\ CascadeIsExact
=============================================================================
