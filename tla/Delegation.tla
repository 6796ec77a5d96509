------------------------------ MODULE Delegation ------------------------------
(***************************************************************************)
(* The delegation coordinator of packages/core/src/session/delegation.ts   *)
(* on top of the session tree.                                             *)
(*                                                                         *)
(* delegate(parent, request, executor) creates a child session, runs the   *)
(* executor it was given, and when that settles ends the child session and *)
(* records the result.  Executors run concurrently; each may delegate      *)
(* again under its own session, and the orchestrator the coordinator       *)
(* exposes lets anyone end any session at any time.  A delegation is named *)
(* by its child session.                                                   *)
(***************************************************************************)
EXTENDS SessionTree, FiniteSets

CONSTANT MaxRequests   \* bound: requests of one delegateMany call

ASSUME MaxRequestsAssumption == MaxRequests \in Nat

VARIABLES
  promise, \* the promise of delegate(): "none", "running", "resolved"
  record,  \* the coordinator's records map, [status, reason] per result
  batch    \* one delegateMany call

vars == <<tree, promise, record, batch>>

NoRecord == [status |-> "none", reason |-> NoReason]
NoBatch == [state |-> "none", under |-> NoSession, todo |-> 0, issued |-> {}]

\* requests.map(...) runs to its end before any promise continues.
Synchronous == batch.state = "issuing"

\* Bound: n more sessions can be created.  Only the model runs out of ids, so
\* the ids a batch still needs are kept for it.
IdsLeft(n) == Cardinality({s \in Ids : status[s] = "absent"}) >= n

-----------------------------------------------------------------------------
DelegationInit ==
  /\ Init
  /\ promise = [s \in Ids |-> "none"]
  /\ record = [s \in Ids |-> NoRecord]
  /\ batch = NoBatch

\* Sessions made and ended without the coordinator's delegate(): roots, and
\* what other code does through coordinator.orchestrator.
OrchestratorCall ==
  /\ \E s \in Ids :
       \/ IdsLeft(batch.todo + 1) /\ CreateRootSession(s)
       \/ CompleteSession(s)
       \/ FailSession(s)
       \/ \E why \in CallerReasons \cup {NoReason} : CancelSession(s, why)
  /\ UNCHANGED <<promise, record, batch>>

\* delegate() up to its await: the child exists and its executor runs.  A
\* terminal parent makes createChildSession throw, which changes nothing.
StartChild(p, s) ==
  /\ CreateChildSession(p, s)
  /\ promise' = [promise EXCEPT ![s] = "running"]
  /\ UNCHANGED record

Delegate(p, s) == IdsLeft(batch.todo + 1) /\ StartChild(p, s) /\ UNCHANGED batch

\* Mutant: the result is built from the snapshot taken before the await.
ResolveFromStaleSnapshot(s) ==
  /\ promise' = [promise EXCEPT ![s] = "resolved"]
  /\ record' = [record EXCEPT ![s] = [status |-> "succeeded", reason |-> NoReason]]
  /\ UNCHANGED batch

\* After the await: records.set(sessionId, result of the terminal snapshot).
Resolve(s) ==
  /\ promise' = [promise EXCEPT ![s] = "resolved"]
  /\ record' = [record EXCEPT ![s] = [status |-> status'[s], reason |-> reason'[s]]]
  /\ UNCHANGED batch

\* Mutant: only success counts as terminal, so ending a failed or cancelled
\* session again throws and delegate() never resolves.
KeepSucceeded(s) == status[s] = "succeeded" /\ UNCHANGED tree

\* isTerminalSnapshot: a session that has ended meanwhile keeps its state.
KeepExisting(s) == status[s] \in Terminal /\ UNCHANGED tree

\* terminalizeSuccess.  completeSession throws while a nested session runs;
\* the catch around it then fails the child, as terminalizeFailure does.
TerminalizeSuccess(s) ==
  \/ KeepExisting(s)
  \/ CompleteSession(s)
  \/ HasActiveDescendant(s) /\ FailSession(s)

\* terminalizeFailure: an AbortError cancels, with its message as reason.
TerminalizeFailure(s, error) ==
  \/ KeepExisting(s)
  \/ error = "error" /\ FailSession(s)
  \/ error = "abort" /\ \E why \in CallerReasons \cup {NoReason} : CancelSession(s, why)

ExecutorReturns(s) ==
  /\ promise[s] = "running" /\ ~ Synchronous
  /\ TerminalizeSuccess(s)
  /\ Resolve(s)

ExecutorThrows(s, error) ==
  /\ promise[s] = "running" /\ ~ Synchronous
  /\ TerminalizeFailure(s, error)
  /\ Resolve(s)

ExecutorSettles(s) ==
  ExecutorReturns(s) \/ \E error \in {"error", "abort"} : ExecutorThrows(s, error)

(***************************************************************************)
(* delegateMany: Promise.all(requests.map(delegate)).  Each delegate()     *)
(* runs its executor's synchronous part before the next one is called.     *)
(***************************************************************************)
DelegateMany(p, n) ==
  /\ batch.state = "none"
  /\ status[p] # "absent"
  /\ IdsLeft(n)
  /\ batch' = [state |-> "issuing", under |-> p, todo |-> n, issued |-> {}]
  /\ UNCHANGED <<tree, promise, record>>

IssueRequest(s) ==
  /\ Synchronous
  /\ StartChild(batch.under, s)
  /\ batch' = [batch EXCEPT !.todo = @ - 1,
                            !.issued = @ \cup {s},
                            !.state = IF batch.todo = 1 THEN "open" ELSE @]

\* The parent has ended meanwhile: this request and the rest reject, and
\* with them Promise.all, while the issued ones go on.
IssueRefused ==
  /\ Synchronous
  /\ ~ IsActive(batch.under)
  /\ batch' = [batch EXCEPT !.todo = 0, !.state = "rejected"]
  /\ UNCHANGED <<tree, promise, record>>

BatchResolves ==
  /\ batch.state = "open"
  /\ \A s \in batch.issued : promise[s] = "resolved"
  /\ batch' = [batch EXCEPT !.state = "resolved"]
  /\ UNCHANGED <<tree, promise, record>>

DelegationNext ==
  \/ OrchestratorCall
  \/ \E p, s \in Ids : Delegate(p, s)
  \/ \E s \in Ids : ExecutorSettles(s)
  \/ \E p \in Ids, n \in 1 .. MaxRequests : DelegateMany(p, n)
  \/ \E s \in Ids : IssueRequest(s)
  \/ IssueRefused
  \/ BatchResolves

DelegationSpec == DelegationInit /\ [][DelegationNext]_vars

-----------------------------------------------------------------------------
(***************************************************************************)
(* Properties                                                              *)
(***************************************************************************)

\* What list() reports of a delegation is, and stays, what the tree says of
\* its session, whoever ended it: the executor, a cascade or an outsider.
RecordMatchesTree ==
  \A s \in Ids :
    IF promise[s] = "resolved"
    THEN record[s] = [status |-> status[s], reason |-> reason[s]]
    ELSE record[s] = NoRecord

\* A resolved delegation leaves no session active below it, though nested
\* executors nobody awaited may still be running.
ResolvedSubtreeEnded ==
  \A s \in Ids :
    promise[s] = "resolved" => ~ IsActive(s) /\ ~ HasActiveDescendant(s)

\* A resolved delegation says what became of its session, for good.
RecordsTrue == RecordMatchesTree /\ ResolvedSubtreeEnded

\* However its executor settles, a running delegation can take that result
\* and resolve, also when its session was ended meanwhile or still has
\* nested sessions running: delegate() neither rejects nor hangs.
DelegationResolves ==
  \A s \in Ids :
    promise[s] = "running" /\ ~ Synchronous =>
      /\ ENABLED ExecutorReturns(s)
      /\ \A error \in {"error", "abort"} : ENABLED ExecutorThrows(s, error)

\* The tree under the coordinator is the orchestrator's: each step of a
\* delegation is one legal call on it, or none.
TreeImplemented == Spec
=============================================================================
