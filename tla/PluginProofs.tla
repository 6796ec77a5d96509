------------------------------ MODULE PluginProofs -----------------------------
(***************************************************************************)
(* Proofs about the plugins that keep something: the queue in memory, for  *)
(* every set of jobs, any limits and any choice of delays and priorities;  *)
(* storage, messages and the memories in files, for operations of any      *)
(* number, on any names, values, messages and memories.                    *)
(*                                                                         *)
(* The queue's invariant has four parts: where each job is (Places), how   *)
(* many are where (WithinLimits, with the finiteness it needs), what is    *)
(* armed (WakeupArmed) and who is waiting (Closing, IdleReleasesWaiters).  *)
(* NoOvertaking rests on Numbered instead: sequence numbers grow with each *)
(* job that is accepted, and what starts is first among what waits.        *)
(*                                                                         *)
(* A run of operations on what is stored is a fold; Folding gives the      *)
(* states it goes through, and an induction on their number carries an     *)
(* invariant along: Same between the two storages, Holds between a box and *)
(* the messages that were taken, Keeps between the files and what was      *)
(* remembered.  Folding also turns what the storages do inside of one      *)
(* operation, the body of a transaction and the entries of a snapshot,     *)
(* into such states.                                                       *)
(***************************************************************************)
EXTENDS MemoryQueue, StoragePromises, FiniteSetTheorems, SequenceTheorems, TLAPS

(***************************************************************************)
(* The queue                                                               *)
(***************************************************************************)
Types ==
  /\ pending \subseteq Jobs /\ slot \subseteq Jobs
  /\ running \in Nat
  /\ promise \in [Jobs -> {"none", "open", "resolved", "rejected"}]
  /\ waiter \in [Waiters \cup {Closer} -> {"none", "waiting", "done"}]
  /\ paused \in BOOLEAN /\ closing \in BOOLEAN /\ closed \in BOOLEAN

\* A job waits in #pending or holds a slot, never both; its promise is open
\* as long as it waits, and an open promise is in one of the two places.
Places ==
  \A j \in Jobs :
    /\ j \in pending => promise[j] = "open" /\ j \notin slot
    /\ promise[j] = "open" => j \in pending \cup slot
    /\ j \in slot => promise[j] # "none"

Limits == IsFiniteSet(slot) /\ IsFiniteSet(pending) /\ WithinLimits

\* close() waits only while closing; when its drain has returned nothing is
\* pending and nothing can come in.
Closing ==
  /\ closed => ~ closing
  /\ ~ closing /\ ~ closed => waiter[Closer] = "none"
  /\ closing => waiter[Closer] # "none"
  /\ closing /\ waiter[Closer] = "done" => pending = {}
  /\ ClosedIsEmpty

IInv ==
  Types /\ Places /\ Limits /\ WakeupArmed /\ IdleReleasesWaiters /\ Closing

-----------------------------------------------------------------------------
LEMMA InitIInv == Init => IInv
<1> SUFFICES ASSUME Init PROVE IInv
  OBVIOUS
<1> USE ConstantsAssumption DEF Init
<1>1. Types /\ Places /\ Closing
  BY DEF Types, Places, Closing, ClosedIsEmpty
<1>2. Limits
  BY FS_EmptySet DEF Limits, WithinLimits
<1>3. WakeupArmed /\ IdleReleasesWaiters
  BY DEF WakeupArmed, IdleReleasesWaiters, Idle
<1> QED BY <1>1, <1>2, <1>3 DEF IInv

-----------------------------------------------------------------------------
(***************************************************************************)
(* #arm, from the state in which the step leaves everything else.          *)
(***************************************************************************)
WaiterMaps == [Waiters \cup {Closer} -> {"none", "waiting", "done"}]
NobodyWaits(w) == \A x \in Waiters \cup {Closer} : w[x] # "waiting"

LEMMA ArmFacts ==
  ASSUME NEW w \in WaiterMaps, Arm(w), running' \in Nat
  PROVE  /\ waiter' \in WaiterMaps
         /\ WakeupArmed'
         /\ closed' => wake' = wake
         /\ \A x \in Waiters \cup {Closer} :
              \/ waiter'[x] = w[x]
              \/ w[x] = "waiting" /\ waiter'[x] = "done" /\ Idle'
         /\ Idle' /\ ~ paused' /\ ~ closed' => NobodyWaits(waiter')
<1> USE ConstantsAssumption DEF WaiterMaps
<1>1. WakeupArmed'
  BY DEF Arm, WakeupArmed, WakeFor, Immediate, Timer
<1>2. closed' => wake' = wake
  BY DEF Arm
<1>3. \/ waiter' = w
      \/ /\ Idle'
         /\ waiter' = [x \in Waiters \cup {Closer} |->
                         IF w[x] = "waiting" THEN "done" ELSE w[x]]
  BY DEF Arm, Flush
<1>4. Idle' /\ ~ paused' /\ ~ closed' =>
        waiter' = [x \in Waiters \cup {Closer} |->
                     IF w[x] = "waiting" THEN "done" ELSE w[x]]
  BY DEF Arm, Flush, Idle
<1> QED BY <1>1, <1>2, <1>3, <1>4 DEF NobodyWaits

\* The waiters' part of the invariant after a step that arms and leaves
\* closing and closed alone.
LEMMA ArmKeepsWaiters ==
  ASSUME IInv, NEW w \in WaiterMaps, Arm(w), running' \in Nat,
         w[Closer] = waiter[Closer],
         UNCHANGED <<closing, closed>>,
         closed => pending' = {},
         pending = {} /\ closing => pending' = {}
  PROVE  waiter' \in WaiterMaps /\ WakeupArmed' /\ IdleReleasesWaiters' /\ Closing'
<1> USE DEF IInv
<1>1. waiter' \in WaiterMaps /\ WakeupArmed'
  BY ArmFacts
<1>2. IdleReleasesWaiters'
  BY <1>1, ArmFacts DEF IdleReleasesWaiters, NobodyWaits, WaiterMaps, Idle
<1>3. \/ waiter'[Closer] = waiter[Closer]
      \/ waiter[Closer] = "waiting" /\ waiter'[Closer] = "done" /\ Idle'
  BY ArmFacts
<1>4. ClosedIsEmpty'
  BY ArmFacts DEF Closing, ClosedIsEmpty
<1>5. Closing'
  BY <1>3, <1>4 DEF Closing, Idle
<1> QED BY <1>1, <1>2, <1>5

-----------------------------------------------------------------------------
(***************************************************************************)
(* One lemma per call.                                                     *)
(***************************************************************************)
LEMMA RefusedStep ==
  ASSUME IInv, NEW j \in Jobs, EnqueueRefused(j) \/ EnqueueAborted(j)
  PROVE  IInv'
<1> USE DEF IInv, EnqueueRefused, EnqueueAborted, flags
<1>1. Types' /\ Places'
  BY DEF Types, Places
<1>2. Limits'
  BY DEF Limits, WithinLimits
<1>3. WakeupArmed' /\ IdleReleasesWaiters' /\ Closing'
  BY DEF WakeupArmed, IdleReleasesWaiters, Idle, Closing, ClosedIsEmpty
<1> QED BY <1>1, <1>2, <1>3

LEMMA EnqueueStep ==
  ASSUME IInv, NEW j \in Jobs, NEW at, NEW priority, Enqueue(j, at, priority)
  PROVE  IInv'
<1> USE DEF IInv, Enqueue, flags, Accepts
<1>1. waiter \in WaiterMaps /\ running' \in Nat
  BY DEF Types, WaiterMaps
<1>2. waiter' \in WaiterMaps /\ WakeupArmed' /\ IdleReleasesWaiters' /\ Closing'
  BY <1>1, ArmKeepsWaiters
<1>3. Types' /\ Places'
  BY <1>2 DEF Types, Places, WaiterMaps
<1>4. Limits'
  <2>1. IsFiniteSet(pending \cup {j}) /\ Cardinality(pending \cup {j}) <= MaxPending
    <3>1. IsFiniteSet(pending) /\ Cardinality(pending) \in Nat
      BY FS_CardinalityType DEF Limits
    <3>2. /\ IsFiniteSet(pending \cup {j})
          /\ \/ Cardinality(pending \cup {j}) = Cardinality(pending)
             \/ Cardinality(pending \cup {j}) = Cardinality(pending) + 1
      BY <3>1, FS_AddElement
    <3>3. Cardinality(pending) < MaxPending
      OBVIOUS
    <3> QED BY <3>1, <3>2, <3>3, ConstantsAssumption
  <2> QED BY <2>1 DEF Limits, WithinLimits
<1> QED BY <1>2, <1>3, <1>4

LEMMA AbortStep ==
  ASSUME IInv, NEW j \in Jobs, Abort(j)
  PROVE  IInv'
<1> USE DEF IInv, Abort, flags
<1>1. waiter \in WaiterMaps /\ running' \in Nat
  BY DEF Types, WaiterMaps
<1>2. waiter' \in WaiterMaps /\ WakeupArmed' /\ IdleReleasesWaiters' /\ Closing'
  BY <1>1, ArmKeepsWaiters DEF Closing, ClosedIsEmpty
<1>3. Types' /\ Places'
  BY <1>2 DEF Types, Places, WaiterMaps
<1>4. Limits'
  <2>1. IsFiniteSet(pending \ {j}) /\ Cardinality(pending \ {j}) <= MaxPending
    <3>1. /\ IsFiniteSet(pending) /\ Cardinality(pending) \in Nat
          /\ Cardinality(pending) <= MaxPending
      BY FS_CardinalityType DEF Limits, WithinLimits
    <3>2. /\ IsFiniteSet(pending \ {j})
          /\ Cardinality(pending \ {j}) = Cardinality(pending) - 1
      BY <3>1, FS_RemoveElement
    <3> QED BY <3>1, <3>2, ConstantsAssumption
  <2> QED BY <2>1 DEF Limits, WithinLimits
<1> QED BY <1>2, <1>3, <1>4

LEMMA ClearStep ==
  ASSUME IInv, Clear
  PROVE  IInv'
<1> USE DEF IInv, Clear, RejectAll, flags
<1>1. waiter \in WaiterMaps /\ running' \in Nat
  BY DEF Types, WaiterMaps
<1>2. waiter' \in WaiterMaps /\ WakeupArmed' /\ IdleReleasesWaiters' /\ Closing'
  BY <1>1, ArmKeepsWaiters
<1>3. Types' /\ Places'
  BY <1>2 DEF Types, Places, WaiterMaps
<1>4. Limits'
  BY FS_EmptySet, ConstantsAssumption DEF Limits, WithinLimits
<1> QED BY <1>2, <1>3, <1>4

LEMMA PauseStep ==
  ASSUME IInv, Pause
  PROVE  IInv'
<1> USE DEF IInv, Pause
<1>1. Types' /\ Places' /\ Limits'
  BY DEF Types, Places, Limits, WithinLimits
<1>2. WakeupArmed' /\ IdleReleasesWaiters' /\ Closing'
  BY DEF WakeupArmed, IdleReleasesWaiters, Idle, Closing, ClosedIsEmpty
<1> QED BY <1>1, <1>2

LEMMA ResumeStep ==
  ASSUME IInv, Resume
  PROVE  IInv'
<1> USE DEF IInv, Resume
<1>1. waiter \in WaiterMaps /\ running' \in Nat
  BY DEF Types, WaiterMaps
<1>2. waiter' \in WaiterMaps /\ WakeupArmed' /\ IdleReleasesWaiters' /\ Closing'
  BY <1>1, ArmKeepsWaiters DEF Closing, ClosedIsEmpty
<1>3. Types' /\ Places' /\ Limits'
  BY <1>2 DEF Types, Places, WaiterMaps, Limits, WithinLimits
<1> QED BY <1>2, <1>3

LEMMA DrainStep ==
  ASSUME IInv, NEW w \in Waiters, Drain(w)
  PROVE  IInv'
<1> USE DEF IInv, Drain, flags
<1> DEFINE joined(v) == [waiter EXCEPT ![w] = v]
<1>0. w # Closer
  BY ConstantsAssumption
<1>1. /\ waiter \in WaiterMaps /\ running' \in Nat
      /\ \A v \in {"waiting", "done"} :
           joined(v) \in WaiterMaps /\ joined(v)[Closer] = waiter[Closer]
  BY <1>0 DEF Types, WaiterMaps
<1>2. waiter' \in WaiterMaps /\ WakeupArmed' /\ IdleReleasesWaiters' /\ Closing'
  <2>1. CASE Idle
    <3>1. waiter' = joined("done") /\ wake' = wake
      BY <2>1
    <3>2. waiter' \in WaiterMaps /\ waiter'[Closer] = waiter[Closer]
      BY <1>1, <3>1
    <3>3. IdleReleasesWaiters'
      BY <3>1, <1>1 DEF IdleReleasesWaiters, Idle, WaiterMaps
    <3>4. WakeupArmed' /\ Closing'
      BY <3>1, <3>2 DEF WakeupArmed, Closing, ClosedIsEmpty
    <3> QED BY <3>2, <3>3, <3>4
  <2>2. CASE ~ Idle
    <3>1. Arm(joined("waiting"))
      BY <2>2
    <3> HIDE DEF joined
    <3> QED BY <1>1, <3>1, ArmKeepsWaiters DEF Closing, ClosedIsEmpty
  <2> QED BY <2>1, <2>2
<1>3. Types' /\ Places' /\ Limits'
  BY <1>2 DEF Types, Places, WaiterMaps, Limits, WithinLimits
<1> QED BY <1>2, <1>3

LEMMA CloseStep ==
  ASSUME IInv, Close
  PROVE  IInv'
<1> USE DEF IInv, Close
<1> DEFINE joined == [waiter EXCEPT ![Closer] = IF Idle THEN "done" ELSE "waiting"]
<1>1. joined \in WaiterMaps /\ running' \in Nat /\ Arm(joined)
  BY DEF Types, WaiterMaps
<1>2. joined[Closer] = IF Idle THEN "done" ELSE "waiting"
  BY DEF Types
<1> HIDE DEF joined
<1>3. /\ waiter' \in WaiterMaps
      /\ WakeupArmed'
      /\ \/ waiter'[Closer] = joined[Closer]
         \/ joined[Closer] = "waiting" /\ waiter'[Closer] = "done" /\ Idle'
      /\ Idle' /\ ~ paused' /\ ~ closed' => NobodyWaits(waiter')
  BY <1>1, ArmFacts
<1>4. IdleReleasesWaiters'
  BY <1>3 DEF IdleReleasesWaiters, NobodyWaits, WaiterMaps, Idle
<1>5. Closing'
  BY <1>2, <1>3 DEF Closing, ClosedIsEmpty, Idle
<1>6. Types' /\ Places' /\ Limits'
  BY <1>3 DEF Types, Places, WaiterMaps, Limits, WithinLimits
<1> QED BY <1>3, <1>4, <1>5, <1>6

LEMMA ForceCloseStep ==
  ASSUME IInv, ForceClose
  PROVE  IInv'
<1> USE DEF IInv, ForceClose, RejectAll
<1>1. waiter' \in WaiterMaps
  BY DEF Types, WaiterMaps
<1>2. Types' /\ Places'
  BY <1>1 DEF Types, Places, WaiterMaps
<1>3. Limits'
  BY FS_EmptySet, ConstantsAssumption DEF Limits, WithinLimits
<1>4. WakeupArmed' /\ IdleReleasesWaiters' /\ Closing'
  BY DEF WakeupArmed, IdleReleasesWaiters, Closing, ClosedIsEmpty
<1> QED BY <1>2, <1>3, <1>4

LEMMA FinishCloseStep ==
  ASSUME IInv, FinishClose
  PROVE  IInv'
<1> USE DEF IInv, FinishClose
<1>1. Types' /\ Places' /\ Limits'
  BY DEF Types, Places, Limits, WithinLimits
<1>2. WakeupArmed' /\ IdleReleasesWaiters' /\ Closing'
  BY DEF WakeupArmed, IdleReleasesWaiters, Closing, ClosedIsEmpty
<1> QED BY <1>1, <1>2

LEMMA SettleStep ==
  ASSUME IInv, NEW j \in Jobs, NEW o \in {"resolved", "rejected"}, HandlerSettles(j, o)
  PROVE  IInv'
<1> USE DEF IInv, HandlerSettles, flags
<1>1. Types' /\ Places' /\ Limits'
  BY DEF Types, Places, Limits, WithinLimits
<1>2. WakeupArmed' /\ IdleReleasesWaiters' /\ Closing'
  BY DEF WakeupArmed, IdleReleasesWaiters, Idle, Closing, ClosedIsEmpty
<1> QED BY <1>1, <1>2

LEMMA ReleaseStep ==
  ASSUME IInv, NEW j \in Jobs, Release(j)
  PROVE  IInv'
<1> USE DEF IInv, Release, flags
<1>1. /\ IsFiniteSet(slot') /\ Cardinality(slot') = running - 1
      /\ running \in Nat /\ running \in 1 .. Concurrency
  <2>1. IsFiniteSet(slot) /\ running = Cardinality(slot) /\ running \in Nat
    BY DEF Types, Limits, WithinLimits
  <2>2. IsFiniteSet(slot') /\ Cardinality(slot') = Cardinality(slot) - 1
    BY <2>1, FS_RemoveElement
  <2>3. Cardinality(slot') \in Nat
    BY <2>2, FS_CardinalityType
  <2> QED BY <2>1, <2>2, <2>3, ConstantsAssumption DEF Limits, WithinLimits
<1>2. running' = running - 1 /\ running' \in Nat
  BY <1>1, ConstantsAssumption
<1>3. Limits'
  BY <1>1, <1>2, ConstantsAssumption DEF Limits, WithinLimits
<1>4. waiter \in WaiterMaps
  BY DEF Types, WaiterMaps
<1>5. waiter' \in WaiterMaps /\ WakeupArmed' /\ IdleReleasesWaiters' /\ Closing'
  BY <1>2, <1>4, ArmKeepsWaiters DEF Closing, ClosedIsEmpty
<1>6. Types' /\ Places'
  BY <1>2, <1>5 DEF Types, Places, WaiterMaps
<1> QED BY <1>3, <1>5, <1>6

\* A turn of the pump loop.  The last two hypotheses hold of both places
\* that enter it.
LEMMA PumpStep ==
  ASSUME IInv, NEW armed, PumpTurn(armed), closed => armed = NoWake
  PROVE  IInv'
<1> USE DEF IInv, flags
<1>1. ASSUME HasRoom, NEW j \in pending, StartJob(j), wake' = armed,
             UNCHANGED <<now, sequence, job, promise, paused, closing, closed>>
      PROVE  IInv'
  <2> USE DEF HasRoom, StartJob
  <2>1. j \in Jobs /\ j \notin slot
    BY <1>1 DEF Types, Places
  <2>2. /\ IsFiniteSet(slot') /\ Cardinality(slot') = running + 1
        /\ running \in Nat /\ running + 1 <= Concurrency
    <3>1. IsFiniteSet(slot) /\ running = Cardinality(slot) /\ running \in Nat
      BY DEF Types, Limits, WithinLimits
    <3>2. IsFiniteSet(slot') /\ Cardinality(slot') = Cardinality(slot) + 1
      BY <1>1, <2>1, <3>1, FS_AddElement
    <3> QED BY <1>1, <3>1, <3>2, ConstantsAssumption
  <2>3. IsFiniteSet(pending') /\ Cardinality(pending') <= MaxPending
    <3>1. /\ IsFiniteSet(pending) /\ Cardinality(pending) \in Nat
          /\ Cardinality(pending) <= MaxPending
      BY FS_CardinalityType DEF Limits, WithinLimits
    <3>2. IsFiniteSet(pending') /\ Cardinality(pending') = Cardinality(pending) - 1
      BY <1>1, <3>1, FS_RemoveElement
    <3> QED BY <3>1, <3>2, ConstantsAssumption
  <2>4. Limits'
    BY <1>1, <2>2, <2>3 DEF Limits, WithinLimits
  <2>5. Types' /\ Places'
    BY <1>1, <2>1 DEF Types, Places
  <2>6. WakeupArmed'
    BY <1>1 DEF WakeupArmed
  <2>7. IdleReleasesWaiters'
    BY <1>1, <2>2 DEF IdleReleasesWaiters, Idle
  <2>8. Closing'
    BY <1>1 DEF Closing, ClosedIsEmpty
  <2> QED BY <2>4, <2>5, <2>6, <2>7, <2>8
<1>2. ASSUME UNCHANGED <<now, sequence, job, promise, paused, closing, closed>>,
             UNCHANGED <<pending, running, slot>>, Arm(waiter)
      PROVE  IInv'
  <2>1. waiter \in WaiterMaps /\ running' \in Nat
    BY <1>2 DEF Types, WaiterMaps
  <2>2. waiter' \in WaiterMaps /\ WakeupArmed' /\ IdleReleasesWaiters' /\ Closing'
    BY <1>2, <2>1, ArmKeepsWaiters DEF Closing, ClosedIsEmpty
  <2>3. Types' /\ Places' /\ Limits'
    BY <1>2, <2>2 DEF Types, Places, WaiterMaps, Limits, WithinLimits
  <2> QED BY <2>2, <2>3
<1>3. ASSUME ~ HasRoom \/ pending = {},
             UNCHANGED <<now, sequence, job, promise, paused, closing, closed>>,
             UNCHANGED <<pending, running, slot>>, wake' = armed, Flush(waiter)
      PROVE  IInv'
  <2>1. \/ waiter' = waiter /\ ~ Idle'
        \/ /\ Idle'
           /\ waiter' = [x \in Waiters \cup {Closer} |->
                           IF waiter[x] = "waiting" THEN "done" ELSE waiter[x]]
    BY <1>3 DEF Flush, Types
  <2>2. Types' /\ Places' /\ Limits'
    BY <1>3, <2>1 DEF Types, Places, Limits, WithinLimits
  <2>3. WakeupArmed'
    BY <1>3 DEF WakeupArmed, HasRoom
  <2>4. IdleReleasesWaiters'
    BY <1>3, <2>1 DEF IdleReleasesWaiters, Types
  <2>5. Closing'
    BY <1>3, <2>1 DEF Closing, ClosedIsEmpty, Idle, Types
  <2> QED BY <2>2, <2>3, <2>4, <2>5
<1> QED BY <1>1, <1>2, <1>3 DEF PumpTurn

LEMMA NextIInv == IInv /\ [Next]_vars => IInv'
<1> SUFFICES ASSUME IInv, [Next]_vars PROVE IInv'
  OBVIOUS
<1>1. ASSUME NEW j \in Jobs,
             \/ EnqueueRefused(j) \/ EnqueueAborted(j) \/ Abort(j) \/ Release(j)
             \/ \E at \in RunAts, priority \in Priorities : Enqueue(j, at, priority)
             \/ \E o \in {"resolved", "rejected"} : HandlerSettles(j, o)
      PROVE  IInv'
  BY <1>1, RefusedStep, AbortStep, ReleaseStep, EnqueueStep, SettleStep
<1>2. CASE Clear \/ Pause \/ Resume \/ Close \/ ForceClose \/ FinishClose
  BY <1>2, ClearStep, PauseStep, ResumeStep, CloseStep, ForceCloseStep, FinishCloseStep
<1>3. ASSUME NEW w \in Waiters, Drain(w) PROVE IInv'
  BY <1>3, DrainStep
<1>4. CASE Fire
  BY <1>4, PumpStep DEF Fire
<1>5. CASE PumpOn
  BY <1>5, PumpStep DEF PumpOn, IInv, Closing, ClosedIsEmpty
<1>6. CASE Tick \/ UNCHANGED vars
  <2>1. UNCHANGED <<pending, running, sequence, job, promise, slot, flags, wake, waiter, pumping>>
    BY <1>6 DEF Tick, vars
  <2>2. Types' /\ Places' /\ Limits'
    BY <2>1 DEF IInv, Types, Places, Limits, WithinLimits, flags
  <2>3. WakeupArmed' /\ IdleReleasesWaiters' /\ Closing'
    BY <2>1 DEF IInv, WakeupArmed, IdleReleasesWaiters, Idle, Closing, ClosedIsEmpty, flags
  <2> QED BY <2>2, <2>3 DEF IInv
<1> QED BY <1>1, <1>2, <1>3, <1>4, <1>5, <1>6 DEF Next, Calls

-----------------------------------------------------------------------------
\* Never more jobs in flight than the concurrency limit, never more waiting
\* than maxPending, and #running always counts the slots in use.
THEOREM LimitsHold == Spec => []WithinLimits
BY InitIInv, NextIInv, PTL DEF Spec, IInv, Limits

\* Whatever calls, aborts, timers and completions interleave, a job that
\* could start has a callback armed for it.
THEOREM NoLostWakeup == Spec => []WakeupArmed
BY InitIInv, NextIInv, PTL DEF Spec, IInv

\* An open, running queue that falls idle releases every drain() and close().
THEOREM NoForgottenWaiter == Spec => []IdleReleasesWaiters
BY InitIInv, NextIInv, PTL DEF Spec, IInv

\* A closed queue holds no job and no armed callback.
THEOREM CloseLeavesNothing == Spec => []ClosedIsEmpty
BY InitIInv, NextIInv, PTL DEF Spec, IInv, Closing

\* The four together, for any concurrency, limit and set of jobs.
THEOREM QueueAlwaysSafe == Spec => []QueueSafe
  BY LimitsHold, NoLostWakeup, NoForgottenWaiter, CloseLeavesNothing, PTL DEF QueueSafe

-----------------------------------------------------------------------------
(***************************************************************************)
(* MemoryQueue implements JobLifecycle.  Places makes Phase a function of  *)
(* where each job is, with no job "lost"; Limits gives the abstract bound. *)
(***************************************************************************)
LEMMA PhaseFacts ==
  ASSUME IInv
  PROVE  /\ Phase \in [Jobs -> {"new", "waiting", "running", "settled"}]
         /\ \A j \in Jobs :
              /\ Phase[j] = "new" <=> promise[j] = "none"
              /\ Phase[j] = "waiting" <=> j \in pending
              /\ Phase[j] = "running" <=> promise[j] = "open" /\ j \in slot
              /\ Phase[j] = "settled" <=> promise[j] \in {"resolved", "rejected"}
BY DEF IInv, Types, Places, Phase

\* A step that moves the jobs of S from one phase to another.
LEMMA MoveFacts ==
  ASSUME NEW S \in SUBSET Jobs, S # {}, NEW from, NEW to,
         Phase' = [j \in Jobs |-> IF j \in S THEN to ELSE Phase[j]],
         \A j \in S : Phase[j] = from
  PROVE  Lifecycle!Move(S, from, to)
BY DEF Lifecycle!Move

LEMMA LifecycleSteps ==
  ASSUME IInv, IInv', [Next]_vars
  PROVE  [Lifecycle!Next]_Phase
<1> USE PhaseFacts DEF IInv
<1>0. /\ Phase \in [Jobs -> {"new", "waiting", "running", "settled"}]
      /\ Phase' \in [Jobs -> {"new", "waiting", "running", "settled"}]
      /\ Phase = [j \in Jobs |-> Phase[j]]
      /\ Phase' = [j \in Jobs |-> Phase'[j]]
  BY DEF Types, Places, Phase
<1>1. ASSUME UNCHANGED <<promise, pending>>, slot' = slot \/ \E k \in slot : promise[k] # "open" /\ slot' = slot \ {k}
      PROVE  Phase' = Phase
  BY <1>1 DEF Types, Places, Phase
<1>2. ASSUME NEW j \in Jobs, EnqueueRefused(j) \/ EnqueueAborted(j)
      PROVE  Lifecycle!Refuse(j)
  <2>1. Phase' = [k \in Jobs |-> IF k \in {j} THEN "settled" ELSE Phase[k]]
    BY <1>2 DEF EnqueueRefused, EnqueueAborted, Phase, Types
  <2>2. Phase[j] = "new"
    BY <1>2 DEF EnqueueRefused, EnqueueAborted, Phase
  <2> QED BY <2>1, <2>2, MoveFacts DEF Lifecycle!Refuse
<1>3. ASSUME NEW j \in Jobs, NEW at, NEW priority, Enqueue(j, at, priority)
      PROVE  Lifecycle!Submit(j)
  <2>1. Phase' = [k \in Jobs |-> IF k \in {j} THEN "waiting" ELSE Phase[k]]
    BY <1>3 DEF Enqueue, Phase, Types, Places
  <2>2. Phase[j] = "new"
    BY <1>3 DEF Enqueue, Phase
  <2> QED BY <2>1, <2>2, MoveFacts DEF Lifecycle!Submit
<1>4. ASSUME NEW S \in SUBSET Jobs, S # {}, S \subseteq pending,
             promise' = [k \in Jobs |-> IF k \in S THEN "rejected" ELSE promise[k]],
             pending' = pending \ S, slot' = slot
      PROVE  Lifecycle!Drop(S)
  <2>1. Phase' = [k \in Jobs |-> IF k \in S THEN "settled" ELSE Phase[k]]
    BY <1>4 DEF Phase, Types, Places
  <2>2. \A k \in S : Phase[k] = "waiting"
    BY <1>4
  <2> QED BY <1>4, <2>1, <2>2, MoveFacts DEF Lifecycle!Drop
<1>5. ASSUME NEW j \in Jobs, Abort(j) PROVE Lifecycle!Drop({j})
  <2>1. promise' = [k \in Jobs |-> IF k \in {j} THEN "rejected" ELSE promise[k]]
    BY <1>5 DEF Abort, Types
  <2> QED BY <1>4, <1>5, <2>1 DEF Abort
<1>6. ASSUME Clear \/ ForceClose, pending # {} PROVE Lifecycle!Drop(pending)
  BY <1>4, <1>6 DEF Clear, ForceClose, RejectAll, Types
<1>7. ASSUME ForceClose, pending = {} PROVE Phase' = Phase
  BY <1>7 DEF ForceClose, RejectAll, Phase, Types
<1>8. ASSUME NEW j \in Jobs, NEW o \in {"resolved", "rejected"}, HandlerSettles(j, o)
      PROVE  Lifecycle!Finish(j)
  <2>1. Phase' = [k \in Jobs |-> IF k \in {j} THEN "settled" ELSE Phase[k]]
    BY <1>8 DEF HandlerSettles, Phase, Types
  <2>2. Phase[j] = "running"
    BY <1>8 DEF HandlerSettles
  <2> QED BY <2>1, <2>2, MoveFacts DEF Lifecycle!Finish
<1>9. ASSUME NEW j \in pending, HasRoom, StartJob(j), UNCHANGED promise
      PROVE  Lifecycle!Start(j)
  <2>1. j \in Jobs /\ Phase[j] = "waiting"
    BY DEF Types
  <2>2. Phase' = [k \in Jobs |-> IF k \in {j} THEN "running" ELSE Phase[k]]
    BY <1>9 DEF StartJob, Phase, Types, Places
  <2>3. Cardinality({k \in Jobs : Phase[k] = "running"}) < Concurrency
    <3> DEFINE R == {k \in Jobs : Phase[k] = "running"}
    <3>1. R \in SUBSET slot
      OBVIOUS
    <3>2. IsFiniteSet(slot) /\ Cardinality(slot) = running /\ running \in Nat
      BY DEF Limits, WithinLimits, Types
    <3> HIDE DEF R
    <3>3. IsFiniteSet(R) /\ Cardinality(R) <= running /\ Cardinality(R) \in Nat
      BY <3>1, <3>2, FS_Subset, FS_CardinalityType
    <3>4. Cardinality(R) < Concurrency
      BY <1>9, <3>2, <3>3, ConstantsAssumption DEF HasRoom
    <3> QED BY <3>4 DEF R
  <2>4. Lifecycle!Move({j}, "waiting", "running")
    BY <2>1, <2>2, MoveFacts
  <2>5. ASSUME NEW R PROVE Lifecycle!Cardinality(R) = Cardinality(R)
    BY DEF Lifecycle!Cardinality, Cardinality
  <2> QED BY <2>3, <2>4, <2>5 DEF Lifecycle!Start
<1>10. ASSUME NEW armed, PumpTurn(armed)
       PROVE  Phase' = Phase \/ \E j \in Jobs : Lifecycle!Start(j)
  BY <1>1, <1>9, <1>10 DEF PumpTurn, Types
<1>11. ASSUME NEW j \in Jobs, Release(j) PROVE Phase' = Phase
  BY <1>1, <1>11 DEF Release
<1>12. CASE \/ Pause \/ Resume \/ Close \/ FinishClose \/ Tick \/ UNCHANGED vars
            \/ \E w \in Waiters : Drain(w)
  BY <1>1, <1>12 DEF Pause, Resume, Close, FinishClose, Tick, vars, Drain
<1>13. ASSUME NEW j \in Jobs,
             \/ EnqueueRefused(j) \/ EnqueueAborted(j) \/ Abort(j) \/ Release(j)
             \/ \E at \in RunAts, priority \in Priorities : Enqueue(j, at, priority)
             \/ \E o \in {"resolved", "rejected"} : HandlerSettles(j, o)
      PROVE  Lifecycle!Next \/ Phase' = Phase
  BY <1>2, <1>3, <1>5, <1>8, <1>11, <1>13 DEF Lifecycle!Next
<1>14. ASSUME Clear \/ ForceClose PROVE Lifecycle!Next \/ Phase' = Phase
  <2>1. Clear => pending # {}
    BY DEF Clear
  <2>2. pending \in SUBSET Jobs
    BY DEF Types
  <2> QED BY <1>6, <1>7, <1>14, <2>1, <2>2 DEF Lifecycle!Next
<1>15. ASSUME Fire \/ PumpOn PROVE Lifecycle!Next \/ Phase' = Phase
  BY <1>10, <1>15 DEF Fire, PumpOn, Lifecycle!Next
<1> QED BY <1>12, <1>13, <1>14, <1>15 DEF Next, Calls

\* The queue keeps the promises of the abstract job life cycle: every job
\* runs at most once, settles once, is never lost and never runs after it
\* was dropped, and the limit holds.
THEOREM ImplementsLifecycle == Spec => LifecycleImplemented
<1>1. Init => Lifecycle!Init
  BY DEF Init, Lifecycle!Init, Phase
<1>2. IInv /\ IInv' /\ [Next]_vars => [Lifecycle!Next]_Phase
  BY LifecycleSteps
<1> QED BY <1>1, <1>2, InitIInv, NextIInv, PTL DEF Spec, Lifecycle!Spec, LifecycleImplemented

\* A job starts no earlier than its runAt, and in a paused queue only within
\* the turn of the pump whose listener paused it.
THEOREM StartsOnTime == Spec => StartsInTime
<1>1. [Next]_vars =>
        [\A j \in Jobs : j \in slot' \ slot => job[j].runAt <= now /\ (~ paused \/ pumping)]_vars
  <2> SUFFICES ASSUME Next, NEW j \in Jobs, j \in slot' \ slot
               PROVE  job[j].runAt <= now /\ (~ paused \/ pumping)
    OBVIOUS
  <2>1. CASE Fire \/ PumpOn
    <3>1. \E armed : PumpTurn(armed)
      BY <2>1 DEF Fire, PumpOn
    <3>2. job[j].runAt <= now
      BY <3>1 DEF PumpTurn, StartJob, IsDue
    <3>3. ~ paused \/ pumping
      BY <2>1 DEF Fire, PumpOn
    <3> QED BY <3>2, <3>3
  <2>2. CASE ~ (Fire \/ PumpOn)
    <3>1. slot' \subseteq slot
      BY <2>2 DEF Next, Calls, EnqueueRefused, EnqueueAborted, Enqueue, Abort, Clear, RejectAll,
                  Pause, Resume, Close, ForceClose, FinishClose, Drain, HandlerSettles,
                  Release, Tick
    <3> QED BY <3>1
  <2> QED BY <2>1, <2>2
<1> QED BY <1>1, PTL DEF Spec, StartsInTime
-----------------------------------------------------------------------------
(***************************************************************************)
(* NoOvertaking.  A job that starts is first among those that wait, and    *)
(* one that is accepted later gets a sequence number beyond all others.    *)
(***************************************************************************)
Numbered ==
  /\ sequence \in Nat
  /\ job \in [Jobs -> [runAt : Nat, priority : Nat, sequence : Nat]]
  /\ \A j \in slot \cup pending : job[j].sequence <= sequence

\* What a step may do: accept one job with the next sequence number, start the
\* first job that waits, or take jobs away.
Accepted(j) ==
  /\ j \notin slot /\ slot' = slot /\ pending' = pending \cup {j}
  /\ sequence' = sequence + 1
  /\ \E at, priority \in Nat :
       job' = [job EXCEPT ![j] = [runAt |-> at, priority |-> priority, sequence |-> sequence + 1]]

Started(j) ==
  /\ IsFirst(j, pending, job)
  /\ slot' = slot \cup {j} /\ pending' = pending \ {j}
  /\ UNCHANGED <<job, sequence>>

TakenAway ==
  /\ slot' \subseteq slot /\ pending' \subseteq pending /\ job' = job
  /\ sequence' \in {sequence, sequence + 1}

LEMMA QueueMoves ==
  ASSUME IInv, [Next]_vars
  PROVE  TakenAway \/ \E j \in Jobs : Accepted(j) \/ Started(j)
<1>1. ASSUME NEW j \in Jobs, NEW at \in RunAts, NEW priority \in Priorities,
             Enqueue(j, at, priority)
      PROVE  Accepted(j)
  <2>1. at \in Nat /\ priority \in Nat
    BY ConstantsAssumption
  <2>2. j \notin slot
    BY <1>1 DEF Enqueue, IInv, Places
  <2> QED BY <1>1, <2>1, <2>2 DEF Enqueue, Accepted
<1>2. ASSUME NEW armed, PumpTurn(armed)
      PROVE  TakenAway \/ \E j \in Jobs : Started(j)
  BY <1>2 DEF PumpTurn, StartJob, Started, TakenAway, IInv, Types
<1>3. CASE Fire \/ PumpOn
  BY <1>2, <1>3 DEF Fire, PumpOn
<1>4. CASE \/ Clear \/ Pause \/ Resume \/ Close \/ ForceClose \/ FinishClose \/ Tick
           \/ UNCHANGED vars
           \/ \E w \in Waiters : Drain(w)
           \/ \E j \in Jobs : EnqueueRefused(j) \/ EnqueueAborted(j) \/ Abort(j) \/ Release(j)
           \/ \E j \in Jobs, o \in {"resolved", "rejected"} : HandlerSettles(j, o)
  BY <1>4 DEF TakenAway, Clear, RejectAll, Pause, Resume, Close, ForceClose, FinishClose,
              Tick, vars, Drain, EnqueueRefused, EnqueueAborted, Abort, Release, HandlerSettles
<1> QED BY <1>1, <1>3, <1>4 DEF Next, Calls

LEMMA OrderStep ==
  ASSUME Types, Numbered, NoOvertaking,
         TakenAway \/ \E j \in Jobs : Accepted(j) \/ Started(j)
  PROVE  Numbered' /\ NoOvertaking'
<1> slot \subseteq Jobs /\ pending \subseteq Jobs
  BY DEF Types
<1>1. CASE TakenAway
  BY <1>1 DEF TakenAway, Numbered, NoOvertaking
<1>2. ASSUME NEW j \in Jobs, Accepted(j) PROVE Numbered' /\ NoOvertaking'
  <2>1. PICK at, priority \in Nat :
          job' = [job EXCEPT ![j] = [runAt |-> at, priority |-> priority,
                                     sequence |-> sequence + 1]]
    BY <1>2 DEF Accepted
  <2>2. /\ job'[j].sequence = sequence + 1
        /\ \A k \in Jobs \ {j} : job'[k] = job[k]
        /\ job' \in [Jobs -> [runAt : Nat, priority : Nat, sequence : Nat]]
    BY <2>1 DEF Numbered
  <2>3. Numbered'
    BY <1>2, <2>2 DEF Numbered, Accepted
  <2>4. NoOvertaking'
    BY <1>2, <2>2 DEF Numbered, Accepted, NoOvertaking
  <2> QED BY <2>3, <2>4
<1>3. ASSUME NEW j \in Jobs, Started(j) PROVE Numbered' /\ NoOvertaking'
  <2>1. \A k \in pending' : Before(job[j], job[k])
    BY <1>3 DEF Started, IsFirst
  <2>2. Numbered'
    BY <1>3 DEF Numbered, Started, IsFirst
  <2>3. NoOvertaking'
    BY <1>3, <2>1 DEF Numbered, Started, NoOvertaking, Before
  <2> QED BY <2>2, <2>3
<1> QED BY <1>1, <1>2, <1>3

\* Of two accepted jobs with the same runAt, none starts before another that
\* came earlier and has the same or a higher priority.
THEOREM NeverOvertakes == Spec => []NoOvertaking
<1>1. Init => Numbered /\ NoOvertaking
  BY DEF Init, Numbered, NoOvertaking
<1>2. IInv /\ Numbered /\ NoOvertaking /\ [Next]_vars => (Numbered /\ NoOvertaking)'
  BY QueueMoves, OrderStep DEF IInv
<1> QED BY <1>1, <1>2, InitIInv, NextIInv, PTL DEF Spec

Indices(ops) == [i \in DOMAIN ops |-> i]

(***************************************************************************)
(* The storages                                                            *)
(***************************************************************************)
\* The steps of the folds, each with what it captures as its first argument.
RestoreStep(ns, f, e) == IF e.ns = ns THEN Put(f, NormalizeName(e.key), e.record) ELSE f
RestoreFold == INSTANCE Folding WITH Op <- RestoreStep

DraftStep(time, acc, b) ==
  IF acc.threw THEN acc
  ELSE LET r == OnMemoryRecords(acc[b.on], b, time) IN [acc EXCEPT ![b.on] = r.state, !.threw = r.threw]
DraftFold == INSTANCE Folding WITH Op <- DraftStep

TableStep(time, acc, b) == IF acc.threw THEN acc ELSE OnSqliteRecords(acc.state, b, time)
TableFold == INSTANCE Folding WITH Op <- TableStep

MemoryStep(ops, m, i) == OnMemory(m, ops[i], i).state
MemoryFold == INSTANCE Folding WITH Op <- MemoryStep

SqliteStep(ops, db, i) == OnSqlite(db, ops[i], i).state
SqliteFold == INSTANCE Folding WITH Op <- SqliteStep

\* The rows of the table are the records in memory.
Same(m, db) ==
  /\ \A at \in DOMAIN db : at = <<at[1], at[2]>>
  /\ \A ns, k : <<ns, k>> \in DOMAIN db <=> ns \in DOMAIN m /\ k \in DOMAIN m[ns]
  /\ \A ns \in DOMAIN m : \A k \in DOMAIN m[ns] : db[<<ns, k>>] = m[ns][k] /\ IsRecord(m[ns][k])

\* Storages that are the same have the same rows.
LEMMA SameRows == ASSUME NEW m, NEW db, Same(m, db) PROVE Rows(m) = {<<at, db[at]>> : at \in DOMAIN db}
<1>1. ASSUME NEW ns \in DOMAIN m, NEW k \in DOMAIN m[ns]
      PROVE  <<ns, k>> \in DOMAIN db /\ db[<<ns, k>>] = m[ns][k]
  BY DEF Same
<1>2. ASSUME NEW x \in Rows(m) PROVE x \in {<<at, db[at]>> : at \in DOMAIN db}
  <2>1. PICK at \in UNION {{ns} \X DOMAIN m[ns] : ns \in DOMAIN m} : x = <<at, m[at[1]][at[2]]>> BY DEF Rows
  <2>2. PICK ns \in DOMAIN m : at \in {ns} \X DOMAIN m[ns] BY <2>1
  <2>3. PICK k \in DOMAIN m[ns] : at = <<ns, k>> BY <2>2
  <2> QED BY <1>1, <2>1, <2>3
<1>3. ASSUME NEW at \in DOMAIN db PROVE <<at, db[at]>> \in Rows(m)
  <2>1. at = <<at[1], at[2]>> /\ at[1] \in DOMAIN m /\ at[2] \in DOMAIN m[at[1]] BY DEF Same
  <2>2. db[at] = m[at[1]][at[2]] BY <1>1, <2>1
  <2>3. at \in {at[1]} \X DOMAIN m[at[1]] BY <2>1
  <2>4. at \in UNION {{ns} \X DOMAIN m[ns] : ns \in DOMAIN m} BY <2>1, <2>3
  <2> QED BY <2>2, <2>4 DEF Rows
<1> QED BY <1>2, <1>3

\* Trimming a name twice is trimming it once.
LEMMA NameOnce == ASSUME NEW n PROVE NormalizeName(NormalizeName(n)) = NormalizeName(n)
BY DEF NormalizeName

\* A record that is written again keeps its time of creation and goes one version up.
LEMMA RecordWritten ==
  ASSUME NEW r, IsRecord(r), NEW x, NEW time
  PROVE  [r EXCEPT !.value = x, !.version = @ + 1, !.updated = time]
           = [value |-> x, version |-> r.version + 1, created |-> r.created, updated |-> time]
<1> DEFINE y == r.version + 1
           q == [r EXCEPT !.value = x, !.version = y, !.updated = time]
<1> HIDE DEF y
<1>1. r \in [value : {r.value}, version : {r.version}, created : {r.created}, updated : {r.updated}] BY DEF IsRecord
<1>2. q \in [value : {x}, version : {y}, created : {r.created}, updated : {time}] BY <1>1
<1> HIDE DEF q
<1>3. q = [value |-> x, version |-> y, created |-> r.created, updated |-> time] BY <1>2
<1> QED BY <1>3 DEF q, y

\* set() leaves the storages the same, and both refuse it or neither.
LEMMA SetSame ==
  ASSUME NEW m, NEW db, Same(m, db), NEW op, NEW time
  PROVE  /\ WriteMemoryRecord(m, op, time).threw = WriteSqliteRecord(db, op, time).threw
         /\ Same(WriteMemoryRecord(m, op, time).state, WriteSqliteRecord(db, op, time).state)
         /\ WriteSqliteRecord(db, op, time).threw \in BOOLEAN
<1> DEFINE ns == NormalizeName(op.ns)
           key == NormalizeName(op.key)
           at == <<ns, key>>
           touched == GetMemoryNamespaceState(m, ns)
           old == touched[ns]
           record == IF key \in DOMAIN old
                     THEN [value |-> op.value, version |-> old[key].version + 1, created |-> old[key].created, updated |-> time]
                     ELSE [value |-> op.value, version |-> 1, created |-> time, updated |-> time]
           row == IF at \in DOMAIN db
                  THEN [db[at] EXCEPT !.value = op.value, !.version = @ + 1, !.updated = time]
                  ELSE [value |-> op.value, version |-> 1, created |-> time, updated |-> time]
           w == WriteMemoryRecord(m, op, time)
           v == WriteSqliteRecord(db, op, time)
<1>1. /\ DOMAIN touched = DOMAIN m \cup {ns}
      /\ \A n \in DOMAIN m : touched[n] = m[n]
      /\ ns \notin DOMAIN m => DOMAIN touched[ns] = {}
  BY DEF GetMemoryNamespaceState, Put
<1>2. Same(touched, db)
  BY <1>1 DEF Same
<1>3. v = IF ~ Cloneable(op.value) \/ ns = "" \/ key = "" THEN Threw(db) ELSE Done(Put(db, at, row))
  BY DEF WriteSqliteRecord
<1>4. w = IF ns = "" THEN Threw(m)
          ELSE IF key = "" \/ ~ Cloneable(op.value) THEN Threw(touched)
          ELSE Done([touched EXCEPT ![ns] = Put(@, key, record)])
  BY DEF WriteMemoryRecord
<1>5. ASSUME ns # "", key # "", Cloneable(op.value) PROVE Same(w.state, v.state)
  <2>1. at \in DOMAIN db <=> key \in DOMAIN old
    BY <1>2, <1>1 DEF Same
  <2>2. row = record
    <3>1. CASE key \in DOMAIN old
      <4>1. db[at] = old[key] /\ IsRecord(old[key]) BY <1>1, <1>2, <3>1 DEF Same
      <4> QED BY <2>1, <3>1, <4>1, RecordWritten
    <3> QED BY <2>1, <3>1
  <2>3. IsRecord(record) BY DEF IsRecord
  <2> DEFINE m2 == [touched EXCEPT ![ns] = Put(@, key, record)]
             d2 == Put(db, at, record)
  <2> HIDE DEF record, row
  <2> HIDE DEF at, touched, w, v, ns, key
  <2>4a. v = Done(Put(db, at, row)) BY <1>3, <1>5
  <2>4b. w = Done([touched EXCEPT ![ns] = Put(@, key, record)]) BY <1>4, <1>5
  <2>4. w.state = m2 /\ v.state = d2 BY <2>4a, <2>4b, <2>2 DEF Done
  <2>5. /\ DOMAIN m2 = DOMAIN touched
        /\ \A n \in DOMAIN touched : n # ns => m2[n] = touched[n]
        /\ DOMAIN m2[ns] = DOMAIN old \cup {key}
        /\ \A k \in DOMAIN old : k # key => m2[ns][k] = old[k]
        /\ m2[ns][key] = record
    BY <1>1 DEF Put
  <2>6. /\ DOMAIN d2 = DOMAIN db \cup {at} /\ d2[at] = record
        /\ \A x \in DOMAIN db : x # at => d2[x] = db[x]
    BY DEF Put
  <2> HIDE DEF m2, d2, touched, at
  <2>7. Same(m2, d2)
    <3>1. \A x \in DOMAIN d2 : x = <<x[1], x[2]>> BY <1>2, <2>6 DEF Same, at
    <3>2. ASSUME NEW n, NEW k PROVE <<n, k>> \in DOMAIN d2 <=> n \in DOMAIN m2 /\ k \in DOMAIN m2[n]
      <4>1. <<n, k>> = at <=> n = ns /\ k = key BY DEF at
      <4>2. <<n, k>> \in DOMAIN db <=> n \in DOMAIN touched /\ k \in DOMAIN touched[n] BY <1>2 DEF Same
      <4> QED BY <1>1, <2>5, <2>6, <4>1, <4>2
    <3>3. ASSUME NEW n \in DOMAIN m2, NEW k \in DOMAIN m2[n] PROVE d2[<<n, k>>] = m2[n][k] /\ IsRecord(m2[n][k])
      <4>1. <<n, k>> = at <=> n = ns /\ k = key BY DEF at
      <4>2. CASE n = ns /\ k = key BY <2>3, <2>5, <2>6, <4>1, <4>2
      <4>3. CASE ~ (n = ns /\ k = key)
        <5>1. n \in DOMAIN touched /\ k \in DOMAIN touched[n] /\ m2[n][k] = touched[n][k] BY <2>5, <4>3
        <5>2. <<n, k>> \in DOMAIN db /\ db[<<n, k>>] = touched[n][k] /\ IsRecord(touched[n][k]) BY <1>2, <5>1 DEF Same
        <5> QED BY <2>6, <4>1, <4>3, <5>1, <5>2
      <4> QED BY <4>2, <4>3
    <3> QED BY <3>1, <3>2, <3>3 DEF Same
  <2> QED BY <2>4, <2>7
<1> HIDE DEF touched, record, row, at, w, v, ns, key
<1>6. CASE ns # "" /\ key # "" /\ Cloneable(op.value)
  <2>1. v = Done(Put(db, at, row)) BY <1>3, <1>6
  <2>2. w = Done([touched EXCEPT ![ns] = Put(@, key, record)]) BY <1>4, <1>6
  <2>3. w.threw = FALSE /\ v.threw = FALSE BY <2>1, <2>2 DEF Done
  <2> QED BY <1>5, <1>6, <2>3 DEF w, v
<1>7. CASE ~ (ns # "" /\ key # "" /\ Cloneable(op.value))
  <2>1. v = Threw(db) BY <1>3, <1>7
  <2>2. w = Threw(m) \/ w = Threw(touched) BY <1>4, <1>7
  <2>3. w.threw = TRUE /\ v.threw = TRUE /\ v.state = db /\ w.state \in {m, touched} BY <2>1, <2>2 DEF Threw
  <2>4. Same(w.state, v.state) BY <1>2, <2>3
  <2> QED BY <2>3, <2>4 DEF w, v
<1> QED BY <1>6, <1>7

\* So does delete(), but for the blank key that only the table refuses.
LEMMA DeleteSame ==
  ASSUME NEW m, NEW db, Same(m, db), NEW op
  PROVE  /\ RemoveMemoryRecord(m, op).threw = RemoveSqliteRecord(db, op).threw \/ NormalizeName(op.key) = ""
         /\ Same(RemoveMemoryRecord(m, op).state, RemoveSqliteRecord(db, op).state)
         /\ RemoveSqliteRecord(db, op).threw \in BOOLEAN
<1> DEFINE ns == NormalizeName(op.ns)
           key == NormalizeName(op.key)
           at == <<ns, key>>
           m2 == [m EXCEPT ![ns] = RestrictDomain(@, LAMBDA k : k # key)]
           d2 == RestrictDomain(db, LAMBDA r : r # at)
           w == RemoveMemoryRecord(m, op)
           v == RemoveSqliteRecord(db, op)
<1>1. v = IF ns = "" \/ key = "" THEN Threw(db) ELSE Done(d2) BY DEF RemoveSqliteRecord
<1>2. w = IF ns = "" THEN Threw(m) ELSE IF ns \notin DOMAIN m THEN Done(m)
          ELSE IF key = "" THEN Threw(m) ELSE Done(m2)
  BY DEF RemoveMemoryRecord
<1>3. /\ DOMAIN d2 = DOMAIN db \ {at}
      /\ \A x \in DOMAIN d2 : d2[x] = db[x]
  BY DEF RestrictDomain, Restrict
<1>4. ASSUME ns \in DOMAIN m PROVE Same(m2, d2)
  <2>1. /\ DOMAIN m2 = DOMAIN m
        /\ \A n \in DOMAIN m : n # ns => m2[n] = m[n]
        /\ DOMAIN m2[ns] = DOMAIN m[ns] \ {key}
        /\ \A k \in DOMAIN m2[ns] : m2[ns][k] = m[ns][k]
    BY <1>4 DEF RestrictDomain, Restrict
  <2>2. \A n, k : <<n, k>> = at <=> n = ns /\ k = key OBVIOUS
  <2> HIDE DEF m2, d2, at, ns, key
  <2> QED BY <1>3, <2>1, <2>2 DEF Same
<1>5. ASSUME ns \notin DOMAIN m PROVE Same(m, d2)
  <2>1. at \notin DOMAIN db BY <1>5 DEF Same
  <2> HIDE DEF d2, at
  <2> QED BY <1>3, <2>1 DEF Same
<1> HIDE DEF m2, d2, at, w, v, ns, key
<1>6. CASE ns = "" \/ key = ""
  <2>1. v.state = db /\ v.threw = TRUE BY <1>1, <1>6 DEF Threw
  <2>2. w.state = m /\ (ns = "" => w.threw = TRUE) BY <1>2, <1>6 DEF Threw, Done
  <2> QED BY <1>6, <2>1, <2>2 DEF w, v, key
<1>7. CASE ~ (ns = "" \/ key = "")
  <2>1. v.state = d2 /\ v.threw = FALSE BY <1>1, <1>7 DEF Done
  <2>2. w.threw = FALSE /\ w.state = IF ns \in DOMAIN m THEN m2 ELSE m BY <1>2, <1>7 DEF Done
  <2> QED BY <1>4, <1>5, <2>1, <2>2 DEF w, v
<1> QED BY <1>6, <1>7

\* So does deleteNamespace().
LEMMA DeleteNamespaceSame ==
  ASSUME NEW m, NEW db, Same(m, db), NEW op
  PROVE  /\ DeleteNamespace(m, op).threw = DeleteSqliteNamespace(db, op).threw
         /\ Same(DeleteNamespace(m, op).state, DeleteSqliteNamespace(db, op).state)
         /\ DeleteSqliteNamespace(db, op).threw \in BOOLEAN
<1> DEFINE ns == NormalizeName(op.ns)
           m2 == RestrictDomain(m, LAMBDA n : n # ns)
           d2 == RestrictDomain(db, LAMBDA r : r[1] # ns)
           w == DeleteNamespace(m, op)
           v == DeleteSqliteNamespace(db, op)
<1>1. v = (IF ns = "" THEN Threw(db) ELSE Done(d2)) /\ w = IF ns = "" THEN Threw(m) ELSE Done(m2)
  BY DEF DeleteNamespace, DeleteSqliteNamespace
<1>2. /\ DOMAIN m2 = DOMAIN m \ {ns} /\ \A n \in DOMAIN m2 : m2[n] = m[n]
      /\ DOMAIN d2 = {x \in DOMAIN db : x[1] # ns} /\ \A x \in DOMAIN d2 : d2[x] = db[x]
  BY DEF RestrictDomain, Restrict
<1> HIDE DEF m2, d2, w, v, ns
<1>3. Same(m2, d2)
  <2>1. \A n, k : <<n, k>>[1] = n OBVIOUS
  <2> QED BY <1>2, <2>1 DEF Same
<1>4. CASE ns = ""
  <2>1. v.state = db /\ v.threw = TRUE /\ w.state = m /\ w.threw = TRUE BY <1>1, <1>4 DEF Threw
  <2> QED BY <2>1 DEF w, v
<1>5. CASE ns # ""
  <2>1. v.state = d2 /\ v.threw = FALSE /\ w.state = m2 /\ w.threw = FALSE BY <1>1, <1>5 DEF Done
  <2> QED BY <1>3, <2>1 DEF w, v
<1> QED BY <1>4, <1>5

\* What restore() keeps of a namespace: the record of each of its keys.
RestoredOf(ns, entries) ==
  FoldLeft(LAMBDA f, e : IF e.ns = ns THEN Put(f, NormalizeName(e.key), e.record) ELSE f, <<>>, entries)

KeysOf(ns, entries) == {NormalizeName(entries[i].key) : i \in {j \in DOMAIN entries : entries[j].ns = ns}}
KeyOnce(i, entries) ==
  \A j \in DOMAIN entries : entries[j].ns = entries[i].ns /\ NormalizeName(entries[j].key) = NormalizeName(entries[i].key) => j = i

\* What restore() puts into a namespace in memory: the records of the snapshot's
\* entries for it, by their trimmed keys.
LEMMA RestoredNamespace ==
  ASSUME NEW ns, NEW entries, IsSeq(entries)
  PROVE  /\ DOMAIN RestoredOf(ns, entries) = KeysOf(ns, entries)
         /\ \A i \in DOMAIN entries : entries[i].ns = ns /\ KeyOnce(i, entries) =>
              RestoredOf(ns, entries)[NormalizeName(entries[i].key)] = entries[i].record
<1> DEFINE n == Len(entries)
           Key(i) == NormalizeName(entries[i].key)
           In(i) == entries[i].ns = ns
           Alone(i) == In(i) /\ \A j \in 1..n : In(j) /\ Key(j) = Key(i) => j = i
<1>0. n \in Nat /\ DOMAIN entries = 1..n BY DEF IsSeq
<1>1. RestoredOf(ns, entries) = RestoreFold!Fold(ns, <<>>, entries)
  BY DEF RestoredOf, RestoreFold!Fold, RestoreStep, FoldLeft, MapThenFoldSet,
         Max, RestoreFold!Max
<1>2a. PICK f : RestoreFold!Goes(ns, <<>>, entries, n, f) BY <1>0, RestoreFold!FoldIsRun
<1>2. /\ f[0] = <<>>
      /\ \A i \in 1..n : f[i] = RestoreStep(ns, f[i - 1], entries[i])
      /\ RestoreFold!Fold(ns, <<>>, entries) = f[n]
  BY <1>2a DEF RestoreFold!Goes
<1> DEFINE Right(k) == /\ DOMAIN f[k] = {Key(i) : i \in {j \in 1..k : In(j)}}
                       /\ \A i \in 1..k : Alone(i) => f[k][Key(i)] = entries[i].record
           T == {k \in Nat : k <= n => Right(k)}
<1> HIDE DEF Key, In
<1>3. 0 \in T BY <1>2
<1>4. ASSUME NEW k \in Nat, k \in T PROVE k + 1 \in T
  <2> SUFFICES ASSUME k + 1 <= n PROVE Right(k + 1) OBVIOUS
  <2>1. Right(k) BY <1>4, <1>0
  <2>2. f[k + 1] = IF In(k + 1) THEN Put(f[k], Key(k + 1), entries[k + 1].record) ELSE f[k]
    <3>1. k + 1 \in 1..n /\ k + 1 - 1 = k BY <1>0
    <3> QED BY <1>2, <3>1 DEF RestoreStep, In, Key
  <2>3. 1..(k + 1) = (1..k) \cup {k + 1} OBVIOUS
  <2>4. CASE In(k + 1)
    <3>1. DOMAIN f[k + 1] = DOMAIN f[k] \cup {Key(k + 1)} BY <2>2, <2>4 DEF Put
    <3>2. f[k + 1][Key(k + 1)] = entries[k + 1].record BY <2>2, <2>4 DEF Put
    <3>3. ASSUME NEW i \in 1..k, Alone(i) PROVE f[k + 1][Key(i)] = entries[i].record
      <4>1. Key(i) # Key(k + 1) BY <2>4, <3>3, <1>0
      <4>2. Key(i) \in DOMAIN f[k] BY <2>1, <3>3
      <4>3. f[k + 1][Key(i)] = f[k][Key(i)] BY <2>2, <2>4, <4>1, <4>2 DEF Put
      <4> QED BY <2>1, <3>3, <4>3
    <3>4. DOMAIN f[k + 1] = {Key(i) : i \in {j \in 1..(k + 1) : In(j)}} BY <2>1, <2>3, <2>4, <3>1
    <3> HIDE DEF Alone
    <3> QED BY <2>3, <3>2, <3>3, <3>4
  <2>5. CASE ~ In(k + 1)
    <3>1. f[k + 1] = f[k] BY <2>2, <2>5
    <3>2. DOMAIN f[k + 1] = {Key(i) : i \in {j \in 1..(k + 1) : In(j)}} BY <2>1, <2>3, <2>5, <3>1
    <3> QED BY <2>1, <2>3, <2>5, <3>1, <3>2
  <2> QED BY <2>4, <2>5
<1>5. Nat \subseteq T
  <2> HIDE DEF T
  <2> QED BY <1>3, <1>4, RestoreFold!Induction
<1>6. Right(n) BY <1>0, <1>5
<1>7. DOMAIN f[n] = KeysOf(ns, entries) BY <1>0, <1>6 DEF Key, In, KeysOf
<1>8. ASSUME NEW i \in DOMAIN entries, entries[i].ns = ns, KeyOnce(i, entries)
      PROVE  f[n][NormalizeName(entries[i].key)] = entries[i].record
  <2>1. Alone(i) BY <1>0, <1>8 DEF KeyOnce, Key, In
  <2> QED BY <1>0, <1>6, <2>1 DEF Key
<1> QED BY <1>1, <1>2, <1>7, <1>8

\* restore() leaves the storages the same, if names are trimmed.
LEMMA RestoreSame ==
  ASSUME NEW m, NEW db, Same(m, db), NEW op, op.op = "restore", IsSnapshot(op.entries), Alike(op)
  PROVE  /\ RestoreMemory(m, op).threw = RestoreSqlite(db, op).threw
         /\ Same(RestoreMemory(m, op).state, RestoreSqlite(db, op).state)
         /\ RestoreSqlite(db, op).threw \in BOOLEAN
<1> DEFINE entries == op.entries
           At(e) == <<NormalizeName(e.ns), NormalizeName(e.key)>>
           ats == {At(entries[i]) : i \in DOMAIN entries}
           m2 == [ns \in {entries[i].ns : i \in DOMAIN entries} |-> RestoredOf(ns, entries)]
           d2 == [at \in ats |-> entries[CHOOSE i \in DOMAIN entries : At(entries[i]) = at].record]
           blank == \E i \in DOMAIN entries : NormalizeName(entries[i].key) = ""
           w == RestoreMemory(m, op)
           v == RestoreSqlite(db, op)
<1>1. w = IF blank THEN Threw(m) ELSE Done(m2) BY DEF RestoreMemory, RestoredOf
<1>2. v = IF (\E i, j \in DOMAIN entries : i # j /\ At(entries[i]) = At(entries[j])) \/ \E at \in ats : at[1] = "" \/ at[2] = ""
          THEN Threw(db) ELSE Done(d2)
  BY DEF RestoreSqlite
<1>3. \A i \in DOMAIN entries : /\ NormalizeName(entries[i].ns) = entries[i].ns /\ entries[i].ns # ""
                                 /\ NormalizeName(entries[i].key) = entries[i].key
  BY DEF Alike
<1>4. \A i \in DOMAIN entries : At(entries[i]) = <<entries[i].ns, entries[i].key>> BY <1>3
<1>5. \A i, j \in DOMAIN entries : At(entries[i]) = At(entries[j]) => i = j BY <1>4 DEF IsSnapshot
<1> HIDE DEF At
<1>6. (\E at \in ats : at[1] = "" \/ at[2] = "") <=> blank
  <2>1. \A i \in DOMAIN entries : At(entries[i])[1] = entries[i].ns /\ At(entries[i])[2] = entries[i].key BY <1>4
  <2>2. (\E at \in ats : at[1] = "" \/ at[2] = "") <=> \E i \in DOMAIN entries : At(entries[i])[1] = "" \/ At(entries[i])[2] = "" OBVIOUS
  <2> QED BY <1>3, <2>1, <2>2
<1>7. v = IF blank THEN Threw(db) ELSE Done(d2) BY <1>2, <1>5, <1>6
<1>8. Same(m2, d2)
  <2>0. IsSeq(entries) /\ \A i \in DOMAIN entries : IsRecord(entries[i].record) BY DEF IsSnapshot
  <2>1. DOMAIN m2 = {entries[i].ns : i \in DOMAIN entries} /\ DOMAIN d2 = ats OBVIOUS
  <2>2. ASSUME NEW i \in DOMAIN entries PROVE d2[At(entries[i])] = entries[i].record
    <3>1. (CHOOSE j \in DOMAIN entries : At(entries[j]) = At(entries[i])) = i BY <1>5
    <3> QED BY <3>1
  <2>3. ASSUME NEW ns \in DOMAIN m2
        PROVE  /\ \A k : k \in DOMAIN m2[ns] <=> \E i \in DOMAIN entries : entries[i].ns = ns /\ entries[i].key = k
               /\ \A i \in DOMAIN entries : entries[i].ns = ns => m2[ns][entries[i].key] = entries[i].record
    <3>1. m2[ns] = RestoredOf(ns, entries) BY <2>1
    <3>2. DOMAIN RestoredOf(ns, entries) = KeysOf(ns, entries) BY <2>0, RestoredNamespace
    <3>3. ASSUME NEW i \in DOMAIN entries, entries[i].ns = ns
          PROVE  RestoredOf(ns, entries)[NormalizeName(entries[i].key)] = entries[i].record
      <4>1. KeyOnce(i, entries) BY <1>3 DEF IsSnapshot, KeyOnce
      <4> QED BY <2>0, <3>3, <4>1, RestoredNamespace
    <3> HIDE DEF m2
    <3>4. KeysOf(ns, entries) = {entries[i].key : i \in {j \in DOMAIN entries : entries[j].ns = ns}} BY <1>3 DEF KeysOf
    <3>5. \A k : k \in KeysOf(ns, entries) <=> \E i \in DOMAIN entries : entries[i].ns = ns /\ entries[i].key = k BY <3>4
    <3> QED BY <1>3, <3>1, <3>2, <3>3, <3>5
  <2> HIDE DEF m2, d2
  <2>4. \A at \in DOMAIN d2 : at = <<at[1], at[2]>> BY <1>4, <2>1
  <2>5. ASSUME NEW ns, NEW k PROVE <<ns, k>> \in DOMAIN d2 <=> ns \in DOMAIN m2 /\ k \in DOMAIN m2[ns]
    <3>1. <<ns, k>> \in ats <=> \E i \in DOMAIN entries : entries[i].ns = ns /\ entries[i].key = k BY <1>4
    <3>2. ns \in DOMAIN m2 <=> \E i \in DOMAIN entries : entries[i].ns = ns BY <2>1
    <3>3. ns \in DOMAIN m2 => (k \in DOMAIN m2[ns] <=> \E i \in DOMAIN entries : entries[i].ns = ns /\ entries[i].key = k) BY <2>3
    <3> QED BY <2>1, <3>1, <3>2, <3>3
  <2>6. ASSUME NEW ns \in DOMAIN m2, NEW k \in DOMAIN m2[ns] PROVE d2[<<ns, k>>] = m2[ns][k] /\ IsRecord(m2[ns][k])
    <3>1. PICK i \in DOMAIN entries : entries[i].ns = ns /\ entries[i].key = k BY <2>3
    <3> QED BY <1>4, <2>0, <2>2, <2>3, <3>1
  <2> QED BY <2>4, <2>5, <2>6 DEF Same
<1> HIDE DEF m2, d2, w, v, blank
<1>9. CASE blank
  <2>1. v.state = db /\ v.threw = TRUE /\ w.state = m /\ w.threw = TRUE BY <1>1, <1>7, <1>9 DEF Threw
  <2> QED BY <2>1 DEF w, v
<1>10. CASE ~ blank
  <2>1. v.state = d2 /\ v.threw = FALSE /\ w.state = m2 /\ w.threw = FALSE BY <1>1, <1>7, <1>10 DEF Done
  <2> QED BY <1>8, <2>1 DEF w, v
<1> QED BY <1>9, <1>10

\* Each operation outside of a transaction leaves them the same.
LEMMA SimpleSame ==
  ASSUME NEW m, NEW db, Same(m, db), NEW op, IsSimple(op), Alike(op), NEW time
  PROVE  /\ OnMemoryRecords(m, op, time).threw = OnSqliteRecords(db, op, time).threw \/ DeletesBlank(op)
         /\ Same(OnMemoryRecords(m, op, time).state, OnSqliteRecords(db, op, time).state)
         /\ OnSqliteRecords(db, op, time).threw \in BOOLEAN
<1>1. CASE op.op = "set" BY <1>1, SetSame DEF OnMemoryRecords, OnSqliteRecords
<1>2. CASE op.op = "delete"
  <2>1. OnMemoryRecords(m, op, time) = RemoveMemoryRecord(m, op) /\ OnSqliteRecords(db, op, time) = RemoveSqliteRecord(db, op)
    BY <1>2 DEF OnMemoryRecords, OnSqliteRecords
  <2>2. DeletesBlank(op) <=> NormalizeName(op.key) = "" BY <1>2 DEF DeletesBlank
  <2> DEFINE w == RemoveMemoryRecord(m, op)
             v == RemoveSqliteRecord(db, op)
  <2>3. (w.threw = v.threw \/ NormalizeName(op.key) = "") /\ Same(w.state, v.state) /\ v.threw \in BOOLEAN BY DeleteSame
  <2> HIDE DEF w, v
  <2>4. OnMemoryRecords(m, op, time) = w /\ OnSqliteRecords(db, op, time) = v BY <2>1 DEF w, v
  <2> QED BY <2>2, <2>3, <2>4
<1>3. CASE op.op = "deleteNamespace" BY <1>3, DeleteNamespaceSame DEF OnMemoryRecords, OnSqliteRecords
<1>4. CASE op.op = "clear"
  <2>1. Same(<<>>, <<>>) BY DEF Same
  <2> QED BY <1>4, <2>1 DEF OnMemoryRecords, OnSqliteRecords, Done
<1>5. CASE op.op = "restore" BY <1>5, RestoreSame DEF OnMemoryRecords, OnSqliteRecords, IsSimple
<1> QED BY <1>1, <1>2, <1>3, <1>4, <1>5 DEF IsSimple

Accumulated(m, d, t) == [outer |-> m, draft |-> d, threw |-> t]
WriteDraft(acc, x, y) == [acc EXCEPT !["draft"] = x, !.threw = y]
\* An operation on the draft leaves what is past it as it is.
LEMMA DraftWritten ==
  ASSUME NEW m, NEW d, NEW t, NEW x, NEW y
  PROVE  WriteDraft(Accumulated(m, d, t), x, y) = Accumulated(m, x, y)
<1> DEFINE q == [Accumulated(m, d, t) EXCEPT !["draft"] = x, !.threw = y]
<1>1. Accumulated(m, d, t) \in [outer : {m}, draft : {d}, threw : {t}] BY DEF Accumulated
<1>2. q \in [outer : {m}, draft : {x}, threw : {y}] BY <1>1
<1> HIDE DEF q
<1>3. q = [outer |-> m, draft |-> x, threw |-> y] BY <1>2
<1> QED BY <1>3 DEF q, Accumulated, WriteDraft

\* A transaction leaves them the same: draft and table go through its body alike,
\* stop at the same operation, and are given up for the same end.
LEMMA TransactionSame ==
  ASSUME NEW m, NEW db, Same(m, db), NEW op, op.op = "transaction", IsOperation(op), Alike(op), NEW time
  PROVE  /\ OnMemory(m, op, time).threw = OnSqlite(db, op, time).threw
         /\ Same(OnMemory(m, op, time).state, OnSqlite(db, op, time).state)
         /\ OnSqlite(db, op, time).threw \in BOOLEAN
<1> DEFINE body == op.body
           n == Len(body)
           end == Body(OnMemoryRecords, op, Accumulated(m, m, FALSE), time)
           stop == TableFold!Fold(time, Done(db), body)
<1>0. n \in Nat /\ DOMAIN body = 1..n /\ \A i \in 1..n : IsSimple(body[i]) BY DEF IsOperation, IsSeq
<1>1. \A i \in 1..n : body[i].on = "draft" /\ body[i].op # "restore" /\ ~ DeletesBlank(body[i])
  BY <1>0 DEF Alike
<1>2. end = DraftFold!Fold(time, Accumulated(m, m, FALSE), body)
  BY DEF Body, DraftFold!Fold, DraftStep, FoldLeft, MapThenFoldSet, Max, DraftFold!Max
<1>3. RunSqliteTransaction(db, op, time) = IF stop.threw \/ op.ends # "return" THEN Threw(db) ELSE Done(stop.state)
  BY DEF RunSqliteTransaction, TableFold!Fold, TableStep, FoldLeft, MapThenFoldSet,
         Max, TableFold!Max
<1>00. n \in Nat /\ DOMAIN body = 1..n BY <1>0
<1> HIDE DEF body, n
<1>4a. PICK f : DraftFold!Goes(time, Accumulated(m, m, FALSE), body, n, f) BY <1>00, DraftFold!FoldIsRun
<1>4. /\ f[0] = Accumulated(m, m, FALSE)
      /\ \A i \in 1..n : f[i] = DraftStep(time, f[i - 1], body[i])
      /\ DraftFold!Fold(time, Accumulated(m, m, FALSE), body) = f[n]
  BY <1>4a DEF DraftFold!Goes
<1>5a. PICK g : TableFold!Goes(time, Done(db), body, n, g) BY <1>00, TableFold!FoldIsRun
<1>5. /\ g[0] = Done(db)
      /\ \A i \in 1..n : g[i] = TableStep(time, g[i - 1], body[i])
      /\ stop = g[n]
  BY <1>5a DEF TableFold!Goes
<1> DEFINE Right(k) == \E d, t : f[k] = Accumulated(m, d, t) /\ g[k].threw = t /\ t \in BOOLEAN /\ Same(d, g[k].state)
           T == {k \in Nat : k <= n => Right(k)}
<1>6. 0 \in T
  <2>1. g[0].threw = FALSE /\ g[0].state = db BY <1>5 DEF Done
  <2> QED BY <1>4, <2>1
<1>7. ASSUME NEW k \in Nat, k \in T PROVE k + 1 \in T
  <2> SUFFICES ASSUME k + 1 <= n PROVE Right(k + 1) OBVIOUS
  <2>1. PICK d, t : f[k] = Accumulated(m, d, t) /\ g[k].threw = t /\ t \in BOOLEAN /\ Same(d, g[k].state) BY <1>0, <1>7
  <2> DEFINE b == body[k + 1]
             r == OnMemoryRecords(d, b, time)
             q == OnSqliteRecords(g[k].state, b, time)
  <2>2. k + 1 \in 1..n /\ k + 1 - 1 = k BY <1>0
  <2>3. f[k + 1] = DraftStep(time, f[k], b) /\ g[k + 1] = TableStep(time, g[k], b) BY <1>4, <1>5, <2>2
  <2>4. b.on = "draft" /\ IsSimple(b) /\ Alike(b) /\ ~ DeletesBlank(b) BY <1>0, <1>1, <2>2 DEF Alike, IsSimple
  <2> HIDE DEF b
  <2>5. CASE t
    <3>1. f[k].threw = t BY <2>1 DEF Accumulated
    <3> QED BY <2>1, <2>3, <2>5, <3>1 DEF DraftStep, TableStep
  <2>6. CASE ~ t
    <3>1. f[k].threw = FALSE /\ f[k]["draft"] = d BY <2>1, <2>6 DEF Accumulated
    <3>2. f[k + 1] = WriteDraft(f[k], r.state, r.threw) BY <2>3, <2>4, <3>1 DEF DraftStep, WriteDraft
    <3>3. g[k + 1] = q BY <2>1, <2>3, <2>6 DEF TableStep
    <3>4. r.threw = q.threw /\ Same(r.state, q.state) /\ q.threw \in BOOLEAN BY <2>1, <2>4, SimpleSame
    <3> HIDE DEF r, q
    <3>5. f[k + 1] = WriteDraft(Accumulated(m, d, t), r.state, r.threw) BY <2>1, <3>2
    <3>6. f[k + 1] = Accumulated(m, r.state, r.threw) BY <3>5, DraftWritten
    <3> QED BY <3>3, <3>4, <3>6
  <2> QED BY <2>1, <2>5, <2>6
<1>8. Nat \subseteq T
  <2> HIDE DEF T
  <2> QED BY <1>6, <1>7, DraftFold!Induction
<1>9. PICK d, t : end = Accumulated(m, d, t) /\ stop.threw = t /\ t \in BOOLEAN /\ Same(d, stop.state)
  <2>1. Right(n) BY <1>0, <1>8
  <2> HIDE DEF stop, end
  <2> QED BY <1>2, <1>4, <1>5, <2>1
<1>10. OnSqlite(db, op, time) = IF stop.threw \/ op.ends # "return" THEN Threw(db) ELSE Done(stop.state)
  <2>1. ~ \E i \in DOMAIN op.body : op.body[i].op = "restore" BY <1>0, <1>1 DEF body
  <2> QED BY <1>3, <2>1 DEF OnSqlite
<1>11. OnMemory(m, op, time) = IF end.threw \/ op.ends # "return" THEN Threw(end.outer) ELSE Done(end.draft)
  BY DEF OnMemory, TransactionInMemory, Accumulated
<1>12. end.threw = t /\ end.outer = m /\ end.draft = d BY <1>9 DEF Accumulated
<1> HIDE DEF end, stop
<1>13. CASE t \/ op.ends # "return"
  <2>1. OnSqlite(db, op, time) = Threw(db) /\ OnMemory(m, op, time) = Threw(m) BY <1>9, <1>10, <1>11, <1>12, <1>13
  <2> QED BY <2>1 DEF Threw
<1>14. CASE ~ (t \/ op.ends # "return")
  <2>1. OnSqlite(db, op, time) = Done(stop.state) /\ OnMemory(m, op, time) = Done(d) BY <1>9, <1>10, <1>11, <1>12, <1>14
  <2> QED BY <1>9, <2>1 DEF Done
<1> QED BY <1>13, <1>14

\* Each operation leaves them the same, and both refuse it or neither.
LEMMA OperationSame ==
  ASSUME NEW m, NEW db, Same(m, db), NEW op, IsOperation(op), Alike(op), NEW time
  PROVE  /\ OnMemory(m, op, time).threw = OnSqlite(db, op, time).threw \/ DeletesBlank(op)
         /\ Same(OnMemory(m, op, time).state, OnSqlite(db, op, time).state)
         /\ OnSqlite(db, op, time).threw \in BOOLEAN
<1>1. CASE op.op = "transaction" BY <1>1, TransactionSame
<1>2. CASE op.op # "transaction"
  <2>1. OnMemory(m, op, time) = OnMemoryRecords(m, op, time) /\ OnSqlite(db, op, time) = OnSqliteRecords(db, op, time)
    BY <1>2 DEF OnMemory, OnSqlite
  <2>2. IsSimple(op) BY <1>2 DEF IsOperation
  <2> QED BY <2>1, <2>2, SimpleSame
<1> QED BY <1>1, <1>2

\* What the table refuses leaves it as it was.
LEMMA SqliteUndoes ==
  ASSUME NEW db, NEW op, IsOperation(op), NEW time
  PROVE  /\ OnSqlite(db, op, time).threw => OnSqlite(db, op, time).state = db
         /\ DeletesBlank(op) => OnSqlite(db, op, time).threw
<1> DEFINE v == OnSqlite(db, op, time)
           Undoes(r) == r = Threw(db) \/ \E d : r = Done(d)
<1>0. \A r : Undoes(r) => (r.threw => r.state = db) BY DEF Threw, Done
<1>1. CASE op.op = "transaction"
  <2>1. Undoes(v) BY <1>1 DEF OnSqlite, RunSqliteTransaction
  <2>2. ~ DeletesBlank(op) BY <1>1 DEF DeletesBlank
  <2> QED BY <1>0, <2>1, <2>2
<1>2. CASE op.op # "transaction"
  <2>1. v = OnSqliteRecords(db, op, time) BY <1>2 DEF OnSqlite
  <2>2. op.op \in {"set", "delete", "deleteNamespace", "clear", "restore"} BY <1>2 DEF IsOperation, IsSimple
  <2>3. Undoes(v)
    <3>1. CASE op.op = "set" BY <2>1, <3>1 DEF OnSqliteRecords, WriteSqliteRecord
    <3>2. CASE op.op = "delete" BY <2>1, <3>2 DEF OnSqliteRecords, RemoveSqliteRecord
    <3>3. CASE op.op = "deleteNamespace" BY <2>1, <3>3 DEF OnSqliteRecords, DeleteSqliteNamespace
    <3>4. CASE op.op = "clear" BY <2>1, <3>4 DEF OnSqliteRecords
    <3>5. CASE op.op = "restore" BY <2>1, <3>5 DEF OnSqliteRecords, RestoreSqlite
    <3> QED BY <2>2, <3>1, <3>2, <3>3, <3>4, <3>5
  <2>4. ASSUME DeletesBlank(op) PROVE v = Threw(db)
    <3>1. op.op = "delete" /\ NormalizeName(op.key) = "" BY <2>4 DEF DeletesBlank
    <3>2. v = RemoveSqliteRecord(db, op) BY <2>1, <3>1 DEF OnSqliteRecords
    <3> QED BY <3>1, <3>2 DEF RemoveSqliteRecord
  <2>5. Threw(db).threw = TRUE BY DEF Threw
  <2> QED BY <1>0, <2>3, <2>4, <2>5
<1> QED BY <1>1, <1>2

\* After any operations that both take alike, the storages are the same.
LEMMA StoragesSame ==
  ASSUME NEW ops, IsSeq(ops), \A i \in DOMAIN ops : IsOperation(ops[i]) /\ Alike(ops[i])
  PROVE  Same(Run(OnMemory, <<>>, ops), Run(OnSqlite, <<>>, ops))
<1> DEFINE n == Len(ops)
           at == Indices(ops)
<1>0. n \in Nat /\ DOMAIN ops = 1..n BY DEF IsSeq
<1>1. DOMAIN at = 1..n /\ \A i \in 1..n : at[i] = i BY <1>0 DEF Indices
<1>2. Run(OnMemory, <<>>, ops) = MemoryFold!Fold(ops, <<>>, at)
  BY DEF Run, FoldLeftDomain, MemoryFold!Fold, MemoryStep, FoldLeft, MapThenFoldSet,
         Max, MemoryFold!Max, Indices
<1>3. Run(OnSqlite, <<>>, ops) = SqliteFold!Fold(ops, <<>>, at)
  BY DEF Run, FoldLeftDomain, SqliteFold!Fold, SqliteStep, FoldLeft, MapThenFoldSet,
         Max, SqliteFold!Max, Indices
<1> HIDE DEF at, n
<1>4. PICK f : MemoryFold!Goes(ops, <<>>, at, n, f) BY <1>0, <1>1, MemoryFold!FoldIsRun
<1>5. PICK g : SqliteFold!Goes(ops, <<>>, at, n, g) BY <1>0, <1>1, SqliteFold!FoldIsRun
<1>6. /\ f[0] = <<>> /\ g[0] = <<>>
      /\ \A i \in 1..n : f[i] = MemoryStep(ops, f[i - 1], at[i]) /\ g[i] = SqliteStep(ops, g[i - 1], at[i])
      /\ Run(OnMemory, <<>>, ops) = f[n] /\ Run(OnSqlite, <<>>, ops) = g[n]
  BY <1>2, <1>3, <1>4, <1>5 DEF MemoryFold!Goes, SqliteFold!Goes
<1> DEFINE T == {k \in Nat : k <= n => Same(f[k], g[k])}
<1>7. 0 \in T BY <1>6 DEF Same
<1>8. ASSUME NEW k \in Nat, k \in T PROVE k + 1 \in T
  <2> SUFFICES ASSUME k + 1 <= n PROVE Same(f[k + 1], g[k + 1]) OBVIOUS
  <2>1. Same(f[k], g[k]) BY <1>0, <1>8
  <2>2. k + 1 \in 1..n /\ k + 1 - 1 = k BY <1>0
  <2>3. f[k + 1] = OnMemory(f[k], ops[k + 1], k + 1).state /\ g[k + 1] = OnSqlite(g[k], ops[k + 1], k + 1).state
    BY <1>1, <1>6, <2>2 DEF MemoryStep, SqliteStep
  <2>4. IsOperation(ops[k + 1]) /\ Alike(ops[k + 1]) BY <1>0, <2>2
  <2> QED BY <2>1, <2>3, <2>4, OperationSame
<1>9. Nat \subseteq T
  <2> HIDE DEF T
  <2> QED BY <1>7, <1>8, MemoryFold!Induction
<1> QED BY <1>0, <1>6, <1>9

\* The storages in memory and on SQLite keep the same records and refuse the same,
\* whatever is done to both.
THEOREM StoragesAlwaysAgree ==
  ASSUME NEW ops, IsSeq(ops), \A i \in DOMAIN ops : IsOperation(ops[i]),
         NEW last, IsOperation(last)
  PROVE  StoragesAgree(ops, last)
<1> DEFINE m  == Run(OnMemory, <<>>, ops)
           db == Run(OnSqlite, <<>>, ops)
           time == Len(ops) + 1
           m2 == OnMemory(m, last, time)
           db2 == OnSqlite(db, last, time)
<1> SUFFICES ASSUME \A i \in DOMAIN ops : Alike(ops[i])
             PROVE  /\ Rows(m) = {<<at, db[at]>> : at \in DOMAIN db}
                    /\ Alike(last) => m2.threw = db2.threw \/ DeletesBlank(last)
                    /\ db2.threw => db2.state = db
                    /\ m2.threw /\ Alike(last) => Rows(m2.state) = Rows(m)
  BY DEF StoragesAgree
<1>1. Same(m, db) BY StoragesSame
<1> HIDE DEF m, db, time
<1>2. Rows(m) = {<<at, db[at]>> : at \in DOMAIN db} BY <1>1, SameRows
<1>3. (db2.threw => db2.state = db) /\ (DeletesBlank(last) => db2.threw) BY SqliteUndoes
<1>4. ASSUME Alike(last)
      PROVE  /\ m2.threw = db2.threw \/ DeletesBlank(last)
             /\ Same(m2.state, db2.state) /\ db2.threw \in BOOLEAN
  BY <1>1, <1>4, OperationSame
<1> HIDE DEF m2, db2
<1>5. ASSUME m2.threw, Alike(last) PROVE Rows(m2.state) = Rows(m)
  <2>1. db2.state = db BY <1>3, <1>4, <1>5
  <2>2. Same(m2.state, db) BY <1>4, <1>5, <2>1
  <2> QED BY <1>2, <2>2, SameRows
<1> QED BY <1>2, <1>3, <1>4, <1>5

(***************************************************************************)
(* The messages                                                            *)
(***************************************************************************)
MessageStep(ops, box, i) == OnMessages(box, ops[i], i).state
MessageFold == INSTANCE Folding WITH Op <- MessageStep

\* A strict order of the members of S.
Orders(before, S) ==
  /\ \A x \in S : <<x, x>> \notin before
  /\ \A x, y, z \in S : <<x, y>> \in before /\ <<y, z>> \in before => <<x, z>> \in before
InOrder(s, S, before) ==
  /\ s \in [1..Cardinality(S) -> S]
  /\ ToSet(s) = S
  /\ \A i, j \in DOMAIN s : <<s[i], s[j]>> \in before => i < j

\* A finite set with a strict order has a member before no other.
LEMMA SomeLast ==
  ASSUME NEW S, IsFiniteSet(S), S # {}, NEW before, Orders(before, S)
  PROVE  \E m \in S : \A x \in S : <<m, x>> \notin before
<1> DEFINE Ends(U) == \E m \in U : \A x \in U : <<m, x>> \notin before
           T == {n \in Nat : \A U \in SUBSET S : Cardinality(U) = n + 1 => Ends(U)}
<1>1. 0 \in T
  <2> SUFFICES ASSUME NEW U \in SUBSET S, Cardinality(U) = 1 PROVE Ends(U) OBVIOUS
  <2>1. IsFiniteSet(U) BY FS_Subset
  <2>2. PICK x : U = {x} BY <2>1, FS_Singleton
  <2> QED BY <2>2 DEF Orders
<1>2. ASSUME NEW n \in Nat, n \in T PROVE n + 1 \in T
  <2> SUFFICES ASSUME NEW U \in SUBSET S, Cardinality(U) = n + 1 + 1 PROVE Ends(U) OBVIOUS
  <2>1. IsFiniteSet(U) BY FS_Subset
  <2>2. PICK x \in U : TRUE BY <2>1, FS_EmptySet
  <2>3. Cardinality(U \ {x}) = n + 1 BY <2>1, <2>2, FS_RemoveElement
  <2>4. U \ {x} \in SUBSET S OBVIOUS
  <2>5. PICK m \in U \ {x} : \A y \in U \ {x} : <<m, y>> \notin before BY <1>2, <2>3, <2>4
  <2>6. CASE <<m, x>> \in before
    <3>1. ASSUME NEW y \in U, <<x, y>> \in before PROVE FALSE
      <4>1. y # x BY <3>1 DEF Orders
      <4>2. <<m, y>> \in before BY <2>2, <2>5, <2>6, <3>1 DEF Orders
      <4> QED BY <2>5, <4>1, <4>2
    <3> QED BY <2>2, <3>1
  <2>7. CASE <<m, x>> \notin before BY <2>5, <2>7
  <2> QED BY <2>6, <2>7
<1>3. Nat \subseteq T
  <2> HIDE DEF T
  <2> QED BY <1>1, <1>2, MessageFold!Induction
<1>4. Cardinality(S) \in Nat /\ Cardinality(S) # 0 BY FS_CardinalityType, FS_EmptySet
<1>5. Cardinality(S) - 1 \in T BY <1>3, <1>4
<1> QED BY <1>4, <1>5

\* So its members can be put in order.
LEMMA SomeOrder ==
  ASSUME NEW S, IsFiniteSet(S), NEW before, Orders(before, S)
  PROVE  \E s : InOrder(s, S, before)
<1> DEFINE T == {n \in Nat : \A U \in SUBSET S : Cardinality(U) = n => \E s : InOrder(s, U, before)}
<1>1. 0 \in T
  <2> SUFFICES ASSUME NEW U \in SUBSET S, Cardinality(U) = 0 PROVE \E s : InOrder(s, U, before) OBVIOUS
  <2>1. IsFiniteSet(U) BY FS_Subset
  <2>2. U = {} BY <2>1, FS_EmptySet
  <2>3. 1..0 = {} OBVIOUS
  <2> DEFINE s == [i \in 1..0 |-> i]
  <2>4. s \in [1..Cardinality(U) -> U] /\ DOMAIN s = {} BY <2>3
  <2>5. ToSet(s) = {} BY <2>4 DEF ToSet
  <2> HIDE DEF s
  <2> QED BY <2>2, <2>4, <2>5 DEF InOrder
<1>2. ASSUME NEW n \in Nat, n \in T PROVE n + 1 \in T
  <2> SUFFICES ASSUME NEW U \in SUBSET S, Cardinality(U) = n + 1 PROVE \E s : InOrder(s, U, before) OBVIOUS
  <2>1. IsFiniteSet(U) BY FS_Subset
  <2>2. U # {} BY <2>1, FS_EmptySet
  <2>3. Orders(before, U) BY DEF Orders
  <2>4. PICK m \in U : \A x \in U : <<m, x>> \notin before BY <2>1, <2>2, <2>3, SomeLast
  <2> DEFINE R == U \ {m}
  <2>5. Cardinality(R) = n
    <3>1. Cardinality(U \ {m}) = Cardinality(U) - 1 BY <2>1, <2>4, FS_RemoveElement
    <3> QED BY <3>1
  <2>6. R \in SUBSET S OBVIOUS
  <2>7. PICK r : InOrder(r, R, before) BY <1>2, <2>5, <2>6
  <2>8. r \in [1..n -> R] /\ DOMAIN r = 1..n BY <2>5, <2>7 DEF InOrder
  <2> DEFINE s == [i \in 1..(n + 1) |-> IF i = n + 1 THEN m ELSE r[i]]
  <2>9. s \in [1..(n + 1) -> U] BY <2>4, <2>8
  <2>10. DOMAIN s = 1..(n + 1) /\ s[n + 1] = m /\ \A i \in 1..n : s[i] = r[i] OBVIOUS
  <2> HIDE DEF s
  <2>11. ToSet(s) = U
    <3>1. ToSet(r) = R BY <2>7 DEF InOrder
    <3>2. ASSUME NEW x \in U PROVE \E i \in 1..(n + 1) : s[i] = x
      <4>1. CASE x = m BY <2>10, <4>1
      <4>2. CASE x # m
        <5>1. x \in ToSet(r) BY <3>1, <4>2
        <5>2. PICK i \in 1..n : r[i] = x BY <2>8, <5>1 DEF ToSet
        <5> QED BY <2>10, <5>2
      <4> QED BY <4>1, <4>2
    <3>3. \A i \in 1..(n + 1) : s[i] \in U BY <2>9
    <3> QED BY <2>10, <3>2, <3>3 DEF ToSet
  <2>12. ASSUME NEW i \in 1..(n + 1), NEW j \in 1..(n + 1), <<s[i], s[j]>> \in before PROVE i < j
    <3>1. i # n + 1 BY <2>3, <2>4, <2>9, <2>10, <2>12
    <3>2. CASE j = n + 1 BY <3>1, <3>2
    <3>3. CASE j # n + 1
      <4>1. i \in 1..n /\ j \in 1..n BY <3>1, <3>3
      <4>2. <<r[i], r[j]>> \in before BY <2>10, <2>12, <4>1
      <4> QED BY <2>7, <2>8, <4>1, <4>2 DEF InOrder
    <3> QED BY <3>2, <3>3
  <2>13. InOrder(s, U, before) BY <2>9, <2>10, <2>11, <2>12 DEF InOrder
  <2> QED BY <2>13
<1>3. Nat \subseteq T
  <2> HIDE DEF T
  <2> QED BY <1>1, <1>2, MessageFold!Induction
<1>4. Cardinality(S) \in Nat BY FS_CardinalityType
<1> QED BY <1>3, <1>4

\* Sorted does.
LEMMA SortedInOrder ==
  ASSUME NEW S, IsFiniteSet(S), NEW before, Orders(before, S)
  PROVE  InOrder(Sorted(S, before), S, before)
<1>1. PICK s : InOrder(s, S, before) BY SomeOrder
<1>2. \E t \in [1..Cardinality(S) -> S] : ToSet(t) = S /\ \A i, j \in DOMAIN t : <<t[i], t[j]>> \in before => i < j
  BY <1>1 DEF InOrder
<1> QED BY <1>2 DEF Sorted, InOrder

\* The box after k operations holds the sends that were taken and not cleared.
KeptOf(ops, taken, k) == {i \in taken : ~ Cleared(ops, i, k)}
Message(ops, i, k, b) ==
  /\ {"from", "to", "thread", "words", "at"} \subseteq DOMAIN b
  /\ b.from = ops[i].from /\ b.to = ops[i].to /\ b.words = ops[i].words /\ b.at = i
  /\ b.thread = Field(ops[i], "thread", DefaultThreadId(ops[i].from, ops[i].to))
  /\ "readAt" \in DOMAIN b <=> \E n \in (i + 1)..k : ops[n].op = "read" /\ ops[n].id = ops[i].id
Holds(ops, taken, k, box) ==
  /\ taken \in SUBSET (1..k)
  /\ \A i \in 1..k : i \in taken <=> TakesSend(ops, taken, i)
  /\ IsFiniteSet(DOMAIN box)
  /\ DOMAIN box = {ops[i].id : i \in KeptOf(ops, taken, k)}
  /\ \A i, j \in KeptOf(ops, taken, k) : ops[i].id = ops[j].id => i = j
  /\ \A i \in KeptOf(ops, taken, k) : Message(ops, i, k, box[ops[i].id])

\* What the next operation clears.
LEMMA ClearedNext ==
  ASSUME NEW ops, NEW k \in Nat, NEW i \in 1..k
  PROVE  Cleared(ops, i, k + 1) <=> \/ Cleared(ops, i, k)
                                   \/ /\ ops[k + 1].op = "clear"
                                      /\ "agent" \in DOMAIN ops[k + 1] => ops[k + 1].agent \in {ops[i].from, ops[i].to}
<1>1. (i + 1)..(k + 1) = ((i + 1)..k) \cup {k + 1} OBVIOUS
<1> QED BY <1>1 DEF Cleared

\* A message stays as it was sent when the next operation leaves it, but for being read.
LEMMA ReadNext ==
  ASSUME NEW ops, NEW k \in Nat, NEW i \in 1..k, NEW b, NEW b2,
         Message(ops, i, k, b), b2.from = b.from, b2.to = b.to, b2.words = b.words, b2.at = b.at, b2.thread = b.thread,
         DOMAIN b \subseteq DOMAIN b2,
         "readAt" \in DOMAIN b2 <=> ("readAt" \in DOMAIN b \/ (ops[k + 1].op = "read" /\ ops[k + 1].id = ops[i].id))
  PROVE  Message(ops, i, k + 1, b2)
<1> DEFINE Read(n) == ops[n].op = "read" /\ ops[n].id = ops[i].id
<1>1. (i + 1)..(k + 1) = ((i + 1)..k) \cup {k + 1} OBVIOUS
<1>2. "readAt" \in DOMAIN b <=> \E n \in (i + 1)..k : Read(n) BY DEF Message
<1>3. "readAt" \in DOMAIN b2 <=> ("readAt" \in DOMAIN b \/ Read(k + 1)) OBVIOUS
<1>4. "readAt" \in DOMAIN b2 <=> \E n \in (i + 1)..(k + 1) : Read(n)
  <2> HIDE DEF Read
  <2> QED BY <1>1, <1>2, <1>3
<1>5. b.from = ops[i].from /\ b.to = ops[i].to /\ b.words = ops[i].words /\ b.at = i
        /\ b.thread = Field(ops[i], "thread", DefaultThreadId(ops[i].from, ops[i].to))
        /\ {"from", "to", "thread", "words", "at"} \subseteq DOMAIN b2
  BY DEF Message
<1> QED BY <1>4, <1>5 DEF Message

\* It stays as it is when the next operation reads nothing.
LEMMA MessageStays ==
  ASSUME NEW ops, NEW k \in Nat, NEW i \in 1..k, NEW b, Message(ops, i, k, b), ops[k + 1].op # "read"
  PROVE  Message(ops, i, k + 1, b)
<1>1. "readAt" \in DOMAIN b <=> ("readAt" \in DOMAIN b \/ (ops[k + 1].op = "read" /\ ops[k + 1].id = ops[i].id)) OBVIOUS
<1> QED BY <1>1, ReadNext

\* A send that is taken adds its message, one that is refused changes nothing.
LEMMA SendHolds ==
  ASSUME NEW ops, NEW k \in Nat, NEW taken, NEW box, Holds(ops, taken, k, box), ops[k + 1].op = "send"
  PROVE  \E more : Holds(ops, more, k + 1, OnMessages(box, ops[k + 1], k + 1).state)
<1> DEFINE op == ops[k + 1]
           msg == [from |-> op.from, to |-> op.to, thread |-> Field(op, "thread", DefaultThreadId(op.from, op.to)),
                   words |-> op.words, at |-> k + 1]
           box2 == OnMessages(box, op, k + 1).state
           kept == KeptOf(ops, taken, k)
<1>1. box2 = IF op.id \in DOMAIN box THEN box ELSE Put(box, op.id, msg) BY DEF OnMessages, SendMessage, Threw, Done
<1>2. taken \in SUBSET (1..k) /\ kept \in SUBSET (1..k) BY DEF Holds, KeptOf
<1>3. \A i \in 1..k : Cleared(ops, i, k + 1) <=> Cleared(ops, i, k) BY ClearedNext
<1>4. KeptOf(ops, taken, k + 1) = kept BY <1>2, <1>3 DEF KeptOf
<1>5. \A i \in 1..k : TakesSend(ops, taken \cup {k + 1}, i) <=> TakesSend(ops, taken, i) BY DEF TakesSend
<1>6. 1..(k + 1) = (1..k) \cup {k + 1} OBVIOUS
<1> HIDE DEF msg, kept, box2
<1>7. CASE op.id \in DOMAIN box
  <2>1. PICK j \in kept : ops[j].id = op.id BY <1>7 DEF Holds, kept
  <2>2. j \in taken /\ j \in 1..k /\ ~ Cleared(ops, j, k + 1) BY <1>2, <1>3, <2>1 DEF KeptOf, kept
  <2>3. ~ TakesSend(ops, taken, k + 1) /\ k + 1 \notin taken BY <1>2, <2>1, <2>2 DEF TakesSend
  <2>4. ASSUME NEW i \in kept PROVE Message(ops, i, k + 1, box[ops[i].id])
    <3>1. i \in 1..k /\ Message(ops, i, k, box[ops[i].id]) BY <1>2 DEF Holds, kept
    <3> QED BY <3>1, MessageStays
  <2>5. Holds(ops, taken, k + 1, box) BY <1>2, <1>4, <1>6, <2>3, <2>4 DEF Holds, kept
  <2> QED BY <1>1, <1>7, <2>5 DEF box2
<1>8. CASE op.id \notin DOMAIN box
  <2> DEFINE more == taken \cup {k + 1}
             b2 == Put(box, op.id, msg)
  <2>1. ~ Cleared(ops, k + 1, k + 1) BY DEF Cleared
  <2>2. KeptOf(ops, more, k + 1) = kept \cup {k + 1} BY <1>4, <2>1 DEF KeptOf
  <2>3. ASSUME NEW h \in more, h < k + 1, ops[h].id = op.id PROVE Cleared(ops, h, k + 1)
    <3>1. h \in taken /\ h \in 1..k
      <4>1. h # k + 1 BY <2>3
      <4> QED BY <1>2, <2>3, <4>1
    <3>2. h \notin kept BY <1>8, <2>3 DEF Holds, kept
    <3> QED BY <1>3, <3>1, <3>2 DEF KeptOf, kept
  <2>4. TakesSend(ops, more, k + 1) BY <2>3 DEF TakesSend
  <2>5. /\ DOMAIN b2 = DOMAIN box \cup {op.id} /\ b2[op.id] = msg
        /\ \A id \in DOMAIN box : b2[id] = box[id]
    BY <1>8 DEF Put
  <2> HIDE DEF b2
  <2>6. IsFiniteSet(DOMAIN b2)
    <3>1. IsFiniteSet(DOMAIN box) BY DEF Holds
    <3>2. IsFiniteSet(DOMAIN box \cup {op.id}) BY <3>1, FS_AddElement
    <3> QED BY <2>5, <3>2
  <2>7. DOMAIN b2 = {ops[i].id : i \in KeptOf(ops, more, k + 1)} BY <2>2, <2>5 DEF Holds, kept
  <2>8. \A i \in kept : ops[i].id \in DOMAIN box BY DEF Holds, kept
  <2>9. \A i, j \in KeptOf(ops, more, k + 1) : ops[i].id = ops[j].id => i = j BY <1>8, <2>2, <2>8 DEF Holds, kept
  <2>10. ASSUME NEW i \in KeptOf(ops, more, k + 1) PROVE Message(ops, i, k + 1, b2[ops[i].id])
    <3>1. CASE i \in kept
      <4>1. i \in 1..k /\ Message(ops, i, k, box[ops[i].id]) BY <1>2, <3>1 DEF Holds, kept
      <4>2. b2[ops[i].id] = box[ops[i].id] BY <2>5, <2>8, <3>1
      <4> QED BY <4>1, <4>2, MessageStays
    <3>2. CASE i = k + 1
      <4>1. b2[ops[i].id] = msg BY <2>5, <3>2
      <4>2. (k + 1 + 1)..(k + 1) = {} OBVIOUS
      <4>3. "readAt" \notin DOMAIN msg BY DEF msg
      <4> QED BY <3>2, <4>1, <4>2, <4>3 DEF Message, msg
    <3> QED BY <2>2, <3>1, <3>2
  <2>11. \A i \in 1..(k + 1) : i \in more <=> TakesSend(ops, more, i) BY <1>2, <1>5, <1>6, <2>4 DEF Holds
  <2>12. more \in SUBSET (1..(k + 1)) BY <1>2, <1>6
  <2> HIDE DEF more
  <2>13. Holds(ops, more, k + 1, b2) BY <2>6, <2>7, <2>9, <2>10, <2>11, <2>12 DEF Holds
  <2> QED BY <1>1, <1>8, <2>13 DEF b2, box2
<1> QED BY <1>7, <1>8

\* A read changes one message, and none if there is none of that id.
LEMMA ReadHolds ==
  ASSUME NEW ops, NEW k \in Nat, NEW taken, NEW box, Holds(ops, taken, k, box), ops[k + 1].op = "read"
  PROVE  Holds(ops, taken, k + 1, OnMessages(box, ops[k + 1], k + 1).state)
<1> DEFINE op == ops[k + 1]
           box2 == OnMessages(box, op, k + 1).state
           kept == KeptOf(ops, taken, k)
<1>1. box2 = IF op.id \notin DOMAIN box THEN box ELSE [box EXCEPT ![op.id] = Put(@, "readAt", k + 1)]
  BY DEF OnMessages, MarkRead, Done
<1> HIDE DEF box2
<1>2. taken \in SUBSET (1..k) /\ kept \in SUBSET (1..k) BY DEF Holds, KeptOf
<1>3. \A i \in 1..k : Cleared(ops, i, k + 1) <=> Cleared(ops, i, k) BY ClearedNext
<1>4. KeptOf(ops, taken, k + 1) = kept BY <1>2, <1>3 DEF KeptOf
<1>5. 1..(k + 1) = (1..k) \cup {k + 1} OBVIOUS
<1>6. \A i \in 1..(k + 1) : i \in taken <=> TakesSend(ops, taken, i) BY <1>2, <1>5 DEF Holds, TakesSend
<1>7. DOMAIN box2 = DOMAIN box BY <1>1
<1> HIDE DEF kept
<1>8. ASSUME NEW i \in kept PROVE Message(ops, i, k + 1, box2[ops[i].id])
  <2> DEFINE b == box[ops[i].id]
             b2 == box2[ops[i].id]
  <2>1. i \in 1..k /\ Message(ops, i, k, b) BY <1>2 DEF Holds, kept
  <2>2. ops[i].id \in DOMAIN box BY DEF Holds, kept
  <2>3. CASE op.id # ops[i].id
    <3>1. b2 = b BY <1>1, <2>2, <2>3
    <3>2. "readAt" \in DOMAIN b2 <=> ("readAt" \in DOMAIN b \/ (ops[k + 1].op = "read" /\ ops[k + 1].id = ops[i].id)) BY <2>3, <3>1
    <3> HIDE DEF b, b2
    <3> QED BY <2>1, <3>1, <3>2, ReadNext DEF b2
  <2>4. CASE op.id = ops[i].id
    <3>1. b2 = Put(b, "readAt", k + 1) BY <1>1, <2>2, <2>4
    <3> HIDE DEF b, b2
    <3>2. {"from", "to", "thread", "words", "at"} \subseteq DOMAIN b BY <2>1 DEF Message
    <3>3. b2.from = b.from /\ b2.to = b.to /\ b2.words = b.words /\ b2.at = b.at /\ b2.thread = b.thread BY <3>1, <3>2 DEF Put
    <3>4. DOMAIN b2 = DOMAIN b \cup {"readAt"} BY <3>1 DEF Put
    <3>5. "readAt" \in DOMAIN b2 <=> ("readAt" \in DOMAIN b \/ (ops[k + 1].op = "read" /\ ops[k + 1].id = ops[i].id)) BY <2>4, <3>4
    <3>6. DOMAIN b \subseteq DOMAIN b2 BY <3>4
    <3> QED BY <2>1, <3>3, <3>5, <3>6, ReadNext DEF b2
  <2> QED BY <2>3, <2>4
<1>9. taken \in SUBSET (1..(k + 1)) BY <1>2, <1>5
<1>10. Holds(ops, taken, k + 1, box2) BY <1>4, <1>6, <1>7, <1>8, <1>9 DEF Holds, kept
<1> QED BY <1>10 DEF box2

\* A clear takes away what it is for, and nothing else.
LEMMA ClearHolds ==
  ASSUME NEW ops, NEW k \in Nat, NEW taken, NEW box, Holds(ops, taken, k, box), ops[k + 1].op = "clear"
  PROVE  Holds(ops, taken, k + 1, OnMessages(box, ops[k + 1], k + 1).state)
<1> DEFINE op == ops[k + 1]
           box2 == OnMessages(box, op, k + 1).state
           kept == KeptOf(ops, taken, k)
           Stays(from, to) == "agent" \in DOMAIN op /\ op.agent \notin {from, to}
<1>1. /\ DOMAIN box2 = {id \in DOMAIN box : Stays(box[id].from, box[id].to)}
      /\ \A id \in DOMAIN box2 : box2[id] = box[id]
  BY DEF OnMessages, ClearMessages, Done, RestrictDomain, Restrict
<1> HIDE DEF box2
<1>2. taken \in SUBSET (1..k) /\ kept \in SUBSET (1..k) BY DEF Holds, KeptOf
<1>3. \A i \in 1..k : Cleared(ops, i, k + 1) <=> (Cleared(ops, i, k) \/ ~ Stays(ops[i].from, ops[i].to)) BY ClearedNext
<1>4. KeptOf(ops, taken, k + 1) = {i \in kept : Stays(ops[i].from, ops[i].to)} BY <1>2, <1>3 DEF KeptOf
<1>5. 1..(k + 1) = (1..k) \cup {k + 1} OBVIOUS
<1>6. \A i \in 1..(k + 1) : i \in taken <=> TakesSend(ops, taken, i) BY <1>2, <1>5 DEF Holds, TakesSend
<1> HIDE DEF kept
<1>7. \A i \in kept : ops[i].id \in DOMAIN box /\ box[ops[i].id].from = ops[i].from /\ box[ops[i].id].to = ops[i].to
  BY DEF Holds, Message, kept
<1>8. DOMAIN box = {ops[i].id : i \in kept} BY DEF Holds, kept
<1> HIDE DEF Stays
<1>9. DOMAIN box2 = {ops[i].id : i \in KeptOf(ops, taken, k + 1)} BY <1>1, <1>4, <1>7, <1>8
<1>10. ASSUME NEW i \in KeptOf(ops, taken, k + 1) PROVE Message(ops, i, k + 1, box2[ops[i].id])
  <2>1. i \in kept /\ ops[i].id \in DOMAIN box2 BY <1>4, <1>9
  <2>2. i \in 1..k /\ Message(ops, i, k, box[ops[i].id]) BY <1>2, <2>1 DEF Holds, kept
  <2>3. box2[ops[i].id] = box[ops[i].id] BY <1>1, <2>1
  <2> QED BY <2>2, <2>3, MessageStays
<1>11. IsFiniteSet(DOMAIN box2)
  <2>1. IsFiniteSet(DOMAIN box) BY DEF Holds
  <2>2. DOMAIN box2 \subseteq DOMAIN box BY <1>1
  <2> QED BY <2>1, <2>2, FS_Subset
<1>12. \A i, j \in KeptOf(ops, taken, k + 1) : ops[i].id = ops[j].id => i = j BY <1>4 DEF Holds, kept
<1>13. taken \in SUBSET (1..(k + 1)) BY <1>2, <1>5
<1>14. Holds(ops, taken, k + 1, box2) BY <1>6, <1>9, <1>10, <1>11, <1>12, <1>13 DEF Holds
<1> QED BY <1>14 DEF box2

\* After any operations the box holds what was taken and not cleared since.
LEMMA BoxHolds ==
  ASSUME NEW ops, IsSeq(ops), \A i \in DOMAIN ops : ops[i].op \in {"send", "read", "clear"}
  PROVE  \E taken : Holds(ops, taken, Len(ops), Run(OnMessages, <<>>, ops))
<1>1. Run(OnMessages, <<>>, ops) = MessageFold!Fold(ops, <<>>, Indices(ops))
  BY DEF Run, FoldLeftDomain, MessageFold!Fold, MessageStep, FoldLeft, MapThenFoldSet,
         Max, MessageFold!Max, Indices
<1>2. Len(ops) \in Nat /\ DOMAIN ops = 1..Len(ops) /\ DOMAIN Indices(ops) = 1..Len(ops) BY DEF Indices, IsSeq
<1>3. PICK f : MessageFold!Goes(ops, <<>>, Indices(ops), Len(ops), f) BY <1>2, MessageFold!FoldIsRun
<1>4. /\ f[0] = <<>> /\ Run(OnMessages, <<>>, ops) = f[Len(ops)]
      /\ \A i \in 1..Len(ops) : f[i] = OnMessages(f[i - 1], ops[i], i).state
  BY <1>1, <1>2, <1>3 DEF MessageFold!Goes, MessageStep, Indices
<1> DEFINE T == {k \in Nat : k <= Len(ops) => \E taken : Holds(ops, taken, k, f[k])}
<1>5. 0 \in T
  <2>1. DOMAIN f[0] = {} /\ 1..0 = {} BY <1>4
  <2>2. KeptOf(ops, {}, 0) = {} BY DEF KeptOf
  <2>3. Holds(ops, {}, 0, f[0]) BY <2>1, <2>2, FS_EmptySet DEF Holds
  <2> QED BY <2>3
<1>6. ASSUME NEW k \in Nat, k \in T PROVE k + 1 \in T
  <2> SUFFICES ASSUME k + 1 <= Len(ops) PROVE \E taken : Holds(ops, taken, k + 1, f[k + 1]) OBVIOUS
  <2>1. PICK taken : Holds(ops, taken, k, f[k]) BY <1>2, <1>6
  <2>2. k + 1 \in 1..Len(ops) /\ k + 1 - 1 = k BY <1>2
  <2>3. f[k + 1] = OnMessages(f[k], ops[k + 1], k + 1).state BY <1>4, <2>2
  <2>4. ops[k + 1].op \in {"send", "read", "clear"} BY <1>2, <2>2
  <2> QED BY <2>1, <2>3, <2>4, SendHolds, ReadHolds, ClearHolds
<1>7. Nat \subseteq T
  <2> HIDE DEF T
  <2> QED BY <1>5, <1>6, MessageFold!Induction
<1> QED BY <1>2, <1>4, <1>7

\* A box whose messages have their times and finite words.
IsBox(box) == IsFiniteSet(DOMAIN box) /\ \A id \in DOMAIN box : box[id].at \in Nat

\* Messages by their time.
LEMMA SortedMessages ==
  ASSUME NEW box, IsBox(box), NEW ids \in SUBSET DOMAIN box
  PROVE  /\ Cardinality(ids) \in Nat
         /\ SortMessages(box, ids) \in [1..Cardinality(ids) -> ids]
         /\ ToSet(SortMessages(box, ids)) = ids
         /\ \A i, j \in 1..Cardinality(ids) : i < j => box[SortMessages(box, ids)[i]].at <= box[SortMessages(box, ids)[j]].at
<1> DEFINE before == {p \in ids \X ids : box[p[1]].at < box[p[2]].at}
           s == SortMessages(box, ids)
<1>1. IsFiniteSet(ids) BY FS_Subset DEF IsBox
<1>2. \A x, y \in ids : <<x, y>> \in before <=> box[x].at < box[y].at OBVIOUS
<1>3. \A x \in ids : box[x].at \in Nat BY DEF IsBox
<1>4. s = Sorted(ids, before) BY DEF SortMessages
<1> HIDE DEF before, s
<1>5. Orders(before, ids) BY <1>2, <1>3 DEF Orders
<1>6. InOrder(s, ids, before) BY <1>1, <1>4, <1>5, SortedInOrder
<1>7. s \in [1..Cardinality(ids) -> ids] /\ ToSet(s) = ids /\ Cardinality(ids) \in Nat BY <1>1, <1>6, FS_CardinalityType DEF InOrder
<1>8. ASSUME NEW i \in 1..Cardinality(ids), NEW j \in 1..Cardinality(ids), i < j PROVE box[s[i]].at <= box[s[j]].at
  <2>1. s[i] \in ids /\ s[j] \in ids /\ i \in DOMAIN s /\ j \in DOMAIN s BY <1>7
  <2>2. ~ (box[s[j]].at < box[s[i]].at)
    <3> SUFFICES ASSUME box[s[j]].at < box[s[i]].at PROVE FALSE OBVIOUS
    <3>1. <<s[j], s[i]>> \in before BY <1>2, <2>1
    <3>2. j < i BY <1>6, <2>1, <3>1 DEF InOrder
    <3> QED BY <1>7, <1>8, <3>2
  <2> QED BY <1>3, <2>1, <2>2
<1> QED BY <1>7, <1>8 DEF s

\* A function on 1..n is a sequence.
LEMMA LenOf ==
  ASSUME NEW n \in Nat, NEW S, NEW s \in [1..n -> S]
  PROVE  s \in Seq(S) /\ Len(s) = n /\ DOMAIN s = 1..n
OBVIOUS

\* Reverse has the same members from last to first.
LEMMA ReverseOf ==
  ASSUME NEW n \in Nat, NEW S, NEW s \in [1..n -> S]
  PROVE  /\ DOMAIN Reverse(s) = 1..n
         /\ \A i \in 1..n : Reverse(s)[i] = s[n - i + 1]
         /\ ToSet(Reverse(s)) = ToSet(s)
<1>1. Len(s) = n /\ DOMAIN s = 1..n BY LenOf
<1>2. DOMAIN Reverse(s) = 1..n /\ \A i \in 1..n : Reverse(s)[i] = s[n - i + 1] BY <1>1 DEF Reverse
<1>3. \A i \in 1..n : n - i + 1 \in 1..n /\ n - (n - i + 1) + 1 = i OBVIOUS
<1> QED BY <1>1, <1>2, <1>3 DEF ToSet

\* The reverse of messages by their time begins with the newest.
LEMMA NewestFirst ==
  ASSUME NEW box, IsBox(box), NEW ids \in SUBSET DOMAIN box
  PROVE  Newest(box, Reverse(SortMessages(box, ids))) /\ ToSet(Reverse(SortMessages(box, ids))) = ids
<1> DEFINE s == SortMessages(box, ids)
           n == Cardinality(ids)
<1>1. n \in Nat /\ s \in [1..n -> ids] /\ ToSet(s) = ids /\ \A i, j \in 1..n : i < j => box[s[i]].at <= box[s[j]].at
  BY SortedMessages
<1> HIDE DEF s, n
<1>2. DOMAIN Reverse(s) = 1..n /\ ToSet(Reverse(s)) = ids /\ \A i \in 1..n : Reverse(s)[i] = s[n - i + 1] BY <1>1, ReverseOf
<1>3. ASSUME NEW x \in 1..n, NEW y \in 1..n, x < y PROVE box[Reverse(s)[y]].at <= box[Reverse(s)[x]].at
  <2>1. n - x + 1 \in 1..n /\ n - y + 1 \in 1..n /\ n - y + 1 < n - x + 1 BY <1>1, <1>3
  <2> QED BY <1>1, <1>2, <2>1
<1> QED BY <1>2, <1>3 DEF Newest, s

\* An inbox has what is for its agent, the newest first, read or not as asked.
LEMMA InboxTells ==
  ASSUME NEW box, IsBox(box), NEW agent
  PROVE  /\ Newest(box, Inbox(box, agent, FALSE))
         /\ \A id \in DOMAIN box : /\ id \in ToSet(Inbox(box, agent, FALSE)) <=> agent = box[id].to
                                   /\ id \in ToSet(Inbox(box, agent, TRUE)) <=> (agent = box[id].to /\ "readAt" \notin DOMAIN box[id])
<1> DEFINE all == {id \in DOMAIN box : box[id].to = agent}
           unread == {id \in DOMAIN box : box[id].to = agent /\ "readAt" \notin DOMAIN box[id]}
<1>1. all \in SUBSET DOMAIN box /\ unread \in SUBSET DOMAIN box OBVIOUS
<1>2. Inbox(box, agent, FALSE) = Reverse(SortMessages(box, all))
  <2>1. all = {id \in DOMAIN box : box[id].to = agent /\ ~ (FALSE /\ "readAt" \in DOMAIN box[id])} OBVIOUS
  <2> HIDE DEF all
  <2> QED BY <2>1 DEF Inbox
<1>3. Inbox(box, agent, TRUE) = Reverse(SortMessages(box, unread))
  <2>1. unread = {id \in DOMAIN box : box[id].to = agent /\ ~ (TRUE /\ "readAt" \in DOMAIN box[id])} OBVIOUS
  <2> HIDE DEF unread
  <2> QED BY <2>1 DEF Inbox
<1> HIDE DEF all, unread
<1>4. Newest(box, Reverse(SortMessages(box, all))) /\ ToSet(Reverse(SortMessages(box, all))) = all BY <1>1, NewestFirst
<1>5. ToSet(Reverse(SortMessages(box, unread))) = unread BY <1>1, NewestFirst
<1> QED BY <1>2, <1>3, <1>4, <1>5 DEF all, unread

\* The same of one message.
LEMMA InboxHas ==
  ASSUME NEW box, IsBox(box), NEW agent, NEW id \in DOMAIN box
  PROVE  /\ id \in ToSet(Inbox(box, agent, FALSE)) <=> agent = box[id].to
         /\ id \in ToSet(Inbox(box, agent, TRUE)) <=> (agent = box[id].to /\ "readAt" \notin DOMAIN box[id])
BY InboxTells

\* A score counts words, and is positive where a word is found.
LEMMA ScoreOf ==
  ASSUME NEW box, NEW id, NEW tokens, IsFiniteSet(tokens)
  PROVE  /\ Score(box, id, tokens) \in Nat
         /\ Score(box, id, tokens) > 0 <=> box[id].words \cap tokens # {}
<1> DEFINE W == box[id].words \cap tokens
<1>1. IsFiniteSet(W) BY FS_Subset
<1>2. Score(box, id, tokens) = Cardinality(W) BY DEF Score
<1> HIDE DEF W
<1>3. Cardinality(W) \in Nat /\ (Cardinality(W) = 0 <=> W = {}) BY <1>1, FS_CardinalityType, FS_EmptySet
<1> QED BY <1>2, <1>3 DEF W

\* A search gives the best first, and gives all that it finds if they are few.
LEMMA SearchFinds ==
  ASSUME NEW box, IsBox(box), NEW agent, NEW tokens, IsFiniteSet(tokens), NEW limit \in Nat
  PROVE  FindsBest(box, agent, tokens, limit)
<1> DEFINE Sc(id) == Score(box, id, tokens)
           found == {id \in DOMAIN box : agent \in {box[id].from, box[id].to} /\ Sc(id) > 0}
           before == {p \in found \X found : \/ Sc(p[1]) > Sc(p[2])
                                             \/ Sc(p[1]) = Sc(p[2]) /\ box[p[1]].at > box[p[2]].at}
           best == Sorted(found, before)
           n == Cardinality(found)
           m == IF limit < n THEN limit ELSE n
           s == SearchMessages(box, agent, tokens, limit)
<1>1. \A id : Sc(id) \in Nat /\ (Sc(id) > 0 <=> box[id].words \cap tokens # {}) BY ScoreOf
<1>2. s = SubSeq(best, 1, IF limit < Len(best) THEN limit ELSE Len(best)) BY DEF SearchMessages
<1> HIDE DEF Sc, s
<1>3. \A x, y \in found : <<x, y>> \in before <=> (Sc(x) > Sc(y) \/ (Sc(x) = Sc(y) /\ box[x].at > box[y].at)) OBVIOUS
<1>4. found \in SUBSET DOMAIN box /\ \A x \in found : box[x].at \in Nat BY DEF IsBox
<1>5. IsFiniteSet(found) /\ n \in Nat BY <1>4, FS_Subset, FS_CardinalityType DEF IsBox
<1>6. found = {id \in DOMAIN box : agent \in {box[id].from, box[id].to} /\ box[id].words \cap tokens # {}} BY <1>1
<1> HIDE DEF before, found, n
<1>7. Orders(before, found) BY <1>1, <1>3, <1>4 DEF Orders
<1>8. InOrder(best, found, before) BY <1>5, <1>7, SortedInOrder
<1> HIDE DEF best
<1>9. best \in [1..n -> found] /\ ToSet(best) = found BY <1>8 DEF InOrder, n
<1>10. Len(best) = n /\ DOMAIN best = 1..n /\ best \in Seq(found) BY <1>5, <1>9, LenOf
<1>11. m \in 0..n /\ s = SubSeq(best, 1, m) BY <1>2, <1>5, <1>10
<1>12. Len(s) = m /\ DOMAIN s = 1..m /\ \A i \in 1..m : s[i] = best[i]
  <2> HIDE DEF m
  <2>1. \A i \in 1..m : i \in 1..n BY <1>5, <1>11
  <2>2. s \in Seq(found) BY <1>10, <1>11, <2>1, SubSeqProperties
  <2>3. Len(s) = m BY <1>5, <1>10, <1>11, <2>1, SubSeqProperties
  <2>4. \A i \in 1..m : s[i] = best[i] BY <1>5, <1>10, <1>11, <2>1, SubSeqProperties
  <2> QED BY <2>2, <2>3, <2>4
<1>13. ASSUME NEW x \in DOMAIN s, NEW y \in DOMAIN s, x < y PROVE Sc(s[x]) >= Sc(s[y])
  <2>1. x \in 1..n /\ y \in 1..n /\ s[x] = best[x] /\ s[y] = best[y] BY <1>5, <1>11, <1>12
  <2>2. best[x] \in found /\ best[y] \in found BY <1>9, <2>1
  <2>3. ~ (Sc(best[y]) > Sc(best[x]))
    <3> SUFFICES ASSUME Sc(best[y]) > Sc(best[x]) PROVE FALSE OBVIOUS
    <3>1. <<best[y], best[x]>> \in before BY <1>3, <2>2
    <3>2. y < x BY <1>8, <1>10, <2>1, <3>1 DEF InOrder
    <3> QED BY <1>13, <2>1, <3>2
  <2> QED BY <1>1, <2>1, <2>3
<1>14. ASSUME Len(s) < limit PROVE \A id \in found : id \in ToSet(s)
  <2>1. m = n BY <1>5, <1>12, <1>14
  <2>2. \A id \in found : \E i \in 1..n : best[i] = id BY <1>9, <1>10 DEF ToSet
  <2> QED BY <1>12, <2>1, <2>2 DEF ToSet
<1> QED BY <1>6, <1>13, <1>14 DEF FindsBest, s, Sc

\* The box keeps its promise, whatever was sent, read and cleared.
THEOREM MessagesAlwaysDelivered ==
  ASSUME NEW ops, IsSeq(ops), \A i \in DOMAIN ops : ops[i].op \in {"send", "read", "clear"}, NEW agents
  PROVE  MessagesDelivered(ops, agents)
<1> DEFINE box == Run(OnMessages, <<>>, ops)
           n == Len(ops)
<1>1. PICK taken : Holds(ops, taken, n, box) BY BoxHolds
<1>2. n \in Nat /\ DOMAIN ops = 1..n BY DEF IsSeq
<1> DEFINE kept == KeptOf(ops, taken, n)
<1>3. kept = {i \in taken : ~ Cleared(ops, i, Len(ops))} BY DEF KeptOf
<1> HIDE DEF box, n
<1>4. /\ taken \in SUBSET DOMAIN ops
      /\ \A i \in DOMAIN ops : i \in taken <=> TakesSend(ops, taken, i)
      /\ DOMAIN box = {ops[i].id : i \in kept}
      /\ IsFiniteSet(DOMAIN box)
      /\ \A i \in kept : i \in 1..n /\ Message(ops, i, n, box[ops[i].id])
  BY <1>1, <1>2 DEF Holds, KeptOf
<1> HIDE DEF kept
<1>5. IsBox(box)
  <2>1. ASSUME NEW id \in DOMAIN box PROVE box[id].at \in Nat
    <3>1. PICK i \in kept : id = ops[i].id BY <1>4
    <3>2. box[id].at = i /\ i \in 1..n BY <1>4, <3>1 DEF Message
    <3> QED BY <1>2, <3>2
  <2> QED BY <1>4, <2>1 DEF IsBox
<1>6. ASSUME NEW i \in kept PROVE Delivered(ops, agents, box, i)
  <2>1. Message(ops, i, n, box[ops[i].id]) /\ ops[i].id \in DOMAIN box BY <1>4
  <2>2. \A a : /\ ops[i].id \in ToSet(Inbox(box, a, FALSE)) <=> a = box[ops[i].id].to
               /\ ops[i].id \in ToSet(Inbox(box, a, TRUE)) <=> (a = box[ops[i].id].to /\ "readAt" \notin DOMAIN box[ops[i].id])
    <3> DEFINE id == ops[i].id
    <3>1. id \in DOMAIN box BY <2>1
    <3> HIDE DEF id
    <3>2. \A a : /\ id \in ToSet(Inbox(box, a, FALSE)) <=> a = box[id].to
                 /\ id \in ToSet(Inbox(box, a, TRUE)) <=> (a = box[id].to /\ "readAt" \notin DOMAIN box[id])
      BY <1>5, <3>1, InboxHas
    <3> QED BY <3>2 DEF id
  <2>3. ops[i].id \in ToSet(Thread(box, box[ops[i].id].thread))
    <3> DEFINE ids == {id \in DOMAIN box : box[id].thread = box[ops[i].id].thread}
    <3>1. ids \in SUBSET DOMAIN box /\ ops[i].id \in ids BY <2>1
    <3>2. Thread(box, box[ops[i].id].thread) = SortMessages(box, ids) BY DEF Thread
    <3> HIDE DEF ids
    <3>3. ToSet(SortMessages(box, ids)) = ids BY <1>5, <3>1, SortedMessages
    <3> QED BY <3>1, <3>2, <3>3
  <2> QED BY <2>1, <2>2, <2>3 DEF Message, Delivered, n
<1>7. ASSUME NEW i \in kept, NEW j \in kept, "thread" \notin DOMAIN ops[i], "thread" \notin DOMAIN ops[j],
             ops[i].from = ops[j].to, ops[i].to = ops[j].from
      PROVE  Thread(box, box[ops[i].id].thread) = Thread(box, box[ops[j].id].thread)
  <2>1. box[ops[i].id].thread = {ops[i].from, ops[i].to} /\ box[ops[j].id].thread = {ops[j].from, ops[j].to}
    BY <1>4, <1>7 DEF Message, Field, DefaultThreadId
  <2>2. box[ops[i].id].thread = box[ops[j].id].thread BY <1>7, <2>1
  <2> QED BY <2>2
<1>8. ASSUME NEW a \in agents PROVE Newest(box, Inbox(box, a, FALSE)) /\ FindsBest(box, a, {"v", "w"}, 2)
  <2>1. IsFiniteSet({"v", "w"})
    <3>1. IsFiniteSet({"v"}) BY FS_Singleton
    <3>2. {"v", "w"} = {"v"} \cup {"w"} OBVIOUS
    <3> QED BY <3>1, <3>2, FS_AddElement
  <2> QED BY <1>5, <2>1, InboxTells, SearchFinds
<1>9. BoxTells(ops, agents, box, kept) BY <1>4, <1>6, <1>7, <1>8 DEF BoxTells
<1> QED BY <1>3, <1>4, <1>9 DEF MessagesDelivered, box

(***************************************************************************)
(* The memories                                                            *)
(***************************************************************************)
FileStep(ops, disk, i) == OnFiles(disk, ops[i], i).state
FileFold == INSTANCE Folding WITH Op <- FileStep

\* What is in the file of an entry after k operations.
Entry(ops, k, id, e) ==
  /\ DOMAIN e = {"text", "tags", "created", "updated"}
  /\ e.created \in Since(ops, k, id) /\ e.updated \in Since(ops, k, id)
  /\ \A i \in Since(ops, k, id) : e.created <= i /\ i <= e.updated
  /\ e.text = ops[e.updated].text /\ e.tags = Field(ops[e.updated], "tags", {})
Keeps(ops, k, disk) ==
  /\ \A id : id \in DOMAIN disk <=> Since(ops, k, id) # {}
  /\ \A id \in DOMAIN disk : Entry(ops, k, id, disk[id])

\* What the next operation does to the times an entry was told since it was forgotten.
LEMMA SinceNext ==
  ASSUME NEW ops, NEW k \in Nat, NEW id
  PROVE  /\ ops[k + 1].id # id => Since(ops, k + 1, id) = Since(ops, k, id)
         /\ ops[k + 1].id = id /\ ops[k + 1].op = "remember" => Since(ops, k + 1, id) = Since(ops, k, id) \cup {k + 1}
         /\ ops[k + 1].id = id /\ ops[k + 1].op # "remember" => Since(ops, k + 1, id) = {}
<1>1. 1..(k + 1) = (1..k) \cup {k + 1} OBVIOUS
<1>2. \A i \in 1..k : (i + 1)..(k + 1) = ((i + 1)..k) \cup {k + 1} OBVIOUS
<1>3. (k + 1 + 1)..(k + 1) = {} OBVIOUS
<1> DEFINE New(i) == ops[i].id = id /\ ops[i].op = "remember"
           Old(j) == ops[j].id = id => ops[j].op = "remember"
<1>4. Since(ops, k, id) = {i \in 1..k : New(i) /\ \A j \in (i + 1)..k : Old(j)} BY DEF Since
<1>5. Since(ops, k + 1, id) = {i \in 1..(k + 1) : New(i) /\ \A j \in (i + 1)..(k + 1) : Old(j)} BY DEF Since
<1> HIDE DEF New, Old
<1>6. Old(k + 1) /\ New(k + 1) => Since(ops, k + 1, id) = Since(ops, k, id) \cup {k + 1} BY <1>1, <1>2, <1>3, <1>4, <1>5
<1>7. Old(k + 1) /\ ~ New(k + 1) => Since(ops, k + 1, id) = Since(ops, k, id) BY <1>1, <1>2, <1>3, <1>4, <1>5
<1>8. ~ Old(k + 1) /\ ~ New(k + 1) => Since(ops, k + 1, id) = {} BY <1>1, <1>2, <1>5
<1> QED BY <1>6, <1>7, <1>8 DEF New, Old

\* remember() and forget() keep the files as they should be.
LEMMA KeepsNext ==
  ASSUME NEW ops, NEW k \in Nat, NEW disk, Keeps(ops, k, disk), ops[k + 1].op \in {"remember", "forget"}
  PROVE  Keeps(ops, k + 1, OnFiles(disk, ops[k + 1], k + 1).state)
<1> DEFINE op == ops[k + 1]
           disk2 == OnFiles(disk, op, k + 1).state
<1>1. \A id : id # op.id => Since(ops, k + 1, id) = Since(ops, k, id) BY SinceNext
<1>2. \A id \in DOMAIN disk : id # op.id => Entry(ops, k + 1, id, disk[id]) BY <1>1 DEF Keeps, Entry
<1>3. CASE op.op = "remember"
  <2> DEFINE created == IF op.id \in DOMAIN disk THEN disk[op.id].created ELSE k + 1
             e == [text |-> op.text, tags |-> Field(op, "tags", {}), created |-> created, updated |-> k + 1]
  <2>1. disk2 = Put(disk, op.id, e) BY <1>3 DEF OnFiles, Remember, Done
  <2> HIDE DEF disk2
  <2>2. Since(ops, k + 1, op.id) = Since(ops, k, op.id) \cup {k + 1}
    <3>1. \A id : ops[k + 1].id = id /\ ops[k + 1].op = "remember" => Since(ops, k + 1, id) = Since(ops, k, id) \cup {k + 1} BY SinceNext
    <3> QED BY <1>3, <3>1
  <2>3. \A i \in Since(ops, k, op.id) : i \in 1..k BY DEF Since
  <2>4. Entry(ops, k + 1, op.id, e)
    <3>1. CASE op.id \in DOMAIN disk
      <4>1. Entry(ops, k, op.id, disk[op.id]) BY <3>1 DEF Keeps
      <4>2. created = disk[op.id].created BY <3>1
      <4> QED BY <2>2, <2>3, <4>1, <4>2 DEF Entry
    <3>2. CASE op.id \notin DOMAIN disk
      <4>1. Since(ops, k, op.id) = {} BY <3>2 DEF Keeps
      <4>2. created = k + 1 BY <3>2
      <4> QED BY <2>2, <4>1, <4>2 DEF Entry
    <3> QED BY <3>1, <3>2
  <2> HIDE DEF e
  <2>5. DOMAIN disk2 = DOMAIN disk \cup {op.id} /\ disk2[op.id] = e /\ \A id \in DOMAIN disk : id # op.id => disk2[id] = disk[id]
    BY <2>1 DEF Put
  <2>6. Keeps(ops, k + 1, disk2)
    <3>1. ASSUME NEW id PROVE id \in DOMAIN disk2 <=> Since(ops, k + 1, id) # {} BY <1>1, <2>2, <2>5 DEF Keeps
    <3>2. ASSUME NEW id \in DOMAIN disk2 PROVE Entry(ops, k + 1, id, disk2[id]) BY <1>2, <2>4, <2>5
    <3> QED BY <3>1, <3>2 DEF Keeps
  <2> QED BY <2>6 DEF disk2
<1>4. CASE op.op # "remember"
  <2>1. disk2 = RestrictDomain(disk, LAMBDA id : id # op.id) BY <1>4 DEF OnFiles, Forget, Done
  <2> HIDE DEF disk2
  <2>2. DOMAIN disk2 = DOMAIN disk \ {op.id} /\ \A id \in DOMAIN disk : id # op.id => disk2[id] = disk[id]
    BY <2>1 DEF RestrictDomain, Restrict
  <2>3. Since(ops, k + 1, op.id) = {} BY <1>4, SinceNext
  <2>4. Keeps(ops, k + 1, disk2)
    <3>1. ASSUME NEW id PROVE id \in DOMAIN disk2 <=> Since(ops, k + 1, id) # {} BY <1>1, <2>2, <2>3 DEF Keeps
    <3>2. ASSUME NEW id \in DOMAIN disk2 PROVE Entry(ops, k + 1, id, disk2[id]) BY <1>2, <2>2
    <3> QED BY <3>1, <3>2 DEF Keeps
  <2> QED BY <2>4 DEF disk2
<1> QED BY <1>3, <1>4

\* After any operations each file tells when its entry was told first and last.
LEMMA DiskKeeps ==
  ASSUME NEW ops, IsSeq(ops), \A i \in DOMAIN ops : ops[i].op \in {"remember", "forget"}
  PROVE  Keeps(ops, Len(ops), Run(OnFiles, <<>>, ops))
<1>1. Run(OnFiles, <<>>, ops) = FileFold!Fold(ops, <<>>, Indices(ops))
  BY DEF Run, FoldLeftDomain, FileFold!Fold, FileStep, FoldLeft, MapThenFoldSet,
         Max, FileFold!Max, Indices
<1>2. Len(ops) \in Nat /\ DOMAIN ops = 1..Len(ops) /\ DOMAIN Indices(ops) = 1..Len(ops) BY DEF Indices, IsSeq
<1>3. PICK f : FileFold!Goes(ops, <<>>, Indices(ops), Len(ops), f) BY <1>2, FileFold!FoldIsRun
<1>4. /\ f[0] = <<>> /\ Run(OnFiles, <<>>, ops) = f[Len(ops)]
      /\ \A i \in 1..Len(ops) : f[i] = OnFiles(f[i - 1], ops[i], i).state
  BY <1>1, <1>2, <1>3 DEF FileFold!Goes, FileStep, Indices
<1> DEFINE T == {k \in Nat : k <= Len(ops) => Keeps(ops, k, f[k])}
<1>5. 0 \in T
  <2>1. DOMAIN f[0] = {} /\ 1..0 = {} BY <1>4
  <2> QED BY <2>1 DEF Keeps, Since
<1>6. ASSUME NEW k \in Nat, k \in T PROVE k + 1 \in T
  <2> SUFFICES ASSUME k + 1 <= Len(ops) PROVE Keeps(ops, k + 1, f[k + 1]) OBVIOUS
  <2>1. Keeps(ops, k, f[k]) BY <1>2, <1>6
  <2>2. k + 1 \in 1..Len(ops) /\ k + 1 - 1 = k BY <1>2
  <2>3. f[k + 1] = OnFiles(f[k], ops[k + 1], k + 1).state BY <1>4, <2>2
  <2>4. ops[k + 1].op \in {"remember", "forget"} BY <1>2, <2>2
  <2> QED BY <2>1, <2>3, <2>4, KeepsNext
<1>7. Nat \subseteq T
  <2> HIDE DEF T
  <2> QED BY <1>5, <1>6, FileFold!Induction
<1> QED BY <1>2, <1>4, <1>7

\* A list that finds each file written has all entries that match.
LEMMA LoadsAll ==
  ASSUME NEW disk, NEW how, NEW filter, NEW bad, bad \cap DOMAIN disk = {}
  PROVE  ListMemories(Found(disk, bad, how), filter).state = {e \in {Put(disk[id], "id", id) : id \in DOMAIN disk} : MatchesFilter(e, filter)}
<1> DEFINE files == Found(disk, bad, how)
<1>1. DOMAIN files = DOMAIN disk /\ \A id \in DOMAIN disk : files[id] = <<"entry", disk[id]>> BY DEF Found
<1> HIDE DEF files
<1>2. \A id \in DOMAIN files : files[id] # <<"half">> /\ files[id] # <<"gone">>
  <2>1. \A x : <<"entry", x>>[1] = "entry" OBVIOUS
  <2>2. <<"half">>[1] = "half" /\ <<"gone">>[1] = "gone" OBVIOUS
  <2> QED BY <1>1, <2>1, <2>2
<1>3. LoadEntries(files) = Done({Put(files[id][2], "id", id) : id \in DOMAIN files}) BY <1>2 DEF LoadEntries
<1>4. {Put(files[id][2], "id", id) : id \in DOMAIN files} = {Put(disk[id], "id", id) : id \in DOMAIN disk} BY <1>1
<1>5. LoadEntries(files) = [state |-> {Put(disk[id], "id", id) : id \in DOMAIN disk}, threw |-> FALSE] BY <1>3, <1>4 DEF Done
<1> QED BY <1>5 DEF ListMemories, files

\* A list that finds a file gone or half written tells nothing.
LEMMA LoadsNone ==
  ASSUME NEW disk, NEW how \in {"gone", "half"}, NEW filter, NEW bad, bad \cap DOMAIN disk # {}
  PROVE  ListMemories(Found(disk, bad, how), filter).state = {}
<1> DEFINE files == Found(disk, bad, how)
<1>1. PICK id \in DOMAIN disk : id \in bad OBVIOUS
<1>2. id \in DOMAIN files /\ files[id] = <<how>> BY <1>1 DEF Found
<1> HIDE DEF files
<1>3. LoadEntries(files).state = {} /\ \E threw : LoadEntries(files) = [state |-> {}, threw |-> threw] BY <1>2 DEF LoadEntries, Threw, Done
<1> QED BY <1>3 DEF ListMemories, files

\* Memories are kept, whatever is remembered and forgotten, and however a list of
\* them is disturbed.
THEOREM MemoriesAlwaysKept ==
  ASSUME NEW ops, IsSeq(ops), \A i \in DOMAIN ops : ops[i].op \in {"remember", "forget"},
         NEW filter, NEW disturbed, NEW how \in {"gone", "half"}
  PROVE  MemoriesKept(ops, filter, disturbed, how)
<1> DEFINE disk == Run(OnFiles, <<>>, ops)
           n == Len(ops)
<1>1. Keeps(ops, n, disk) BY DiskKeeps
<1>2. n \in Nat /\ DOMAIN ops = 1..n BY DEF IsSeq
<1> HIDE DEF disk, n
<1>3. DiskTells(ops, disk)
  <2> DEFINE ids == {ops[i].id : i \in DOMAIN ops}
  <2>1. \A id : Since(ops, n, id) # {} => id \in ids BY <1>2 DEF Since
  <2>2. DOMAIN disk = {id \in ids : Since(ops, n, id) # {}} BY <1>1, <2>1 DEF Keeps
  <2>3. ASSUME NEW id \in DOMAIN disk
        PROVE  /\ disk[id].updated = CHOOSE i \in Since(ops, n, id) : \A j \in Since(ops, n, id) : j <= i
               /\ disk[id].created = CHOOSE i \in Since(ops, n, id) : \A j \in Since(ops, n, id) : i <= j
    <3> DEFINE S == Since(ops, n, id)
    <3>1. Entry(ops, n, id, disk[id]) BY <1>1 DEF Keeps
    <3>2. \A i \in S : i \in Nat BY <1>2 DEF Since
    <3> HIDE DEF S
    <3>3. disk[id].created \in S /\ disk[id].updated \in S /\ \A i \in S : disk[id].created <= i /\ i <= disk[id].updated BY <3>1 DEF Entry, S
    <3>4. \A i \in S : (\A j \in S : j <= i) <=> i = disk[id].updated BY <3>2, <3>3
    <3>5. \A i \in S : (\A j \in S : i <= j) <=> i = disk[id].created BY <3>2, <3>3
    <3>6. (CHOOSE i \in S : \A j \in S : j <= i) = disk[id].updated BY <3>3, <3>4
    <3>7. (CHOOSE i \in S : \A j \in S : i <= j) = disk[id].created BY <3>3, <3>5
    <3> QED BY <3>6, <3>7 DEF S
  <2>4. \A id \in DOMAIN disk : disk[id].text = ops[disk[id].updated].text /\ disk[id].tags = Field(ops[disk[id].updated], "tags", {})
    BY <1>1 DEF Keeps, Entry
  <2> QED BY <2>2, <2>3, <2>4 DEF DiskTells, n
<1>4. ListsTell(disk, filter, disturbed, how)
  <2> DEFINE entries == {Put(disk[id], "id", id) : id \in DOMAIN disk}
             list == ListMemories(Found(disk, {}, how), filter)
             torn == ListMemories(Found(disk, disturbed, how), filter)
  <2>1. list.state = {e \in entries : MatchesFilter(e, filter)} BY LoadsAll
  <2>2. torn.state = list.state \/ torn.state = {}
    <3>1. disturbed \cap DOMAIN disk = {} => torn.state = {e \in entries : MatchesFilter(e, filter)} BY LoadsAll
    <3>2. disturbed \cap DOMAIN disk # {} => torn.state = {} BY LoadsNone
    <3> QED BY <2>1, <3>1, <3>2
  <2>3. \A id \in DOMAIN disk : Put(disk[id], "id", id).id = id /\ Put(disk[id], "id", id).tags = disk[id].tags
    <3> TAKE id \in DOMAIN disk
    <3>1. DOMAIN disk[id] = {"text", "tags", "created", "updated"} BY <1>1 DEF Keeps, Entry
    <3> QED BY <3>1 DEF Put
  <2>4. ASSUME {"namespace", "kind"} \cap DOMAIN filter = {}
        PROVE  {e.id : e \in list.state} = {id \in DOMAIN disk : Field(filter, "tags", {}) \subseteq disk[id].tags}
    <3>1. \A e : MatchesFilter(e, filter) <=> Field(filter, "tags", {}) \subseteq e.tags BY <2>4 DEF MatchesFilter
    <3> HIDE DEF list
    <3> QED BY <2>1, <2>3, <3>1
  <2> HIDE DEF entries
  <2> QED BY <2>2, <2>4 DEF ListsTell
<1> QED BY <1>3, <1>4 DEF MemoriesKept, disk

-----------------------------------------------------------------------------
\* Whatever is legally asked of the storages, the messages and the memories, they
\* keep what they promise.
THEOREM StoredRulesAlwaysAgree == ASSUME Legal PROVE StoredRulesAgree
<1>1. ASSUME Rule("storage") PROVE StoragesAgree(input[2], input[3])
  BY <1>1, StoragesAlwaysAgree DEF Legal
<1>2. ASSUME Rule("messages") PROVE MessagesDelivered(input[2], {"p", "q", "r"})
  BY <1>2, MessagesAlwaysDelivered DEF Legal
<1>3. ASSUME Rule("memories") PROVE MemoriesKept(input[2], input[3], input[4], input[5])
  BY <1>3, MemoriesAlwaysKept DEF Legal
<1> QED BY <1>1, <1>2, <1>3 DEF StoredRulesAgree

\* The same of every behaviour that asks what is legal.
THEOREM StoredKeeps == StoredSpec => []StoredRulesAgree
<1>1. input = <<>> => Legal BY DEF Legal, Rule
<1>2. Legal /\ [Legal']_input => Legal'
  <2>1. ASSUME Legal, UNCHANGED input PROVE Legal' BY <2>1 DEF Legal, Rule
  <2> QED BY <2>1
<1>3. Legal => StoredRulesAgree BY StoredRulesAlwaysAgree
<1> QED BY <1>1, <1>2, <1>3, PTL DEF StoredSpec
===============================================================================
