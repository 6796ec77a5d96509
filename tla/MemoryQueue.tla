------------------------------ MODULE MemoryQueue ------------------------------
(***************************************************************************)
(* InMemoryQueue of packages/plugin-queue-memory/src/index.ts.             *)
(*                                                                         *)
(* Public methods run to their end in one JavaScript turn, so each is one  *)
(* action.  The queue's own turns are the timer or immediate it arms, the  *)
(* promise chain of each started job, and the continuation of close().     *)
(* Listeners of the "started" event run inside #pump and may call any      *)
(* public method: pumping is TRUE while one does.  Listeners are assumed   *)
(* not to throw.                                                           *)
(*                                                                         *)
(* #pending is kept sorted by (runAt, priority, sequence), three fields    *)
(* that never change, so a set of jobs and that order stand for the array. *)
(***************************************************************************)
EXTENDS Naturals, FiniteSets

CONSTANTS
  Jobs,         \* one enqueue() call each
  Waiters,      \* one drain() call each
  Closer,       \* the drain() that close() itself makes
  Concurrency, MaxPending,
  RunAts,       \* runAt of a job; 0 is the sentinel of an immediate job
  Priorities,
  MaxTime       \* bound: the clock stops there

ASSUME ConstantsAssumption ==
  /\ Concurrency \in Nat \ {0} /\ MaxPending \in Nat \ {0}
  /\ MaxTime \in Nat /\ RunAts \subseteq 0 .. MaxTime /\ Priorities \subseteq Nat
  /\ Closer \notin Waiters

VARIABLES
  now,       \* options.now()
  pending,   \* #pending
  running,   \* #running
  sequence,  \* #sequence
  job,       \* the snapshot of each job: runAt, priority, sequence
  promise,   \* what enqueue() returned: "none", "open", "resolved", "rejected"
  slot,      \* jobs started whose finally() has not run yet
  paused, closing, closed,
  wake,      \* #timer / #immediate; at most one of them is set
  waiter,    \* drain() promises: "none", "waiting" (in #idleWaiters), "done"
  pumping    \* a "started" listener runs inside #pump's loop

flags == <<paused, closing, closed>>
vars == <<now, pending, running, sequence, job, promise, slot, flags, wake,
          waiter, pumping>>

NoWake == [kind |-> "none", at |-> 0]
Immediate == [kind |-> "immediate", at |-> 0]
Timer(t) == [kind |-> "timer", at |-> t]

Init ==
  /\ now = 0 /\ pending = {} /\ running = 0 /\ sequence = 0
  /\ job = [j \in Jobs |-> [runAt |-> 0, priority |-> 0, sequence |-> 0]]
  /\ promise = [j \in Jobs |-> "none"] /\ slot = {}
  /\ paused = FALSE /\ closing = FALSE /\ closed = FALSE
  /\ wake = NoWake /\ pumping = FALSE
  /\ waiter = [w \in Waiters \cup {Closer} |-> "none"]

\* Mutant: left and right swapped in the priority comparison.
BeforeSwapped(a, b) ==
  \/ a.runAt < b.runAt
  \/ (a.runAt = b.runAt /\ a.priority < b.priority)
  \/ (a.runAt = b.runAt /\ a.priority = b.priority /\ a.sequence < b.sequence)

\* The comparison function of #insertPending's sort.
Before(a, b) ==
  \/ a.runAt < b.runAt
  \/ (a.runAt = b.runAt /\ a.priority > b.priority)
  \/ (a.runAt = b.runAt /\ a.priority = b.priority /\ a.sequence < b.sequence)

IsFirst(j, S, jobs) == j \in S /\ \A k \in S \ {j} : Before(jobs[j], jobs[k])
First(S, jobs) == CHOOSE j \in S : IsFirst(j, S, jobs)

(***************************************************************************)
(* #arm and #flushIdleWaiters end a step: they read what the step leaves   *)
(* in pending, running and the flags, and set wake and waiter.  w is the   *)
(* waiter map at the call.                                                 *)
(***************************************************************************)
Idle == pending = {} /\ running = 0

\* #flushIdleWaiters.
Flush(w) ==
  waiter' = IF Idle' THEN [x \in DOMAIN w |-> IF w[x] = "waiting" THEN "done" ELSE w[x]]
            ELSE w

WakeFor(j, jobs) == IF jobs[j].runAt > now THEN Timer(jobs[j].runAt) ELSE Immediate

\* #arm.
Arm(w) ==
  IF closed' \/ paused' \/ running' >= Concurrency
  THEN wake' = wake /\ waiter' = w
  ELSE IF pending' = {}
       THEN wake' = NoWake /\ Flush(w)
       ELSE wake' = WakeFor(First(pending', job'), job') /\ waiter' = w

\* #rejectPending, and the loop of clear().
RejectAll ==
  /\ promise' = [j \in Jobs |-> IF j \in pending THEN "rejected" ELSE promise[j]]
  /\ pending' = {}

-----------------------------------------------------------------------------
(***************************************************************************)
(* enqueue()                                                               *)
(***************************************************************************)
EnqueueRefused(j) ==
  /\ promise[j] = "none"
  /\ closed \/ closing \/ Cardinality(pending) >= MaxPending
  /\ promise' = [promise EXCEPT ![j] = "rejected"]
  /\ UNCHANGED <<now, pending, running, sequence, job, slot, flags, wake, waiter, pumping>>

Accepts == ~ closed /\ ~ closing /\ Cardinality(pending) < MaxPending

\* The signal is already aborted: a sequence number is used up.
EnqueueAborted(j) ==
  /\ promise[j] = "none" /\ Accepts
  /\ sequence' = sequence + 1
  /\ promise' = [promise EXCEPT ![j] = "rejected"]
  /\ UNCHANGED <<now, pending, running, job, slot, flags, wake, waiter, pumping>>

Enqueue(j, at, priority) ==
  /\ promise[j] = "none" /\ Accepts
  /\ sequence' = sequence + 1
  /\ job' = [job EXCEPT ![j] = [runAt |-> at, priority |-> priority,
                                sequence |-> sequence + 1]]
  /\ promise' = [promise EXCEPT ![j] = "open"]
  /\ pending' = pending \cup {j}
  /\ UNCHANGED <<now, running, slot, flags, pumping>>
  /\ Arm(waiter)

\* onAbort; once the job has started its listener is gone.
Abort(j) ==
  /\ j \in pending
  /\ pending' = pending \ {j}
  /\ promise' = [promise EXCEPT ![j] = "rejected"]
  /\ UNCHANGED <<now, running, sequence, job, slot, flags, pumping>>
  /\ Arm(waiter)

Clear ==
  /\ pending # {}
  /\ RejectAll
  /\ UNCHANGED <<now, running, sequence, job, slot, flags, pumping>>
  /\ Arm(waiter)

(***************************************************************************)
(* pause(), resume(), drain(), close()                                     *)
(***************************************************************************)
Pause ==
  /\ ~ paused /\ ~ closed
  /\ paused' = TRUE
  /\ wake' = NoWake
  /\ UNCHANGED <<now, pending, running, sequence, job, promise, slot, closing,
                 closed, waiter, pumping>>

\* Mutant: resume() forgets to arm.
ResumeUnarmed ==
  /\ paused /\ ~ closed
  /\ paused' = FALSE
  /\ UNCHANGED <<now, pending, running, sequence, job, promise, slot, closing,
                 closed, wake, waiter, pumping>>

Resume ==
  /\ paused /\ ~ closed
  /\ paused' = FALSE
  /\ UNCHANGED <<now, pending, running, sequence, job, promise, slot, closing,
                 closed, pumping>>
  /\ Arm(waiter)

\* A waiter joins #idleWaiters unless the queue is idle.  On a closed queue
\* nobody will ever release it.
Drain(w) ==
  /\ waiter[w] = "none"
  /\ UNCHANGED <<now, pending, running, sequence, job, promise, slot, flags, pumping>>
  /\ IF Idle
     THEN waiter' = [waiter EXCEPT ![w] = "done"] /\ wake' = wake
     ELSE Arm([waiter EXCEPT ![w] = "waiting"])

\* close(): arms, then drains.  The promise is kept in #closePromise, so
\* that a second call joins the first.
Close ==
  /\ ~ closed /\ ~ closing
  /\ closing' = TRUE /\ paused' = FALSE
  /\ UNCHANGED <<now, pending, running, sequence, job, promise, slot, closed, pumping>>
  /\ Arm([waiter EXCEPT ![Closer] = IF Idle THEN "done" ELSE "waiting"])

\* Mutant: waiters are left to the next flush, which never comes.
ForceCloseUnreleased ==
  /\ ~ closed /\ ~ closing
  /\ RejectAll
  /\ paused' = FALSE /\ closed' = TRUE
  /\ wake' = NoWake
  /\ UNCHANGED <<now, running, sequence, job, slot, closing, pumping, waiter>>

\* close({drain: false}), with #forceReleaseIdleWaiters.
ForceClose ==
  /\ ~ closed /\ ~ closing
  /\ RejectAll
  /\ paused' = FALSE /\ closed' = TRUE
  /\ wake' = NoWake
  /\ waiter' = [w \in DOMAIN waiter |-> IF waiter[w] = "waiting" THEN "done" ELSE waiter[w]]
  /\ UNCHANGED <<now, running, sequence, job, slot, closing, pumping>>

\* The then() of close(), once its drain() has resolved.
FinishClose ==
  /\ closing /\ waiter[Closer] = "done" /\ ~ pumping
  /\ closed' = TRUE /\ closing' = FALSE
  /\ wake' = NoWake
  /\ UNCHANGED <<now, pending, running, sequence, job, promise, slot, paused,
                 waiter, pumping>>

-----------------------------------------------------------------------------
(***************************************************************************)
(* #pump and #start.  One turn of the loop per step: when a job has been   *)
(* started its listeners run, and then the loop goes on.                   *)
(***************************************************************************)
\* Mutant: the started job is not shifted off #pending.
StartWithoutShift(j) ==
  /\ running' = running + 1
  /\ slot' = slot \cup {j}
  /\ pumping' = TRUE
  /\ UNCHANGED <<waiter, pending>>

StartJob(j) ==
  /\ pending' = pending \ {j}
  /\ running' = running + 1
  /\ slot' = slot \cup {j}
  /\ pumping' = TRUE
  /\ UNCHANGED waiter

HasRoom == running < Concurrency

IsDue(j) == job[j].runAt <= now

\* armed is what #timer and #immediate hold during the turn.
PumpTurn(armed) ==
  /\ UNCHANGED <<now, sequence, job, promise, flags>>
  /\ \/ /\ HasRoom
        /\ \E j \in pending : IsFirst(j, pending, job) /\ IsDue(j) /\ StartJob(j)
        /\ wake' = armed
     \/ /\ HasRoom
        /\ \E j \in pending : IsFirst(j, pending, job) /\ ~ IsDue(j)
        /\ pumping' = FALSE /\ UNCHANGED <<pending, running, slot>>
        /\ Arm(waiter)
     \/ /\ ~ HasRoom \/ pending = {}
        /\ pumping' = FALSE /\ UNCHANGED <<pending, running, slot>>
        /\ wake' = armed /\ Flush(waiter)

\* Promise continuations run before the next timer or immediate.
MicrotasksDone ==
  /\ \A j \in slot : promise[j] = "open"
  /\ ~ (closing /\ waiter[Closer] = "done")

\* The armed callback.
Fire ==
  /\ ~ pumping /\ MicrotasksDone
  /\ wake.kind = "immediate" \/ (wake.kind = "timer" /\ now >= wake.at)
  /\ ~ closed /\ ~ paused
  /\ PumpTurn(NoWake)

\* The loop goes on after the listeners, whatever they called.
PumpOn ==
  /\ pumping
  /\ PumpTurn(wake)

\* The handler's promise settles; so does the caller's.
HandlerSettles(j, outcome) ==
  /\ j \in slot /\ promise[j] = "open" /\ ~ pumping
  /\ promise' = [promise EXCEPT ![j] = outcome]
  /\ UNCHANGED <<now, pending, running, sequence, job, slot, flags, wake, waiter, pumping>>

\* The finally() of #start.
Release(j) ==
  /\ j \in slot /\ promise[j] # "open" /\ ~ pumping
  /\ slot' = slot \ {j}
  /\ running' = IF running - 1 < 0 THEN 0 ELSE running - 1
  /\ UNCHANGED <<now, pending, sequence, job, promise, flags, pumping>>
  /\ Arm(waiter)

Tick ==
  /\ now < MaxTime
  /\ now' = now + 1
  /\ UNCHANGED <<pending, running, sequence, job, promise, slot, flags, wake,
                 waiter, pumping>>

Calls ==
  \/ \E j \in Jobs : EnqueueRefused(j) \/ EnqueueAborted(j) \/ Abort(j)
  \/ \E j \in Jobs, at \in RunAts, priority \in Priorities : Enqueue(j, at, priority)
  \/ Clear \/ Pause \/ Resume \/ Close \/ ForceClose
  \/ \E w \in Waiters : Drain(w)

Next ==
  \/ Calls
  \/ Fire \/ PumpOn \/ FinishClose
  \/ \E j \in Jobs :
       Release(j) \/ (\E o \in {"resolved", "rejected"} : HandlerSettles(j, o))
  \/ Tick

Spec == Init /\ [][Next]_vars

\* The event loop runs what is due, and handlers settle.
Fairness ==
  /\ WF_vars(Fire) /\ WF_vars(PumpOn) /\ WF_vars(FinishClose) /\ WF_vars(Tick)
  /\ \A j \in Jobs : /\ WF_vars(Release(j))
                     /\ WF_vars(\E o \in {"resolved", "rejected"} : HandlerSettles(j, o))

FairSpec == Spec /\ Fairness

-----------------------------------------------------------------------------
(***************************************************************************)
(* Properties                                                              *)
(***************************************************************************)

\* Every field holds a value of its type.
TypeOK ==
  /\ now \in 0 .. MaxTime
  /\ pending \subseteq Jobs /\ slot \subseteq Jobs
  /\ running \in Nat /\ sequence \in Nat
  /\ job \in [Jobs -> [runAt : 0 .. MaxTime, priority : Nat, sequence : Nat]]
  /\ promise \in [Jobs -> {"none", "open", "resolved", "rejected"}]
  /\ paused \in BOOLEAN /\ closing \in BOOLEAN /\ closed \in BOOLEAN
  /\ pumping \in BOOLEAN
  /\ wake \in [kind : {"none", "immediate", "timer"}, at : 0 .. MaxTime]
  /\ waiter \in [Waiters \cup {Closer} -> {"none", "waiting", "done"}]

\* #running counts the started jobs whose chain has not ended, and never
\* passes the concurrency limit; #pending keeps to maxPending.
WithinLimits ==
  /\ running = Cardinality(slot)
  /\ running <= Concurrency
  /\ Cardinality(pending) <= MaxPending

\* No lost wake-up: while a job waits, a slot is free and the queue is
\* neither paused nor closed, a callback is armed, at once or for the first
\* job's runAt.
WakeupArmed ==
  pending # {} /\ running < Concurrency /\ ~ paused /\ ~ closed /\ ~ pumping =>
    \/ wake.kind = "immediate"
    \/ (wake.kind = "timer" /\ wake.at = job[First(pending, job)].runAt)

\* An idle queue keeps no drain() waiting, unless it is paused, or was closed
\* by force before the drain() was called.
IdleReleasesWaiters ==
  Idle /\ ~ paused /\ ~ closed => \A w \in DOMAIN waiter : waiter[w] # "waiting"

\* Once closed() holds nothing waits in the queue and no callback is armed.
ClosedIsEmpty == closed => pending = {} /\ wake = NoWake

\* Whatever calls, timers and listeners do, the queue keeps its limits, forgets
\* neither a job that could start nor a drain() that could return, and is empty
\* once it is closed.
QueueSafe == WithinLimits /\ WakeupArmed /\ IdleReleasesWaiters /\ ClosedIsEmpty

\* Of two accepted jobs with the same runAt, the one that started was not
\* overtaking: whatever still waits has a lower priority or came later.
NoOvertaking ==
  \A j, k \in Jobs :
    /\ j \in slot /\ k \in pending /\ job[j].runAt = job[k].runAt
    /\ job[k].sequence < job[j].sequence
    => job[k].priority < job[j].priority

\* A job starts no earlier than its runAt, and a paused queue starts none,
\* except in the very turn whose listener paused it.
StartsInTime ==
  [][\A j \in Jobs : j \in slot' \ slot => job[j].runAt <= now /\ (~ paused \/ pumping)]_vars

\* The queue implements the job life cycle: no job is lost, run twice or
\* run after it was dropped, and the limit holds.
Phase == [j \in Jobs |->
            IF promise[j] = "none" THEN "new"
            ELSE IF promise[j] # "open" THEN "settled"
            ELSE IF j \in pending /\ j \notin slot THEN "waiting"
            ELSE IF j \in slot /\ j \notin pending THEN "running"
            ELSE "lost"]
Lifecycle == INSTANCE JobLifecycle WITH phase <- Phase
LifecycleImplemented == Lifecycle!Spec

\* If the queue is not left paused for ever, every accepted job settles,
\* every drain() that waits on an open queue returns, and close() closes it.
EverythingSettles ==
  (<>[]~ paused) =>
    /\ \A j \in Jobs : promise[j] = "open" ~> promise[j] # "open"
    /\ \A w \in Waiters : waiter[w] = "waiting" /\ ~ closed ~> waiter[w] = "done"
    /\ closing ~> closed
=============================================================================
