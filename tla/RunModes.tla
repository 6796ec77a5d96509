-------------------------------- MODULE RunModes --------------------------------
(***************************************************************************)
(* Run modes on the shared session machine, with the manual scheduler:     *)
(* packages/core/src/{run-modes,scheduler}.                                *)
(*                                                                         *)
(* A run owns the root session of the same name.  Tasks get the session    *)
(* and may create children; those in Meddling also end it themselves.      *)
(***************************************************************************)
EXTENDS Naturals, Sequences

CONSTANTS
  SyncRuns, AsyncRuns, \* run() calls of the two modes
  Children,            \* sessions that tasks may create
  Meddling,            \* runs whose task may end its own session
  Refused              \* runs whose schedule() call throws

Runs == SyncRuns \cup AsyncRuns
Sessions == Runs \cup Children

VARIABLES
  state,   \* of each session; "none" before it is built
  parentOf,  \* of each child: the run that made it
  heard,   \* the events an observer of each session has seen, in order
  run,     \* where each run() call is
  queue    \* the manual scheduler's queue

modesVars == <<state, parentOf, heard, run, queue>>

Nobody == "nobody"

ModesInit ==
  /\ state = [s \in Sessions |-> "none"]
  /\ parentOf = [c \in Children |-> Nobody]
  /\ heard = [s \in Sessions |-> << >>]
  /\ run = [r \in Runs |-> "idle"]
  /\ queue = << >>

(***************************************************************************)
(* The session machine.  notify() bubbles from a session to its root; a    *)
(* child's parent is a root, the deepest tree that runs build here.        *)
(***************************************************************************)
Lineage(s) == IF s \in Children THEN {s, parentOf[s]} ELSE {s}

Notified(s, type, at) ==
  [t \in Sessions |-> IF t \in at THEN Append(heard[t], <<s, type>>) ELSE heard[t]]

\* Mutant: a cancelled session may still complete.
MayBecomeLax(s, next) ==
  \/ next = "running" /\ state[s] = "idle"
  \/ next # "running" /\ state[s] \in {"idle", "running", "cancelled"}

\* The guards of transition().
MayBecome(s, next) ==
  \/ next = "running" /\ state[s] = "idle"
  \/ next = "cancelled" /\ state[s] \in {"idle", "running"}
  \/ next \in {"succeeded", "failed"} /\ state[s] = "running"

Transition(s, next) ==
  /\ MayBecome(s, next)
  /\ state' = [state EXCEPT ![s] = next]
  /\ heard' = Notified(s, next, Lineage(s))

-----------------------------------------------------------------------------
(***************************************************************************)
(* Async mode: create and start the session, schedule completeSession().   *)
(***************************************************************************)
Schedule(r) ==
  /\ r \in AsyncRuns \ Refused /\ run[r] = "idle"
  /\ state' = [state EXCEPT ![r] = "running"]
  /\ heard' = [heard EXCEPT ![r] = <<<<r, "created">>, <<r, "running">>>>]
  /\ run' = [run EXCEPT ![r] = "scheduled"]
  /\ queue' = Append(queue, r)
  /\ UNCHANGED parentOf

ScheduleThrows(r) ==
  /\ r \in Refused /\ run[r] = "idle"
  /\ state' = [state EXCEPT ![r] = "failed"]
  /\ heard' = [heard EXCEPT ![r] = <<<<r, "created">>, <<r, "running">>, <<r, "failed">>>>]
  /\ run' = [run EXCEPT ![r] = "rejected"]
  /\ UNCHANGED <<parentOf, queue>>

\* Mutant: the task that is last in the queue is taken and the rest dropped.
FlushNextLast ==
  /\ queue # << >>
  /\ queue' = << >>
  /\ run' = [run EXCEPT ![queue[Len(queue)]] = "dispatched"]
  /\ UNCHANGED <<state, parentOf, heard>>

\* flushNext(): run() drops the handle, so no entry of the queue is cancelled.
FlushNext ==
  /\ queue # << >>
  /\ queue' = Tail(queue)
  /\ run' = [run EXCEPT ![Head(queue)] = "dispatched"]
  /\ UNCHANGED <<state, parentOf, heard>>

\* Promise.resolve().then(task): the task is called in a later microtask.
TaskStarts(r) ==
  /\ r \in AsyncRuns /\ run[r] = "dispatched"
  /\ run' = [run EXCEPT ![r] = "task"]
  /\ UNCHANGED <<state, parentOf, heard, queue>>

TaskSettles(r, how) ==
  /\ r \in AsyncRuns /\ run[r] = "task"
  /\ run' = [run EXCEPT ![r] = how]
  /\ UNCHANGED <<state, parentOf, heard, queue>>

\* The handlers of completeSession().  A transition that throws rejects the
\* derived promise, which nobody reads: resolve and reject are not called.
Complete(r, next, how) ==
  /\ \/ Transition(r, next) /\ run' = [run EXCEPT ![r] = how]
     \/ /\ ~ MayBecome(r, next) /\ run' = [run EXCEPT ![r] = "lost"]
        /\ UNCHANGED <<state, heard>>
  /\ UNCHANGED <<parentOf, queue>>

TaskFulfilled(r) == run[r] = "returned" /\ Complete(r, "succeeded", "resolved")
TaskRejected(r) == run[r] = "threw" /\ Complete(r, "failed", "rejected")

(***************************************************************************)
(* Sync mode: one call.  left is the state in which the task leaves the    *)
(* session.  After a self-made end, succeed() throws, then fail() as well. *)
(***************************************************************************)
SyncRun(r, left, how) ==
  LET end == IF left # "running" THEN left
             ELSE IF how = "returned" THEN "succeeded" ELSE "failed"
  IN /\ r \in SyncRuns /\ run[r] = "idle"
     /\ left # "running" => r \in Meddling
     /\ run' = [run EXCEPT ![r] = IF left = "running" /\ how = "returned"
                                  THEN "resolved" ELSE "rejected"]
     /\ state' = [state EXCEPT ![r] = end]
     /\ heard' = [heard EXCEPT ![r] = <<<<r, "created">>, <<r, "running">>, <<r, end>>>>]
     /\ UNCHANGED <<parentOf, queue>>

(***************************************************************************)
(* What tasks do with sessions, while they run and afterwards.             *)
(***************************************************************************)
CreateChild(r, c) ==
  /\ run[r] = "task"
  /\ state[c] = "none"
  /\ state' = [state EXCEPT ![c] = "idle"]
  /\ parentOf' = [parentOf EXCEPT ![c] = r]
  /\ heard' = [heard EXCEPT ![c] = <<<<c, "created">>>>,
                            ![r] = @ \o <<<<c, "created">>, <<c, "child-created">>>>]
  /\ UNCHANGED <<run, queue>>

MoveChild(c, next) ==
  /\ state[c] # "none"
  /\ Transition(c, next)
  /\ UNCHANGED <<parentOf, run, queue>>

Meddle(r, next) ==
  /\ r \in Meddling \cap AsyncRuns /\ run[r] \in {"task", "returned", "threw"}
  /\ Transition(r, next)
  /\ UNCHANGED <<parentOf, run, queue>>

Ends == {"succeeded", "failed", "cancelled"}

ModesNext ==
  \/ FlushNext
  \/ \E r \in Runs :
       \/ Schedule(r) \/ ScheduleThrows(r) \/ TaskStarts(r)
       \/ TaskSettles(r, "returned") \/ TaskSettles(r, "threw")
       \/ TaskFulfilled(r) \/ TaskRejected(r)
       \/ \E next \in Ends : Meddle(r, next)
       \/ \E left \in Ends \cup {"running"} :
            SyncRun(r, left, "returned") \/ SyncRun(r, left, "threw")
       \/ \E c \in Children : CreateChild(r, c)
  \/ \E c \in Children : \E next \in Ends \cup {"running"} : MoveChild(c, next)

ModesSpec == ModesInit /\ [][ModesNext]_modesVars

\* The scheduler is flushed and tasks settle.
ModesFairness ==
  /\ WF_modesVars(FlushNext)
  /\ \A r \in AsyncRuns :
       /\ WF_modesVars(TaskStarts(r))
       /\ WF_modesVars(TaskSettles(r, "returned") \/ TaskSettles(r, "threw"))
       /\ WF_modesVars(TaskFulfilled(r) \/ TaskRejected(r))

-----------------------------------------------------------------------------
(***************************************************************************)
(* Properties                                                              *)
(***************************************************************************)
\* A session has one end: whoever races to end it, observers hear of one
\* terminal transition, and of nothing from that session afterwards.
OneEnd ==
  \A s \in Sessions : \A i, j \in DOMAIN heard[s] :
    heard[s][i][1] = s /\ heard[s][i][2] \in Ends /\ heard[s][j][1] = s => j <= i

\* However the queue is flushed, a run that was scheduled settles its promise,
\* unless its session was ended behind its back.
PromisesSettle ==
  \A r \in AsyncRuns \ Meddling : run[r] = "scheduled" ~> run[r] \in {"resolved", "rejected"}
=============================================================================
