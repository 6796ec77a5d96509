------------------------------ MODULE MC_Runtime ------------------------------
(***************************************************************************)
(* The parts under the runtime that share no state, side by side: a        *)
(* behaviour is of one of them, which PartsInit chooses.  PluginOrder has  *)
(* three plugins and every graph of dependencies on them; Bootstrap two    *)
(* plugins, a run, a stream and two stops; MemoryQueue two jobs on one     *)
(* slot, with the fairness of its event loop.                              *)
(***************************************************************************)
EXTENDS PluginOrder, Bootstrap

CONSTANTS j1, j2, w1, Closer   \* model values

VARIABLES
  part,
  now, pending, running, sequence, job, promise, slot, paused, closing, closed, wake, waiter, pumping

jobs == <<now, pending, running, sequence, job, promise, slot, paused, closing, closed, wake, waiter, pumping>>

Queue == INSTANCE MemoryQueue WITH
  Jobs <- {j1, j2}, Waiters <- {w1}, Concurrency <- 1, MaxPending <- 2, RunAts <- {0, 1}, Priorities <- {0}, MaxTime <- 1

Is(name) == part = name

PartsInit ==
  /\ part \in {"plugins", "runtime", "queue"}
  /\ OrderInit /\ Init /\ Queue!Init
  /\ ~ Is("runtime") => callers = "free" /\ throwing = {}

PartsNext ==
  /\ UNCHANGED part
  /\ \/ Is("plugins") /\ OrderNext  /\ UNCHANGED <<vars, jobs>>
     \/ Is("runtime") /\ Next       /\ UNCHANGED <<plugins, jobs>>
     \/ Is("queue")   /\ Queue!Next /\ UNCHANGED <<plugins, vars>>

\* The fairness of the part that is chosen: Queue!Fairness, and that of Bootstrap,
\* none of whose fair actions is enabled in its initial state.
PartsFairness ==
  /\ Fairness
  /\ WF_jobs(Is("queue") /\ Queue!Fire) /\ WF_jobs(Is("queue") /\ Queue!PumpOn)
  /\ WF_jobs(Is("queue") /\ Queue!FinishClose) /\ WF_jobs(Is("queue") /\ Queue!Tick)
  /\ \A j \in {j1, j2} :
       /\ WF_jobs(Is("queue") /\ Queue!Release(j))
       /\ WF_jobs(Is("queue") /\ \E o \in {"resolved", "rejected"} : Queue!HandlerSettles(j, o))

PartsSpec == PartsInit /\ [][PartsNext]_<<part, plugins, vars, jobs>> /\ PartsFairness

-----------------------------------------------------------------------------
\* Every accepted job settles, every drain() returns and close() closes, unless
\* the queue is left paused (plugin-queue-memory).
EverythingSettles == Queue!EverythingSettles
=============================================================================
