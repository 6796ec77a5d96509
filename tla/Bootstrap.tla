------------------------------- MODULE Bootstrap -------------------------------
(***************************************************************************)
(* The runtime that createGenericAI() returns (core/src/bootstrap):        *)
(* run(), stream() and stop() over the plugin host's runLifecycle().       *)
(*                                                                         *)
(* Every await is a point where another call may run.  Plugins are known   *)
(* by their position in resolveOrder(), which PluginOrder shows to put     *)
(* dependencies first.  A run's own event stream has no subscribers, so    *)
(* its emit() is one step.                                                 *)
(***************************************************************************)
EXTENDS Naturals, Sequences, FiniteSets

CONSTANTS
  PluginCount,  \* plugins with all three hooks
  Runs,         \* run() and stream() calls
  Streams,      \* those that are stream() calls
  Stops,        \* stop() calls
  MayThrow,     \* the plugins whose hooks may throw
  Unprintable,  \* runs with an output that finalize() throws on
  None

VARIABLES
  callers,  \* how stop() is called: see CallStop
  throwing, \* the plugins whose hooks do throw at times
  startupState,
  startupPromise, \* the run that began the startup, or None
  startup,  \* the startup each run began: state, and how many hooks were called
  run,      \* run() and stream() calls: state, and the startup awaited
  stop,     \* stop() calls: state, and how many hooks were called
  log,      \* surfaces.lifecycle.events(), by plugin
  events,   \* the names on each run's event stream
  envelope  \* the status of the envelope that the caller received

given == <<callers, throwing>>
calls == <<run, events, envelope>>
vars == <<given, startupState, startupPromise, startup, run, stop, log, events, envelope>>

Plugins == 1 .. PluginCount

\* A startup without plugins calls no hook.
ASSUME BootstrapAssumption ==
  /\ PluginCount \in Nat \ {0} /\ MayThrow \subseteq Plugins
  /\ Streams \subseteq Runs /\ Unprintable \subseteq Runs
  /\ None \notin Runs

Init ==
  /\ callers \in {"free", "serial", "graceful"} /\ throwing \in SUBSET MayThrow
  /\ startupState = "idle" /\ startupPromise = None
  /\ startup = [s \in Runs |-> [state |-> "unused", at |-> 0]]
  /\ run = [r \in Runs |-> [state |-> "idle", on |-> None]]
  /\ stop = [c \in Stops |-> [state |-> "idle", at |-> 0]]
  /\ log = [p \in Plugins |-> << >>]
  /\ events = [r \in Runs |-> << >>]
  /\ envelope = [r \in Runs |-> "none"]

InFlight(r) == run[r].state \notin {"idle", "done", "rejected", "abandoned"}
Stopping == \E c \in Stops : stop[c].state = "stopping"

(***************************************************************************)
(* runLifecycle(): hooks one after the other, setup and start in order     *)
(* and stop in reverse order; the first that throws ends it.               *)
(***************************************************************************)
Record(p, phase) == log' = [log EXCEPT ![p] = Append(@, phase)]

\* The k-th hook of a startup, setup first, then start.
CallStartupHook(k) ==
  IF k <= PluginCount THEN Record(k, "setup") ELSE Record(k - PluginCount, "start")

StartupPlugin(k) == IF k <= PluginCount THEN k ELSE k - PluginCount

CallStopHook(k) == Record(PluginCount + 1 - k, "stop")

HookReturns(s) ==
  /\ startup[s].state = "running"
  /\ IF startup[s].at < 2 * PluginCount
     THEN /\ startup' = [startup EXCEPT ![s].at = @ + 1]
          /\ CallStartupHook(startup[s].at + 1)
          /\ UNCHANGED startupState
     ELSE /\ startup' = [startup EXCEPT ![s].state = "done"]
          /\ startupState' = "started"
          /\ UNCHANGED log
  /\ UNCHANGED <<given, startupPromise, stop, calls>>

HookThrows(s) ==
  /\ startup[s].state = "running"
  /\ StartupPlugin(startup[s].at) \in throwing
  /\ startup' = [startup EXCEPT ![s].state = "failed"]
  /\ UNCHANGED <<given, startupState, startupPromise, stop, log, calls>>

-----------------------------------------------------------------------------
To(r, state) == [run EXCEPT ![r].state = state]
Emit(r, name) == events' = [events EXCEPT ![r] = Append(@, name)]

MustStart == startupState # "started" /\ startupPromise = None

\* run() or stream(), as far as ensureStarted()'s first await.
Call(r) ==
  /\ run[r].state = "idle"
  /\ callers = "graceful" => ~ Stopping
  /\ \/ /\ startupState = "started"
        /\ run' = To(r, "ready")
        /\ UNCHANGED <<startupState, startupPromise, startup, log>>
     \/ /\ startupState # "started" /\ startupPromise # None
        /\ run' = [run EXCEPT ![r] = [state |-> "waiting", on |-> startupPromise]]
        /\ UNCHANGED <<startupState, startupPromise, startup, log>>
     \/ /\ MustStart
        /\ startupState' = "starting" /\ startupPromise' = r
        /\ startup' = [startup EXCEPT ![r] = [state |-> "running", at |-> 1]]
        /\ CallStartupHook(1)
        /\ run' = [run EXCEPT ![r] = [state |-> "waiting", on |-> r]]
  /\ UNCHANGED <<given, stop, events, envelope>>

\* Mutant: a failed startup's promise is kept.
ResetKept == startupState' = "idle" /\ UNCHANGED startupPromise

\* The catch of ensureStarted().
Reset == startupState' = "idle" /\ startupPromise' = None

\* Mutant: only the run that began the startup is told.
ResumeOwner(r) ==
  /\ run[r].state = "waiting" /\ run[r].on = r
  /\ startup[run[r].on].state = "done"
  /\ run' = To(r, "ready")
  /\ UNCHANGED <<given, startupState, startupPromise, startup, stop, log, events, envelope>>

\* The awaited startup has settled.
Resume(r) ==
  /\ run[r].state = "waiting"
  /\ \/ /\ startup[run[r].on].state = "done"
        /\ run' = To(r, "ready")
        /\ UNCHANGED <<startupState, startupPromise>>
     \/ /\ startup[run[r].on].state = "failed"
        /\ run' = To(r, "rejected")
        /\ IF run[r].on = r THEN Reset ELSE UNCHANGED <<startupState, startupPromise>>
  /\ UNCHANGED <<given, startup, stop, log, events, envelope>>

(***************************************************************************)
(* executeRun() and streamRun().                                           *)
(***************************************************************************)
Create(r) == run[r].state = "ready" /\ run' = To(r, "created") /\ Emit(r, "run.created")

Start(r) == run[r].state = "created" /\ run' = To(r, "started") /\ Emit(r, "run.started")

Evaluate(r) == run[r].state = "started" /\ run' = To(r, "task") /\ UNCHANGED events

TaskReturns(r) == run[r].state = "task" /\ run' = To(r, "completed") /\ Emit(r, "run.completed")

\* Mutant: the failure of a task is not put on the stream.
TaskThrowsSilently(r) == run[r].state = "task" /\ run' = To(r, "failed") /\ UNCHANGED events

TaskThrows(r) == run[r].state = "task" /\ run' = To(r, "failed") /\ Emit(r, "run.failed")

\* run() returns finalizeRunEnvelope()'s promise out of its try block, while
\* stream() awaits it there: only stream() turns a failure into run.failed.
FinalizeThrows(r) ==
  /\ run[r].state = "completed" /\ r \in Unprintable
  /\ IF r \in Streams
     THEN run' = To(r, "failed") /\ Emit(r, "run.failed")
     ELSE run' = To(r, "rejected") /\ UNCHANGED events

Finalize(r) ==
  /\ \/ run[r].state = "completed" /\ r \notin Unprintable
        /\ envelope' = [envelope EXCEPT ![r] = "succeeded"]
     \/ run[r].state = "failed" /\ envelope' = [envelope EXCEPT ![r] = "failed"]
  /\ run' = To(r, "done")
  /\ UNCHANGED events

\* The consumer of a stream leaves its loop at an event.
Abandon(r) ==
  /\ r \in Streams /\ run[r].state \in {"created", "started", "completed", "failed"}
  /\ run' = To(r, "abandoned")
  /\ UNCHANGED events

RunStep(r) ==
  /\ \/ Finalize(r)
     \/ /\ \/ Create(r) \/ Start(r) \/ Evaluate(r)
           \/ TaskReturns(r) \/ TaskThrows(r) \/ FinalizeThrows(r) \/ Abandon(r)
        /\ UNCHANGED envelope
  /\ UNCHANGED <<given, startupState, startupPromise, startup, stop, log>>

(***************************************************************************)
(* stop(): startupState stays "started" while the hooks run.  Callers are  *)
(* "free" to overlap calls of stop(), or make them one at a time           *)
(* ("serial"), or also keep them apart from their runs ("graceful").       *)
(***************************************************************************)
CallStop(c) ==
  /\ stop[c].state = "idle"
  /\ callers # "free" => ~ Stopping
  /\ callers = "graceful" => \A r \in Runs : ~ InFlight(r)
  /\ IF startupState # "started"
     THEN stop' = [stop EXCEPT ![c].state = "done"] /\ UNCHANGED log
     ELSE stop' = [stop EXCEPT ![c] = [state |-> "stopping", at |-> 1]] /\ CallStopHook(1)
  /\ UNCHANGED <<given, startupState, startupPromise, startup, calls>>

Stopped == startupState' = "idle" /\ startupPromise' = None

StopHookReturns(c) ==
  /\ stop[c].state = "stopping"
  /\ IF stop[c].at < PluginCount
     THEN /\ stop' = [stop EXCEPT ![c].at = @ + 1]
          /\ CallStopHook(stop[c].at + 1)
          /\ UNCHANGED <<startupState, startupPromise>>
     ELSE /\ stop' = [stop EXCEPT ![c].state = "done"]
          /\ Stopped
          /\ UNCHANGED log
  /\ UNCHANGED <<given, startup, calls>>

StopHookThrows(c) ==
  /\ stop[c].state = "stopping"
  /\ PluginCount + 1 - stop[c].at \in throwing
  /\ stop' = [stop EXCEPT ![c].state = "rejected"]
  /\ UNCHANGED <<given, startupState, startupPromise, startup, log, calls>>

Next ==
  \/ \E s \in Runs : HookReturns(s) \/ HookThrows(s)
  \/ \E r \in Runs : Call(r) \/ Resume(r) \/ RunStep(r)
  \/ \E c \in Stops : CallStop(c) \/ StopHookReturns(c) \/ StopHookThrows(c)

Spec == Init /\ [][Next]_vars

\* Hooks and tasks settle, promises continue and streams are consumed.
Fairness ==
  /\ \A s \in Runs : WF_vars(HookReturns(s))
  /\ \A r \in Runs : WF_vars(Resume(r)) /\ WF_vars(RunStep(r))
  /\ \A c \in Stops : WF_vars(StopHookReturns(c))

FairSpec == Spec /\ Fairness

-----------------------------------------------------------------------------
(***************************************************************************)
(* Properties                                                              *)
(***************************************************************************)
\* If stop() calls do not overlap, concurrent runs share one startup: the
\* state names the one that runs, so two never run at once, and a failed one
\* is named only until the run that began it has failed too.
StartupShared ==
  callers # "free" =>
    \A s \in Runs :
      /\ startup[s].state = "running" =>
           startupState = "starting" /\ startupPromise = s
      /\ startup[s].state = "failed" /\ startupPromise = s =>
           startupState = "starting" /\ run[s].state = "waiting"

\* If no hook throws and stop() is called between runs only, each plugin's
\* hooks run in cycles of setup, start and stop, and a task runs only while
\* every plugin is started.
PluginsUp ==
  callers = "graceful" /\ throwing = {} =>
    /\ \A p \in Plugins : \A i \in DOMAIN log[p] :
         log[p][i] = CASE i % 3 = 1 -> "setup" [] i % 3 = 2 -> "start" [] i % 3 = 0 -> "stop"
    /\ \A r \in Runs : run[r].state = "task" =>
         /\ ~ Stopping
         /\ \A p \in Plugins : log[p] # << >> /\ log[p][Len(log[p])] = "start"

\* Runs share a startup, and run on plugins that are up.
StartupSound == StartupShared /\ PluginsUp

\* What a stream of events tells agrees with the envelope: a run that
\* reached its caller has the events of that outcome, a run that failed to
\* start has none.
EventsTellOutcome ==
  \A r \in Runs \ Unprintable :
    LET begun == <<"run.created", "run.started">>
    IN /\ envelope[r] = "succeeded" => events[r] = Append(begun, "run.completed")
       /\ envelope[r] = "failed" => events[r] = Append(begun, "run.failed")
       /\ run[r].state = "rejected" => events[r] = << >> /\ envelope[r] = "none"

\* Every run() and stop() settles, if hooks and tasks do.
CallsSettle ==
  /\ \A r \in Runs : run[r].state = "waiting" ~> ~ InFlight(r)
  /\ \A c \in Stops : stop[c].state = "stopping" ~> stop[c].state # "stopping"
=============================================================================
