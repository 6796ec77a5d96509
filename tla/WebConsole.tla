------------------------------- MODULE WebConsole -------------------------------
(***************************************************************************)
(* One chat thread of the web console: its status, its runs, and its       *)
(* events as they are numbered, stored and streamed.                       *)
(* packages/plugin-web-ui/src/server.ts; threads share nothing but maps    *)
(* that are keyed by the thread.                                           *)
(*                                                                         *)
(* Posting a message runs the harness and answers when it is over; another *)
(* request may post again or interrupt at any of its awaits.  What a call  *)
(* saves is its own copy of the thread record, read when it began.         *)
(***************************************************************************)
EXTENDS Naturals, Sequences

CONSTANTS
  Posts,        \* calls of postMessage()
  Interrupts,   \* calls of interruptThread()
  Streams,      \* calls of streamThreadEvents()
  MaxCrashes    \* bound: restarts of the host

Calls == Posts \cup Interrupts
NoCall == "no call"

ASSUME ConsoleAssumption == Posts \cap Interrupts = {} /\ NoCall \notin Calls /\ MaxCrashes \in Nat

VARIABLES
  thread,    \* the stored record's status and title; status "none" before it exists
  events,    \* the numbers of the stored events, in the order they were stored
  cache,     \* eventSequenceByThread; 0 when the map has no entry
  lock,      \* who holds the thread's event lock
  active,    \* activeRuns: the post whose controller is registered
  aborted,   \* posts whose signal is aborted
  call,      \* of each call: [at, copy, outcome], and [number, stored] of the event it emits
  reader,    \* of each stream: [at, from, got, missed]
  crashes,
  crossed    \* posts whose run began during another one

consoleVars == <<thread, events, cache, lock, active, aborted, call, reader, crashes, crossed>>
ghosts == <<crashes, crossed>>

NoThread == [status |-> "none", titled |-> FALSE]

\* A call that is at some step and remembers nothing; number 0 is none.
Fresh(step) == [at |-> step, copy |-> NoThread, outcome |-> "none", number |-> 0, stored |-> FALSE]
NotRead == [at |-> "off", from |-> 0, got |-> <<>>, missed |-> {}]

ConsoleInit ==
  /\ thread = NoThread
  /\ events = <<>> /\ cache = 0 /\ lock = NoCall
  /\ active = NoCall /\ aborted = {}
  /\ call = [p \in Calls |-> Fresh("start")]
  /\ reader = [s \in Streams |-> NotRead]
  /\ crashes = 0 /\ crossed = {}

Goes(p, step) == call' = [call EXCEPT ![p].at = step]

(***************************************************************************)
(* emitEvent(): number and store under the lock, then push                 *)
(***************************************************************************)
\* The steps that emit an event, and the step after each: thread.created,
\* message.created, run.started, message.created, the run's end, run.interrupted.
After == [ensured |-> "titling", posted |-> "registering", begun |-> "running",
          replied |-> "closing", closed |-> "leaving", stopped |-> "done"]

Emitting(p) == call[p].at \in DOMAIN After
Stored == {events[i] : i \in DOMAIN events}

\* The number under which the thread's next event goes: the cached one, or the
\* one after the highest that is stored.
NextNumber ==
  IF cache # 0 THEN {cache}
  ELSE {n + 1 : n \in {n \in {0} \cup Stored : \A m \in Stored : m <= n}}

\* withEventSequenceLock(): one call at a time has the thread's lock.
Locks(p) == lock = NoCall /\ lock' = p

\* nextEventSequence(), under the lock
TakeNumber(p) ==
  /\ Emitting(p) /\ call[p].number = 0
  /\ Locks(p)
  /\ \E number \in NextNumber :
       /\ cache' = number + 1
       /\ call' = [call EXCEPT ![p].number = number]
  /\ UNCHANGED <<thread, events, active, aborted, reader, ghosts>>

StoreEvent(p) ==
  /\ call[p].number # 0 /\ ~ call[p].stored
  /\ events' = Append(events, call[p].number)
  /\ call' = [call EXCEPT ![p].stored = TRUE]
  /\ UNCHANGED <<thread, cache, lock, active, aborted, reader, ghosts>>

\* The lock is released, and the event pushed before the next one can be stored.
PushEvent(p) ==
  /\ call[p].stored
  /\ lock' = NoCall
  /\ reader' = [s \in Streams |->
       CASE reader[s].at = "live"   -> [reader[s] EXCEPT !.got = Append(@, call[p].number)]
         [] reader[s].at = "listed" -> [reader[s] EXCEPT !.missed = @ \cup {call[p].number}]
         [] OTHER -> reader[s]]
  /\ call' = [call EXCEPT ![p].at = After[@], ![p].number = 0, ![p].stored = FALSE]
  /\ UNCHANGED <<thread, events, cache, active, aborted, ghosts>>

(***************************************************************************)
(* postMessage()                                                           *)
(***************************************************************************)
\* ensureThread() reads the record; it has something to save when the thread is
\* new, or the message selects another agent or harness.
Ensure(p) ==
  /\ p \in Posts /\ call[p].at = "start"
  /\ \E step \in IF thread.status = "none" THEN {"creating"} ELSE {"selecting", "titling"} :
       call' = [call EXCEPT ![p].at = step, ![p].copy = thread]
  /\ UNCHANGED <<thread, events, cache, lock, active, aborted, reader, ghosts>>

\* A thread that is new is saved and told ...
Create(p) ==
  /\ call[p].at = "creating"
  /\ thread' = [status |-> "idle", titled |-> FALSE]
  /\ call' = [call EXCEPT ![p].at = "ensured", ![p].copy = thread']
  /\ UNCHANGED <<events, cache, lock, active, aborted, reader, ghosts>>

\* ... a selection is saved with the rest of the copy.
Select(p) ==
  /\ call[p].at = "selecting"
  /\ thread' = call[p].copy /\ Goes(p, "titling")
  /\ UNCHANGED <<events, cache, lock, active, aborted, reader, ghosts>>

\* A thread that has no title gets that of the message, which is not empty, and
\* the status of the copy.
Title(p) ==
  /\ call[p].at = "titling"
  /\ call' = [call EXCEPT ![p] = Fresh("posted")]
  /\ thread' = IF call[p].copy.titled THEN thread ELSE [call[p].copy EXCEPT !.titled = TRUE]
  /\ UNCHANGED <<events, cache, lock, active, aborted, reader, ghosts>>

InRun(p) == call[p].at \in {"starting", "begun", "running", "replied", "closing", "closed", "leaving"}

\* activeRuns.set() replaces the controller of a run that is under way.
Register(p) ==
  /\ call[p].at = "registering"
  /\ active' = p /\ Goes(p, "starting")
  /\ crossed' = LET others == {q \in Posts : InRun(q)} IN IF others = {} THEN crossed ELSE crossed \cup others \cup {p}
  /\ UNCHANGED <<thread, events, cache, lock, aborted, reader, crashes>>

\* setThreadStatus() writes the call's copy, which has the title by now.
Saved(status) == thread' = [status |-> status, titled |-> TRUE]

Start(p) ==
  /\ call[p].at = "starting" /\ Saved("running") /\ Goes(p, "begun")
  /\ UNCHANGED <<events, cache, lock, active, aborted, reader, ghosts>>

\* The runner answers with a status, or throws, as it does on its signal.
Outcomes == {"completed", "failed", "threw"}

RunnerSettles(p, outcome) ==
  /\ call[p].at = "running"
  /\ call' = [call EXCEPT ![p].at = "replied", ![p].outcome = outcome]
  /\ UNCHANGED <<thread, events, cache, lock, active, aborted, reader, ghosts>>

\* Mutant: a run that failed leaves the status as it is.
FinishQuietly(p) ==
  /\ call[p].at = "closing"
  /\ IF call[p].outcome = "threw" THEN UNCHANGED thread ELSE Saved(call[p].outcome)
  /\ call' = [call EXCEPT ![p] = Fresh("closed")]
  /\ UNCHANGED <<events, cache, lock, active, aborted, reader, ghosts>>

\* The statuses at the end, which the run.* event tells; the signal may also be
\* aborted because the client that posted has gone.
Ending(p) ==
  CASE call[p].outcome # "threw" -> {call[p].outcome}
    [] call[p].outcome = "threw" /\ p \in aborted -> {"interrupted"}
    [] OTHER -> {"interrupted", "failed"}

Finish(p) ==
  /\ call[p].at = "closing"
  /\ \E status \in Ending(p) : Saved(status)
  /\ call' = [call EXCEPT ![p] = Fresh("closed")]
  /\ UNCHANGED <<events, cache, lock, active, aborted, reader, ghosts>>

\* finally: the entry of the thread goes, whosever controller it holds.
Leave(p) ==
  /\ call[p].at = "leaving"
  /\ active' = NoCall /\ aborted' = aborted \ {p} /\ crossed' = crossed \ {p}
  /\ call' = [call EXCEPT ![p] = Fresh("done")]
  /\ UNCHANGED <<thread, events, cache, lock, reader, crashes>>

(***************************************************************************)
(* interruptThread() and streamThreadEvents()                              *)
(***************************************************************************)
Stopping == IF thread.status = "none" THEN Fresh("done") ELSE [Fresh("stopping") EXCEPT !.copy = thread]

\* Mutant: only a thread that says so is taken to be running.
InterruptRunning(i) ==
  /\ i \in Interrupts /\ call[i].at = "start"
  /\ aborted' = aborted \cup (IF thread.status = "running" THEN {active} \ {NoCall} ELSE {})
  /\ call' = [call EXCEPT ![i] = Stopping]
  /\ UNCHANGED <<thread, events, cache, lock, active, reader, ghosts>>

Interrupt(i) ==
  /\ i \in Interrupts /\ call[i].at = "start"
  /\ aborted' = aborted \cup ({active} \ {NoCall})
  /\ call' = [call EXCEPT ![i] = Stopping]
  /\ UNCHANGED <<thread, events, cache, lock, active, reader, ghosts>>

MarkInterrupted(i) ==
  /\ call[i].at = "stopping"
  /\ thread' = [call[i].copy EXCEPT !.status = "interrupted"]
  /\ call' = [call EXCEPT ![i] = Fresh("stopped")]
  /\ UNCHANGED <<events, cache, lock, active, aborted, reader, ghosts>>

\* What is stored after an event; the list is in the order of the numbers, so
\* what the filter leaves is its end.
StoredAfter(from) ==
  {SubSeq(events, n + 1, Len(events)) :
     n \in {n \in 0..Len(events) : \A i \in DOMAIN events : events[i] > from <=> i > n}}

\* What is stored is sent first ...
ListStored(s, from) ==
  /\ reader[s].at = "off"
  /\ \E sent \in StoredAfter(from) :
       reader' = [reader EXCEPT ![s] = [at |-> "listed", from |-> from, got |-> sent, missed |-> {}]]
  /\ UNCHANGED <<thread, events, cache, lock, active, aborted, call, ghosts>>

\* ... and only when the client has taken it all does the stream subscribe.
Subscribe(s) ==
  /\ reader[s].at = "listed" /\ reader' = [reader EXCEPT ![s].at = "live"]
  /\ UNCHANGED <<thread, events, cache, lock, active, aborted, call, ghosts>>

\* The host restarts on the same storage.
Crash ==
  /\ crashes < MaxCrashes /\ crashes' = crashes + 1
  /\ cache' = 0 /\ lock' = NoCall /\ active' = NoCall
  /\ call' = [p \in Calls |-> Fresh(IF call[p].at = "start" THEN "start" ELSE "done")]
  /\ reader' = [s \in Streams |-> NotRead]
  /\ aborted' = {} /\ crossed' = {}
  /\ UNCHANGED <<thread, events>>

ConsoleNext ==
  \/ Crash
  \/ \E p \in Calls : TakeNumber(p) \/ StoreEvent(p) \/ PushEvent(p)
  \/ \E p \in Posts :
       \/ Ensure(p) \/ Create(p) \/ Select(p) \/ Title(p) \/ Register(p) \/ Start(p) \/ Finish(p) \/ Leave(p)
       \/ \E outcome \in Outcomes : RunnerSettles(p, outcome)
  \/ \E i \in Interrupts : Interrupt(i) \/ MarkInterrupted(i)
  \/ \E s \in Streams : Subscribe(s) \/ \E from \in 0..1 : ListStored(s, from)

ConsoleSpec == ConsoleInit /\ [][ConsoleNext]_consoleVars

-----------------------------------------------------------------------------
(***************************************************************************)
(* Properties                                                              *)
(***************************************************************************)
\* The events of a thread are numbered from 1 without a gap or a number used
\* twice, in the order they are stored, whoever emits them and however often
\* the host restarts.
EventsNumbered == \A i \in DOMAIN events : events[i] = i

\* When no call is under way the thread does not say that it runs, unless the
\* host went down; copies of the record that were read long ago do not matter.
QuietThreadSaysSo ==
  crashes = 0 /\ (\A p \in Calls : call[p].at \in {"start", "done"}) => thread.status # "running"

\* A stream tells each event after the one it starts from, in order; what it
\* misses was pushed while it still sent what it had read.
StreamMissesOnlyGap ==
  \A s \in Streams : reader[s].at # "off" =>
    /\ \A i, j \in DOMAIN reader[s].got : i < j => reader[s].got[i] <= reader[s].got[j]
    /\ \A n \in Stored : n > reader[s].from =>
         \/ n \in reader[s].missed
         \/ \E i \in DOMAIN reader[s].got : reader[s].got[i] = n
         \/ \E p \in Calls : call[p].number = n

\* The events of a thread are numbered without gap or duplicate, one on which
\* nothing is under way does not say that it runs, and a stream misses only what
\* was pushed before it subscribed (emitEvent(), setThreadStatus() and
\* streamThreadEvents()).
ThreadTold == EventsNumbered /\ QuietThreadSaysSo /\ StreamMissesOnlyGap

\* An interruption reaches the run that is under way, from its registration to
\* its end, unless runs of the thread overlapped (interruptThread()).
InterruptReaches ==
  \A i \in Interrupts : call[i].at = "start" /\ call'[i].at # "start" =>
    {p \in Posts : InRun(p)} \subseteq aborted' \cup crossed

InterruptionReaches == [][InterruptReaches]_consoleVars
=============================================================================
