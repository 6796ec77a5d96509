------------------------------- MODULE HarnessRun -------------------------------
(***************************************************************************)
(* A run of the agent harness: the root session, the role sessions that    *)
(* its delegate_agent calls start, and the event stream they share         *)
(* (packages/core/src/harness/agent-harness.ts and, for one session,       *)
(* runtime/capability-runtime.ts and runtime/stop-tool-loop.ts).           *)
(*                                                                         *)
(* A step is the code between two awaits that another step can tell apart. *)
(* The stream is the run's own and emitting to it does not fail.  Pi, the  *)
(* model behind session.prompt(), is external: while it works it publishes *)
(* events and calls tools, in parallel when it likes; it resolves or       *)
(* rejects when no tool call it made is running.                           *)
(***************************************************************************)
EXTENDS Integers, Sequences, FiniteSets

CONSTANTS Root,       \* the root session
          Handoffs,   \* delegate_agent calls, and the role sessions they start
          Modes,      \* turn modes a run may be configured with
          MaxTurns,   \* execution.maxTurns
          Artifacts,  \* number of artifacts writeHarnessArtifacts() writes
          Faults,     \* what may throw: policy, session, prompt hook, Pi, stop hook, store
          MaxPi       \* bound: Pi events of each session

Sessions == {Root} \cup Handoffs

ASSUME HarnessAssumption ==
  /\ Root \notin Handoffs /\ IsFiniteSet(Handoffs)
  /\ Modes \subseteq {"stop-tool-loop", "single-turn"}
  /\ MaxTurns \in Nat /\ MaxPi \in [Sessions -> Nat] /\ Artifacts \in Nat \ {0}

VARIABLES
  pc,        \* where the run of a session is
  mode,      \* the turn mode
  aborted,   \* the signal that the sessions get
  timer,     \* the deadline timer behind that signal
  log,       \* the events of each session in the stream
  queued,    \* Pi events in the session's forwarder chain
  turn,      \* prompts sent so far
  stop,      \* what stop_and_respond recorded
  handoff,   \* the last handoff event of a delegate_agent call
  written,   \* artifacts in the store
  result     \* how the session's caller was answered

vars == <<pc, mode, aborted, timer, log, queued, turn, stop, handoff, written, result>>

Goto(s, p)   == pc' = [pc EXCEPT ![s] = p]
Settle(s, r) == Goto(s, "settled") /\ result' = [result EXCEPT ![s] = r]
Emit(s, es)  == log' = [log EXCEPT ![s] = @ \o es]
Fails(p)     == p \in Faults
InFlight     == {h \in Handoffs : pc[h] \notin {"idle", "settled"}}

Init ==
  /\ pc = [s \in Sessions |-> "idle"]
  /\ mode \in Modes
  /\ aborted \in BOOLEAN
  /\ timer \in {"none", "unset", "elapsed"}
  /\ log = [s \in Sessions |-> <<>>]
  /\ queued = [s \in Sessions |-> 0]
  /\ turn = [s \in Sessions |-> 0]
  /\ stop = [s \in Sessions |-> "none"]
  /\ handoff = [h \in Handoffs |-> "none"]
  /\ written = 0
  /\ result = [s \in Sessions |-> "none"]

-----------------------------------------------------------------------------
\* The adapter's run() up to the root session.  A signal that is aborted or a
\* deadline that has passed is answered without an event; otherwise the timer
\* is set and the role policy applied, whose evaluator may throw.
Begin ==
  /\ pc[Root] = "idle"
  /\ \/ aborted /\ Settle(Root, "cancelled") /\ UNCHANGED timer
     \/ ~ aborted /\ timer = "elapsed" /\ Settle(Root, "deadline_exceeded") /\ UNCHANGED timer
     \/ /\ ~ aborted /\ timer # "elapsed"
        /\ timer' = IF timer = "unset" THEN "armed" ELSE timer
        /\ \/ Fails("policy") /\ Settle(Root, "unstarted")
           \/ Goto(Root, "create") /\ UNCHANGED result
  /\ UNCHANGED <<mode, aborted, log, queued, turn, stop, handoff, written>>

\* The caller's signal aborts the run's signal.
ParentAbort ==
  /\ pc[Root] \notin {"idle", "settled"} /\ ~ aborted
  /\ aborted' = TRUE
  /\ UNCHANGED <<pc, mode, timer, log, queued, turn, stop, handoff, written, result>>

\* createDeadlineSignal(): the timer aborts the signal.
DeadlineElapses ==
  /\ timer = "armed"
  /\ timer' = "fired" /\ aborted' = TRUE
  /\ UNCHANGED <<pc, mode, log, queued, turn, stop, handoff, written, result>>

Cleanup == timer' = IF timer = "armed" THEN "cleared" ELSE timer

\* The body of delegate_agent up to the role's session.
Delegate(h) ==
  /\ pc[Root] = "prompting" /\ pc[h] = "idle"
  /\ handoff' = [handoff EXCEPT ![h] = "accepted"]
  /\ \/ Fails("policy") /\ Settle(h, "threw")
     \/ Goto(h, "create") /\ UNCHANGED result
  /\ UNCHANGED <<mode, aborted, timer, log, queued, turn, stop, written>>

\* runCapabilityPiAgentSession() up to its try block.  The root's finally
\* releases the signal when the session cannot be created.
Create(s) ==
  /\ pc[s] = "create"
  /\ \/ /\ Fails("session") /\ Settle(s, "threw") /\ UNCHANGED log
        /\ IF s = Root THEN Cleanup ELSE UNCHANGED timer
     \/ /\ Emit(s, <<"run.created", "session.created", "run.started", "session.started">>)
        /\ Goto(s, "submit") /\ UNCHANGED <<timer, result>>
  /\ UNCHANGED <<mode, aborted, queued, turn, stop, handoff, written>>

\* The UserPromptSubmit hook, the abort check and, in the stop-tool loop, the
\* check of maxTurns precede the first prompt.
Submit(s) ==
  /\ pc[s] = "submit"
  /\ \/ /\ Fails("submit") \/ aborted \/ (mode = "stop-tool-loop" /\ MaxTurns < 1)
        /\ Goto(s, "fail") /\ UNCHANGED turn
     \/ /\ ~ aborted /\ (mode = "stop-tool-loop" => MaxTurns >= 1)
        /\ Goto(s, "prompting") /\ turn' = [turn EXCEPT ![s] = 1]
  /\ UNCHANGED <<mode, aborted, timer, log, queued, stop, handoff, written, result>>

\* Pi publishes an event: it joins the forwarder's chain.
PiEvent(s) ==
  /\ pc[s] = "prompting" /\ queued[s] + Len(log[s]) < MaxPi[s] + 4
  /\ queued' = [queued EXCEPT ![s] = @ + 1]
  /\ UNCHANGED <<pc, mode, aborted, timer, log, turn, stop, handoff, written, result>>

\* Mutant: the chain ends with the subscription.
ForwardWhilePrompting(s) ==
  /\ queued[s] > 0 /\ pc[s] = "prompting"
  /\ queued' = [queued EXCEPT ![s] = @ - 1] /\ Emit(s, <<"pi">>)
  /\ UNCHANGED <<pc, mode, aborted, timer, turn, stop, handoff, written, result>>

\* The chain emits them one by one, whatever else the session does.
Forward(s) ==
  /\ queued[s] > 0
  /\ queued' = [queued EXCEPT ![s] = @ - 1] /\ Emit(s, <<"pi">>)
  /\ UNCHANGED <<pc, mode, aborted, timer, turn, stop, handoff, written, result>>

\* stop_and_respond: noted for the loop to see once the prompt returns; a later
\* call replaces an earlier one.  "blocked" ends a run as "failed" does.
CallStop(s) ==
  /\ pc[s] = "prompting" /\ mode = "stop-tool-loop"
  /\ \E status \in {"completed", "failed"} : stop' = [stop EXCEPT ![s] = status]
  /\ UNCHANGED <<pc, mode, aborted, timer, log, queued, turn, handoff, written, result>>

\* Mutant: the loop ends at its limit as if the model had stopped.
PromptReturnsAtLimit(s) ==
  /\ pc[s] = "prompting" /\ (s = Root => InFlight = {})
  /\ IF mode = "single-turn" \/ stop[s] # "none" \/ turn[s] = MaxTurns
     THEN Goto(s, "stop") /\ UNCHANGED turn
     ELSE turn' = [turn EXCEPT ![s] = @ + 1] /\ UNCHANGED pc
  /\ UNCHANGED <<mode, aborted, timer, log, queued, stop, handoff, written, result>>

\* session.prompt() resolves: runStopToolLoop() goes on until the model has
\* stopped or the turns are used up.
PromptReturns(s) ==
  /\ pc[s] = "prompting" /\ (s = Root => InFlight = {})
  /\ CASE mode = "single-turn" \/ stop[s] # "none" -> Goto(s, "stop") /\ UNCHANGED turn
       [] mode # "single-turn" /\ stop[s] = "none" /\ turn[s] < MaxTurns ->
            turn' = [turn EXCEPT ![s] = @ + 1] /\ UNCHANGED pc
       [] mode # "single-turn" /\ stop[s] = "none" /\ turn[s] >= MaxTurns ->
            Goto(s, "fail") /\ UNCHANGED turn
  /\ UNCHANGED <<mode, aborted, timer, log, queued, stop, handoff, written, result>>

PromptRejects(s) ==
  /\ pc[s] = "prompting" /\ (s = Root => InFlight = {}) /\ (Fails("pi") \/ aborted)
  /\ Goto(s, "fail")
  /\ UNCHANGED <<mode, aborted, timer, log, queued, turn, stop, handoff, written, result>>

\* The outcome both events of a session's end tell.
SessionEnd(o) == IF o = "completed" THEN <<"session.completed", "run.completed">>
                                    ELSE <<"session.failed", "run.failed">>

End(s, o) ==
  /\ Emit(s, SessionEnd(o))
  /\ IF s = Root THEN Cleanup ELSE UNCHANGED timer
  /\ Goto(s, "ended")
  /\ UNCHANGED <<mode, aborted, queued, turn, stop, handoff, written, result>>

\* Mutant: the chain is not awaited.
StopHasty(s) ==
  /\ pc[s] = "stop"
  /\ End(s, IF stop[s] = "failed" THEN "failed" ELSE "completed")

\* After the prompts: the chain is awaited, the Stop hook may block.
Stop(s) ==
  /\ pc[s] = "stop" /\ queued[s] = 0
  /\ \/ /\ Fails("stop") /\ Goto(s, "fail")
        /\ UNCHANGED <<mode, aborted, timer, log, queued, turn, stop, handoff, written, result>>
     \/ End(s, IF stop[s] = "failed" THEN "failed" ELSE "completed")

\* The catch block.
Fail(s) == pc[s] = "fail" /\ queued[s] = 0 /\ End(s, "failed")

Outcome(s) == IF log[s][Len(log[s])] = "run.completed" THEN "succeeded" ELSE "failed"

\* Mutant: a role session that ended is a handoff that completed.
CloseHandoffAsDone(h) ==
  /\ pc[h] = "ended" /\ h # Root
  /\ handoff' = [handoff EXCEPT ![h] = "completed"]
  /\ Settle(h, Outcome(h))
  /\ UNCHANGED <<mode, aborted, timer, log, queued, turn, stop, written>>

\* delegate_agent after the role's session.
CloseHandoff(h) ==
  /\ pc[h] = "ended" /\ h # Root
  /\ handoff' = [handoff EXCEPT ![h] = IF Outcome(h) = "succeeded" THEN "completed" ELSE "failed"]
  /\ Settle(h, Outcome(h))
  /\ UNCHANGED <<mode, aborted, timer, log, queued, turn, stop, written>>

\* writeHarnessArtifacts(): one artifact and its event after the other.
WriteArtifact ==
  /\ pc[Root] = "ended" /\ written < Artifacts
  /\ \/ Fails("store") /\ Settle(Root, "threw") /\ UNCHANGED <<written, log>>
     \/ written' = written + 1 /\ Emit(Root, <<"artifact.created">>) /\ UNCHANGED <<pc, result>>
  /\ UNCHANGED <<mode, aborted, timer, queued, turn, stop, handoff>>

\* The projections go to the sink and the result is returned; the status was
\* read when the session ended.
Return ==
  /\ pc[Root] = "ended" /\ written = Artifacts
  /\ Settle(Root, IF log[Root][Len(log[Root]) - Artifacts] = "run.completed" THEN "succeeded" ELSE "failed")
  /\ UNCHANGED <<mode, aborted, timer, log, queued, turn, stop, handoff, written>>

Step(s) == Create(s) \/ Submit(s) \/ Forward(s) \/ Stop(s) \/ Fail(s)
Pi(s)   == PromptReturns(s) \/ PromptRejects(s)

Next ==
  \/ Begin \/ ParentAbort \/ DeadlineElapses \/ WriteArtifact \/ Return
  \/ \E s \in Sessions : Step(s) \/ Pi(s) \/ PiEvent(s) \/ CallStop(s)
  \/ \E h \in Handoffs : Delegate(h) \/ CloseHandoff(h)

\* The event loop runs what is ready, and Pi answers a prompt in the end.
Fairness ==
  /\ WF_vars(Begin) /\ WF_vars(WriteArtifact) /\ WF_vars(Return)
  /\ \A s \in Sessions : /\ WF_vars(Create(s) \/ Submit(s)) /\ WF_vars(Forward(s))
                         /\ WF_vars(Stop(s) \/ Fail(s)) /\ WF_vars(Pi(s))
  /\ \A h \in Handoffs : WF_vars(CloseHandoff(h))

Spec == Init /\ [][Next]_vars /\ Fairness

-----------------------------------------------------------------------------
Ends == {"session.completed", "session.failed", "run.completed", "run.failed"}
EndsIn(l) == {i \in DOMAIN l : l[i] \in Ends}

\* Two events tell one outcome, and only artifacts follow them.
EndedOnce(l) ==
  \E n \in EndsIn(l) : /\ EndsIn(l) = {n - 1, n}
                       /\ <<l[n - 1], l[n]>> \in {SessionEnd("completed"), SessionEnd("failed")}
                       /\ \A i \in DOMAIN l : i > n => l[i] = "artifact.created"

\* A session tells its end once, session before run, both with the same
\* outcome, and after every event of Pi it forwards (the try and catch blocks
\* of runCapabilityPiAgentSession).
EndsOnce ==
  \A s \in Sessions :
    /\ pc[s] = "ended" \/ result[s] \in {"succeeded", "failed"} => EndsIn(log[s]) # {}
    /\ EndsIn(log[s]) # {} => EndedOnce(log[s]) /\ queued[s] = 0

\* A session completes only if the last stop_and_respond of its model said so
\* (or the run is single-turn), within maxTurns prompts.
StopDecides ==
  \A s \in Sessions :
    /\ mode = "stop-tool-loop" => turn[s] <= MaxTurns
    /\ "run.completed" \in {log[s][i] : i \in DOMAIN log[s]} =>
         turn[s] >= 1 /\ (mode = "single-turn" \/ stop[s] = "completed")

\* When the root ends, each role session it started has ended, and the
\* handoff event says how; a call that threw told nothing more.
HandoffsTold ==
  \A h \in Handoffs :
    /\ handoff[h] \in {"completed", "failed"} =>
         Outcome(h) = (IF handoff[h] = "completed" THEN "succeeded" ELSE "failed")
    /\ pc[Root] \in {"stop", "fail", "ended"} /\ handoff[h] = "accepted" =>
         result[h] = "threw" /\ log[h] = <<>>

\* The deadline timer never outlives a root session that the adapter tried to
\* run (it does outlive a policy evaluator that throws before that).
TimerReleased ==
  pc[Root] = "ended" \/ (pc[Root] = "settled" /\ result[Root] # "unstarted") => timer # "armed"

\* A run ends once, and leaves no timer behind.
EndsClean == EndsOnce /\ TimerReleased

\* A run that begins is answered, whatever throws.
RunSettles == (pc[Root] = "create") ~> (pc[Root] = "settled")
=============================================================================
