------------------------------ MODULE HarnessRules ------------------------------
(***************************************************************************)
(* What the agent harness computes on data: which tools a role may use,    *)
(* what lifecycle hooks decide, what the tools of a capability answer, and *)
(* how Pi's events are told in the stream.  Effects, names and texts are   *)
(* atoms, an absent field is a name outside a record's domain.             *)
(***************************************************************************)
EXTENDS Integers, Sequences, FiniteSets, SequencesExt, Functions

CONSTANT Rejected     \* no result: the function throws

\* x ?? other, for a field of a record
Default(r, f, other) == IF f \in DOMAIN r THEN r[f] ELSE other

\* filter(): the elements that are in S, in their order
Only(s, S) == FoldLeft(LAMBDA kept, e : IF e \in S THEN Append(kept, e) ELSE kept, <<>>, s)

-----------------------------------------------------------------------------
\* Effects and roles (agent-harness.ts)

ReadEffects     == {"fs.read", "repo.inspect", "lsp.read", "memory.read", "handoff.read"}
HandoffEffects  == {"handoff.read", "handoff.write", "artifact.write"}
MutatingEffects == {"fs.write", "process.spawn", "network.egress", "mcp.launch",
                    "memory.write", "secret.read", "sandbox.create"}

PolicyForRole(kind, isRoot) ==
  CASE isRoot \/ kind = "root"            -> "coordinator"
    [] ~ isRoot /\ kind = "builder"       -> "build"
    [] ~ isRoot /\ kind = "verifier"      -> "verify"
    [] ~ isRoot /\ kind \notin {"root", "builder", "verifier"} -> "read-only"

\* ROLE_EFFECT_POLICIES; "all" is the category of a policy's own set.
AllowedEffects(role, category) ==
  CASE role = "coordinator" -> ReadEffects \cup HandoffEffects
    [] role = "read-only"   -> ReadEffects
    [] role = "build"       -> ReadEffects \cup HandoffEffects \cup MutatingEffects \cup {"mcp.read"}
    [] role = "verify"      -> ReadEffects \cup (IF category = "terminal"
                                 THEN {"process.spawn", "fs.write", "network.egress"}
                                 ELSE {"artifact.write"})

\* Mutant: what the profile denies is only recorded.
DeniedEffectsByRole(tool, role, category, denied) ==
  IF tool.effects = {} THEN {"custom.unknown"} ELSE tool.effects \ AllowedEffects(role, category)

\* The effects that keep a tool out; a tool that declares none is unknown.
DeniedEffects(tool, role, category, denied) ==
  IF tool.effects = {} THEN {"custom.unknown"}
  ELSE {e \in tool.effects : e \notin AllowedEffects(role, category) \/ e \in denied}

Told(id, allowed) == [id |-> id, allowed |-> allowed]

\* filterToolsByEffect: what is not denied goes to the evaluator, which accepts
\* the names in agrees; every tool gets a decision.
BoundTools(tools, role, category, denied, agrees) ==
  {t \in ToSet(tools) : DeniedEffects(t, role, category, denied) = {} /\ t.name \in agrees}

FilterTools(tools, role, category, denied, agrees) ==
  LET bound == BoundTools(tools, role, category, denied, agrees)
  IN [tools     |-> Only(tools, bound),
      decisions |-> [i \in DOMAIN tools |-> Told(tools[i].name, tools[i] \in bound)]]

AllowsAll(role, effects, denied) == effects \subseteq AllowedEffects(role, "all") \ denied

CapabilityEffects ==
  [mcp       |-> {"mcp.read", "mcp.launch", "secret.read"},
   messaging |-> {"handoff.read", "handoff.write"},
   memory    |-> {"memory.read", "memory.write"}]

\* evaluateCapabilityBinding
BindsCapability(c, role, denied, agrees) ==
  AllowsAll(role, CapabilityEffects[c], denied) /\ c \in agrees

\* applyRolePolicy, on [terminal, file, custom: tools, services: capabilities].
ApplyRolePolicy(caps, role, denied, agrees) ==
  LET Filtered(k) == FilterTools(caps[k], role, k, denied, agrees)
      bound       == {c \in caps.services : BindsCapability(c, role, denied, agrees)}
      asked       == SetToSeq(caps.services)
  IN [caps |-> [terminal |-> Filtered("terminal").tools, file |-> Filtered("file").tools,
                custom |-> Filtered("custom").tools, services |-> bound],
      decisions |-> Filtered("terminal").decisions \o Filtered("file").decisions
                    \o Filtered("custom").decisions
                    \o [i \in DOMAIN asked |-> Told(asked[i], asked[i] \in bound)]]

\* shouldPassMcp and applyProfilePolicy
PassesMcp(caps, profile, allowMcp) == "mcp" \in caps.services /\ (profile # "benchmark" \/ allowMcp)

ApplyProfile(caps, profile, allowMcp) ==
  [caps EXCEPT !.services = IF PassesMcp(caps, profile, allowMcp) THEN @ ELSE @ \ {"mcp"}]

ProfileDenied(profile, allowNetwork, allowMcp) ==
  (IF profile = "benchmark" \/ ~ allowNetwork THEN {"network.egress"} ELSE {})
  \cup (IF profile = "benchmark" \/ ~ allowMcp THEN {"mcp.launch", "secret.read"} ELSE {})
  \cup (IF profile = "benchmark" THEN {"sandbox.create"} ELSE {})

\* createPolicyDecisions: what the run records of its profile.
ProfileDecisions(profile, allowNetwork, allowMcp) ==
  [workspace |-> TRUE, sandbox |-> profile # "benchmark", network |-> allowNetwork, mcp |-> allowMcp]

\* resolveCapabilityPiToolRegistry: the tools of the capabilities get names of
\* their own; a blank or repeated name ends the assembly.
ServiceTool == [mcp |-> "mcp_registry", messaging |-> "agent_messages", memory |-> "agent_memory"]

NamesUnique(names) == "" \notin ToSet(names) /\ IsInjective(names)

ToolNames(caps) ==
  LET Names(tools) == [i \in DOMAIN tools |-> tools[i].name]
      services     == Only(<<"mcp", "messaging", "memory">>, caps.services)
  IN Names(caps.terminal) \o Names(caps.file) \o Names(caps.custom)
     \o [i \in DOMAIN services |-> ServiceTool[services[i]]]

-----------------------------------------------------------------------------
\* Lifecycle hooks (lifecycle-hooks.ts)

MatchesHook(hook, context) ==
  /\ context.event \in hook.events
  /\ \A f \in DOMAIN hook.matcher : f \in DOMAIN context /\ hook.matcher[f] = context[f]

\* Mutant: a hook that says nothing about failing is forgiven.
FailureModeOpen(defaults, hook, event) ==
  Default(hook, "failureMode", Default(defaults, "failureMode", "fail-open"))

\* failureModeForHook (a handler's own mode is folded into the hook's).
FailureMode(defaults, hook, event) ==
  Default(hook, "failureMode", Default(defaults, "failureMode",
    IF event \in {"PreToolUse", "PermissionRequest"} THEN "fail-closed" ELSE "fail-open"))

\* normalizeCommandResult: stdout is a JSON object, or garbage; a decision of
\* null gives way to "allow" whatever the exit code.
CommandFails(run) == run.timedOut \/ run.stdout.decision = "garbage" \/ run.exit \notin {0, 2}

CommandOutput(run) ==
  [run.stdout EXCEPT !.decision = IF @ = "none" THEN (IF run.exit = 2 THEN "block" ELSE "allow")
                                  ELSE IF @ = "null" THEN "allow" ELSE @]

\* A handler in the process may throw, or not be registered.
HookFails(hook) ==
  \/ hook.type = "command" /\ CommandFails(hook.run)
  \/ hook.type = "in-process" /\ hook.run.throws

\* The record of one hook: its output, or what its failure mode makes of it.
RunHook(defaults, hook, event) ==
  IF HookFails(hook)
  THEN [decision |-> IF FailureMode(defaults, hook, event) = "fail-closed" THEN "block" ELSE "observe"]
  ELSE IF hook.type = "command" THEN CommandOutput(hook.run)
  ELSE IF hook.type = "in-process" THEN hook.run.stdout
  ELSE [decision |-> "observe"]

\* createAgentLifecycleHookExecutor's run: all matching hooks, one block blocks.
RunHooks(defaults, hooks, context) ==
  LET matching == Only(hooks, {h \in ToSet(hooks) : MatchesHook(h, context)})
      records  == [i \in DOMAIN matching |-> RunHook(defaults, matching[i], context.event)]
  IN [blocked  |-> \E i \in DOMAIN records : records[i].decision = "block",
      rewrites |-> Only(records, {r \in ToSet(records) : "input" \in DOMAIN r})]

\* wrapToolWithLifecycleHooks: whether the tool ran, on what, how often
\* PostToolUse ran, and whether the call threw.  A PostToolUse hook that blocks
\* is caught by the handler of the tool's own errors, which runs it again.  The
\* last rewrite is the tool's input.
WrappedCall(defaults, hooks, tool, input, throws) ==
  LET At(e) == RunHooks(defaults, hooks, [event |-> e, toolName |-> tool])
      pre   == At("PreToolUse")
      post  == At("PostToolUse")
      given == IF pre.rewrites = <<>> THEN input ELSE pre.rewrites[Len(pre.rewrites)].input
  IN IF pre.blocked THEN [ran |-> FALSE, posts |-> 0, threw |-> TRUE]
     ELSE [ran |-> TRUE, given |-> given, posts |-> IF ~ throws /\ post.blocked THEN 2 ELSE 1,
           threw |-> throws \/ post.blocked]

\* The UserPromptSubmit and Stop hooks of a session: a block ends the session,
\* elsewhere it is only recorded (createSessionLifecycleHooks).
SessionContinues(defaults, hooks, event) ==
  ~ (event \in {"UserPromptSubmit", "Stop"} /\ RunHooks(defaults, hooks, [event |-> event]).blocked)

-----------------------------------------------------------------------------
\* The tools of a capability (capability-runtime.ts)

Redact(server) == [server EXCEPT !.env = [k \in DOMAIN @ |-> "[REDACTED]"]]

\* Mutant: only what a server is launched with is redacted.
McpToolListsEnv(servers, action, id) ==
  CASE action = "list" -> servers
    [] action \in {"get", "resolve-launch"} /\ id \in {s.id : s \in servers} ->
         {Redact(s) : s \in {t \in servers : t.id = id}}
    [] OTHER -> Rejected

\* createMcpRegistryTool: no environment value leaves it.
McpTool(servers, action, id) ==
  CASE action = "list" -> {Redact(s) : s \in servers}
    [] action \in {"get", "resolve-launch"} /\ id \in {s.id : s \in servers} ->
         {Redact(s) : s \in {t \in servers : t.id = id}}
    [] OTHER -> Rejected

\* createSkillsOverride: a skill of the snapshot replaces one of its name.
MergeSkills(base, snapshot) ==
  Only(base, {s \in ToSet(base) : s.name \notin {t.name : t \in ToSet(snapshot)}}) \o snapshot

-----------------------------------------------------------------------------
\* Events of Pi in the stream

\* serializePiSessionEvent: the fields of an event that the stream keeps.
KeptFields(type) ==
  {"type"} \cup
  CASE type = "queue_update"      -> {"steering", "followUp"}
    [] type = "compaction_start"  -> {"reason"}
    [] type = "compaction_end"    -> {"reason", "aborted", "willRetry", "errorMessage"}
    [] type = "auto_retry_start"  -> {"attempt", "maxAttempts", "delayMs", "errorMessage"}
    [] type = "auto_retry_end"    -> {"success", "attempt", "finalError"}
    [] type \in {"message_start", "message_end"} -> {"role"}
    [] type = "message_update"    -> {"assistantMessageEventType", "delta"}
    [] type \in {"tool_execution_start", "tool_execution_update"} -> {"toolCallId", "toolName"}
    [] type = "tool_execution_end" -> {"toolCallId", "toolName", "isError"}
    [] type = "turn_end"          -> {"toolResultCount"}
    [] type = "agent_end"         -> {"messageCount"}
    [] OTHER                      -> {}

Serialize(event) == [f \in DOMAIN event \cap KeptFields(event.type) |-> event[f]]

IsTerminalTool(event) == Default(event, "toolName", "") \in {"bash", "terminal", "shell"}

\* projectEventType: a lifecycle event keeps its name, a Pi event is told by its
\* data.
Projected == {"run.started", "run.completed", "run.failed", "session.started", "session.completed",
              "session.failed", "policy.decision", "hook.execution.started",
              "hook.execution.completed", "hook.execution.failed", "hook.decision",
              "artifact.created", "handoff.requested", "handoff.accepted", "handoff.completed",
              "handoff.failed"}

ProjectType(name, data) ==
  LET type   == Default(data, "type", "none")
      failed == Default(data, "isError", FALSE)
  IN CASE name \in Projected -> name
       [] name \notin Projected /\ type = "tool_execution_start" ->
            IF IsTerminalTool(data) THEN "terminal.command.started" ELSE "tool.call.started"
       [] name \notin Projected /\ type = "tool_execution_end" /\ IsTerminalTool(data) ->
            IF failed THEN "terminal.command.failed" ELSE "terminal.command.completed"
       [] name \notin Projected /\ type = "tool_execution_end" /\ ~ IsTerminalTool(data) ->
            IF failed THEN "tool.call.failed" ELSE "tool.call.completed"
       [] name \notin Projected /\ type = "compaction_start" -> "session.compaction.started"
       [] name \notin Projected /\ type = "compaction_end" -> "session.compaction.completed"
       [] OTHER -> "model.message"

-----------------------------------------------------------------------------
\* The stream of the Codex runtime (openai-codex.ts): createAsyncEventQueue
\* under a sequence of pushes, closes and reads; what each read gets, in the
\* order of the reads.

\* Mutant: close() drops what is buffered.
CloseDropping(q) ==
  [q EXCEPT !.closed = TRUE, !.waiting = 0, !.values = <<>>,
            !.got = @ \o [i \in 1..q.waiting |-> "done"]]

CloseQueue(q) ==
  [q EXCEPT !.closed = TRUE, !.waiting = 0, !.got = @ \o [i \in 1..q.waiting |-> "done"]]

Read(q) == CASE q.values # <<>> -> [q EXCEPT !.values = Tail(@), !.got = Append(@, Head(q.values))]
             [] q.values = <<>> /\ q.closed -> [q EXCEPT !.got = Append(@, "done")]
             [] q.values = <<>> /\ ~ q.closed -> [q EXCEPT !.waiting = @ + 1]

Push(q, v) == CASE q.closed -> q
                [] ~ q.closed /\ q.waiting > 0 -> [q EXCEPT !.waiting = @ - 1, !.got = Append(@, v)]
                [] ~ q.closed /\ q.waiting = 0 -> [q EXCEPT !.values = Append(@, v)]

QueueOp(q, op) == CASE op = "close" -> CloseQueue(q)
                    [] op = "next"  -> Read(q)
                    [] OTHER        -> Push(q, op)

RunQueue(ops) ==
  FoldLeft(LAMBDA q, op : QueueOp(q, op), [values |-> <<>>, waiting |-> 0, closed |-> FALSE, got |-> <<>>], ops)
===============================================================================
