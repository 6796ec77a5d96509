---------------------------- MODULE HarnessPromises ----------------------------
(***************************************************************************)
(* What the functions of HarnessRules promise: which tools a role gets,    *)
(* when a hook keeps a tool from running, what the tools of a capability   *)
(* answer, how Pi's events are told, what readers of the Codex stream get. *)
(***************************************************************************)
EXTENDS HarnessRules, FunctionInput

(***************************************************************************)
(* Effects and roles                                                       *)
(***************************************************************************)
ToolKinds == {"terminal", "file", "custom"}

\* No tool is bound that the role, the profile or the evaluator refuses;
\* a denial the run records is enforced; every tool and capability offered gets
\* one decision, and is bound exactly when it was allowed; and what is bound of
\* tools with names of their own has names of its own.
BoundEffects(caps) ==
  UNION ({t.effects : t \in UNION {ToSet(caps[k]) : k \in ToolKinds}} \cup {CapabilityEffects[c] : c \in caps.services})
BoundNames(caps) == {t.name : t \in UNION {ToSet(caps[k]) : k \in ToolKinds}} \cup caps.services
Verdicts(offered, bound) ==
  (UNION {{Told(t.name, t \in ToSet(bound[k])) : t \in ToSet(offered[k])} : k \in ToolKinds})
  \cup {Told(c, c \in bound.services) : c \in offered.services}

RoleKeeps(kind, bound) ==
  /\ kind \notin {"root", "builder", "verifier"} => BoundEffects(bound) \subseteq ReadEffects
  /\ kind = "verifier" /\ bound.terminal = <<>> => BoundEffects(bound) \cap MutatingEffects = {}
RecordedKeeps(told, bound) ==
  /\ ~ told.network => "network.egress" \notin BoundEffects(bound)
  /\ ~ told.mcp => BoundEffects(bound) \cap {"mcp.launch", "secret.read"} = {}
  /\ ~ told.sandbox => BoundEffects(bound) \cap {"sandbox.create", "network.egress", "secret.read"} = {}
DecidedOnce(offered, result) ==
  /\ Len(result.decisions) = Len(offered.terminal) + Len(offered.file) + Len(offered.custom) + Cardinality(offered.services)
  /\ ToSet(result.decisions) = Verdicts(offered, result.caps)

PolicyBinds(caps, profile, kind, network, mcp, agrees) ==
  LET offered == ApplyProfile(caps, profile, mcp)
      result  == ApplyRolePolicy(offered, PolicyForRole(kind, FALSE), ProfileDenied(profile, network, mcp), agrees)
  IN /\ BoundNames(result.caps) \subseteq agrees
     /\ RoleKeeps(kind, result.caps)
     /\ RecordedKeeps(ProfileDecisions(profile, network, mcp), result.caps)
     /\ DecidedOnce(offered, result)
     /\ NamesUnique(ToolNames(offered)) => NamesUnique(ToolNames(result.caps))

(***************************************************************************)
(* Lifecycle hooks                                                         *)
(***************************************************************************)
\* A hook that crashes, times out, prints no JSON or says "block" before a tool
\* keeps the tool from running, unless it was configured to fail open; a tool
\* that ran is always shown to PostToolUse; and what it gets is the last rewrite.
Guards(h, tool) == "PreToolUse" \in h.events /\ \A f \in DOMAIN h.matcher : f = "toolName" /\ h.matcher[f] = tool
Refuses(h, defaults) ==
  \/ HookFails(h) /\ Default(h, "failureMode", Default(defaults, "failureMode", "fail-closed")) # "fail-open"
  \/ h.type = "command" /\ ~ h.run.timedOut /\ h.run.exit = 2 /\ h.run.stdout.decision = "none"
  \/ h.type = "in-process" /\ ~ h.run.throws /\ h.run.stdout.decision = "block"
Rewrites(h) == h.type \in {"command", "in-process"} /\ ~ HookFails(h) /\ "input" \in DOMAIN h.run.stdout

HooksGuard(defaults, hooks, tool, input0, throws) ==
  LET call == WrappedCall(defaults, hooks, tool, input0, throws)
      rewriters == {i \in DOMAIN hooks : Guards(hooks[i], tool) /\ Rewrites(hooks[i])}
  IN /\ (\E i \in DOMAIN hooks : Guards(hooks[i], tool) /\ Refuses(hooks[i], defaults)) => ~ call.ran /\ call.threw
     /\ call.ran <=> call.posts >= 1
     /\ call.ran /\ throws => call.threw
     /\ call.ran /\ rewriters = {} => call.given = input0
     /\ call.ran => \A i \in rewriters : (\A j \in rewriters : j <= i) => call.given = hooks[i].run.stdout.input
     /\ SessionContinues(defaults, hooks, "SessionStart")

(***************************************************************************)
(* The tools of a capability                                               *)
(***************************************************************************)
\* No value of a server's environment is told, and a skill of the snapshot
\* replaces those of its name and loses no other.
ToolsAnswer(servers, action, id, base, snapshot) ==
  /\ LET answer == McpTool(servers, action, id)
     IN answer # Rejected => \A s \in answer : \A k \in DOMAIN s.env : s.env[k] = "[REDACTED]"
  /\ LET merged == MergeSkills(base, snapshot)
     IN /\ {s.name : s \in ToSet(merged)} = {s.name : s \in ToSet(base)} \cup {s.name : s \in ToSet(snapshot)}
        /\ \A s \in ToSet(merged) : s.name \in {t.name : t \in ToSet(snapshot)} => s \in ToSet(snapshot)

(***************************************************************************)
(* Events                                                                  *)
(***************************************************************************)
\* What the projection tells of a tool call is what Pi said of it: the fields
\* it needs survive the serialization.
ProjectionTells(event) ==
  event.type = "tool_execution_end" =>
    ProjectType("plugin.pi", Serialize(event)) =
      IF event.toolName \in {"bash", "terminal", "shell"}
      THEN (IF event.isError THEN "terminal.command.failed" ELSE "terminal.command.completed")
      ELSE (IF event.isError THEN "tool.call.failed" ELSE "tool.call.completed")

\* Readers get what was pushed before the close, in order and once; then done.
QueueDelivers(ops) ==
  LET closes == {i \in DOMAIN ops : ops[i] = "close"}
      values == ToSet(ops) \ {"close", "next"}
      pushed == Only([i \in DOMAIN ops |-> IF \E c \in closes : c < i THEN "next" ELSE ops[i]], values)
      got    == RunQueue(ops).got
      given  == Only(got, values)
      reads  == Len(Only(ops, {"next"}))
  IN /\ given = SubSeq(pushed, 1, Len(given))
     /\ ToSet(got) \subseteq values \cup {"done"}
     /\ Len(got) <= reads /\ (closes # {} => Len(got) = reads)
     /\ reads >= Len(pushed) => Len(given) = Len(pushed)

------------------------------------------------------------------------------
\* What may be asked: tools that are offered in sequences, with any effects; hooks
\* that select by a field of the call other than its event; Pi's events as Pi
\* publishes them; and no value is the word that a reader gets at the end.
IsHook(h) ==
  /\ "event" \notin DOMAIN h.matcher
  /\ "failureMode" \in DOMAIN h => h.failureMode \in {"fail-open", "fail-closed"}
  /\ "decision" \in DOMAIN h.run.stdout

LegalHarness ==
  /\ Rule("policy") => LET c == input[2]
                       IN /\ c = [terminal |-> c.terminal, file |-> c.file, custom |-> c.custom, services |-> c.services]
                          /\ \A k \in ToolKinds : IsSeq(c[k])
                          /\ c.services \subseteq DOMAIN CapabilityEffects
  /\ Rule("hooks")  => /\ IsSeq(input[3]) /\ \A i \in DOMAIN input[3] : IsHook(input[3][i])
                       /\ input[4] \in BOOLEAN
                       /\ "failureMode" \in DOMAIN input[2] => input[2].failureMode \in {"fail-open", "fail-closed"}
  /\ Rule("tools")  => IsSeq(input[5]) /\ input[6] \in Seq(ToSet(input[6])) /\ \A s \in input[2] : "env" \in DOMAIN s
  /\ Rule("event")  => {"type", "toolName", "isError"} \subseteq DOMAIN input[2] \/ input[2].type # "tool_execution_end"
  /\ Rule("queue")  => IsSeq(input[2]) /\ "done" \notin ToSet(input[2])

\* Roles get no tool they are refused, hooks guard the tools, the tools of a
\* capability leak no secret, and Pi's events are told in order
\* (agent-harness.ts, lifecycle-hooks.ts, capability-runtime.ts, openai-codex.ts).
HarnessRulesAgree ==
  /\ Rule("policy") => PolicyBinds(input[2], input[3], input[4], input[5], input[6], input[7])
  /\ Rule("hooks")  => HooksGuard(input[2], input[3], "bash", "input", input[4])
  /\ Rule("tools")  => ToolsAnswer(input[2], input[3], input[4], input[5], input[6])
  /\ Rule("event")  => ProjectionTells(input[2])
  /\ Rule("queue")  => QueueDelivers(input[2])

HarnessSpec == input = <<>> /\ [][LegalHarness']_input
================================================================================
