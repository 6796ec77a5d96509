----------------------------- MODULE BenchmarkRules -----------------------------
(***************************************************************************)
(* What surrounds a benchmark's report: the compiler of harness            *)
(* definitions and the inventory it fingerprints (sdk/src/harness/         *)
(* compiler.ts), the standard protocols (protocols.ts), the trials of a    *)
(* run (core/src/harness/benchmark-runner.ts) and the envelope of a tool   *)
(* error (tool-errors.ts).  A value stands for its own hash; ids are       *)
(* numbers, so that they have an order.                                    *)
(***************************************************************************)
EXTENDS Integers, Sequences, FiniteSets, SequencesExt, TLC

CONSTANT Rejected     \* no result: the function throws, or reports errors only

Field(r, f, other) == IF f \in DOMAIN r THEN r[f] ELSE other

-----------------------------------------------------------------------------
\* The compiler.  A source has, for each section, a sequence of entries; a field
\* that refers to other entries is the set of their ids.

Sections == {"packages", "capabilities", "agents", "spaces", "relationships",
             "protocols", "artifacts", "policies"}

\* validatePackageRefs and validateAgentRefs: <<section, field, target>>.
References ==
  {<<"capabilities", "packageRef", "packages">>, <<"protocols", "packageRef", "packages">>,
   <<"agents", "packageRefs", "packages">>,      <<"spaces", "ownerAgentRef", "agents">>,
   <<"agents", "readableSpaces", "spaces">>,     <<"agents", "writableSpaces", "spaces">>,
   <<"agents", "capabilityRefs", "capabilities">>, <<"agents", "artifactRefs", "artifacts">>,
   <<"relationships", "fromAgentRef", "agents">>, <<"relationships", "toAgentRef", "agents">>,
   <<"protocols", "actorRefs", "agents">>,
   <<"artifacts", "producedBy", "agents">>,      <<"artifacts", "reviewedBy", "agents">>}

CollectIds(entries) == {entries[i].id : i \in DOMAIN entries}
DuplicateIds(entries) ==
  {entries[j].id : j \in {k \in DOMAIN entries : \E i \in 1..(k - 1) : entries[i].id = entries[k].id}}

MissingRefs(source, r) ==
  UNION {Field(source[r[1]][i], r[2], {}) : i \in DOMAIN source[r[1]]} \ CollectIds(source[r[3]])

\* Mutant: what agents may use is not looked up.
DiagnosticsOfPackages(source) ==
  {<<"duplicate_id", s>> : s \in {t \in Sections : DuplicateIds(source[t]) # {}}}
  \cup {<<"missing", r>> : r \in {q \in References : q[3] = "packages" /\ MissingRefs(source, q) # {}}}

\* Every duplicate, every missing reference, and the topology, are reported.
Diagnostics(source) ==
  {<<"duplicate_id", s>> : s \in {t \in Sections : DuplicateIds(source[t]) # {}}}
  \cup {<<"missing", r>> : r \in {q \in References : MissingRefs(source, q) # {}}}
  \cup (IF source.agents = <<>> THEN {<<"no_agents", "agents">>} ELSE {})
  \cup (IF \A i \in DOMAIN source.agents : source.agents[i].role = "" THEN {<<"no_roles", "agents">>} ELSE {})
  \cup (IF source.schema # "supported" THEN {<<"unsupported_schema_version", "schemaVersion">>} ELSE {})

\* sortedById keeps the order of entries that share an id.
SortedById(entries) ==
  LET Before(i, j) == entries[i].id < entries[j].id \/ (entries[i].id = entries[j].id /\ i < j)
      order        == SetToSortSeq(DOMAIN entries, Before)
  IN [k \in DOMAIN order |-> entries[order[k]]]

CapabilityBOMEntry(capability) ==
  LET grants == Field(capability, "grants", <<>>)
  IN [id |-> capability.id, kind |-> capability.kind, packageRef |-> capability.packageRef,
      grantCount |-> Len(grants), effects |-> {g.effect : g \in ToSet(grants)}, grants |-> SortedById(grants)]

PolicyBOMEntry(policy) == [id |-> policy.id, effect |-> policy.effect]

AgentBOMEntry(agent) ==
  [id |-> agent.id, role |-> agent.role, packageRefs |-> Field(agent, "packageRefs", {}),
   capabilityRefs |-> Field(agent, "capabilityRefs", {})]

BOMSummary(source) ==
  LET Kinds(entries, f) == [k \in {entries[i][f] : i \in DOMAIN entries} |->
                              Cardinality({i \in DOMAIN entries : entries[i][f] = k})]
  IN [counts |-> [s \in Sections \ {"spaces", "relationships"} |-> Len(source[s])],
      capabilityKinds |-> Kinds(source.capabilities, "kind"), policyEffects |-> Kinds(source.policies, "effect")]

\* createCapabilityBOM: its value is its fingerprint.
CapabilityBOM(source) ==
  LET Entries(s, F(_)) == SortedById([i \in DOMAIN source[s] |-> F(source[s][i])])
      Whole(entry)     == entry
  IN [packages |-> Entries("packages", Whole), capabilities |-> Entries("capabilities", CapabilityBOMEntry),
      protocols |-> Entries("protocols", Whole), policies |-> Entries("policies", PolicyBOMEntry),
      agents |-> Entries("agents", AgentBOMEntry), artifacts |-> Entries("artifacts", Whole),
      summary |-> BOMSummary(source)]

\* compileHarnessDsl: the source as it was declared, or Rejected.
Compile(source) ==
  IF Diagnostics(source) # {} THEN Rejected
  ELSE [sections |-> [s \in Sections |-> source[s]],
        versions |-> [p \in CollectIds(source.packages) |->
          Field(CHOOSE e \in ToSet(source.packages) : e.id = p, "version", "0.0.0")],
        bom |-> CapabilityBOM(source), sourceHash |-> source]

\* In a compiled harness every reference names exactly one entry and some agent
\* has a role; its inventory has every entry once and does not depend on the
\* order of declaration, as long as the grants of a capability have ids of
\* their own; the hash of the source does.
CompiledSound(source, other) ==
  LET compiled == Compile(source)
      Grants(s) == {Field(e, "grants", <<>>) : e \in ToSet(s.capabilities)}
  IN compiled # Rejected =>
       /\ \A r \in References : \A e \in ToSet(source[r[1]]) : \A id \in Field(e, r[2], {}) :
            Cardinality({i \in DOMAIN source[r[3]] : source[r[3]][i].id = id}) = 1
       /\ \E a \in ToSet(source.agents) : a.role # ""
       /\ \A s \in DOMAIN compiled.bom.summary.counts :
            compiled.bom.summary.counts[s] = Cardinality(CollectIds(compiled.bom[s]))
       /\ Compile(other) # Rejected /\ (\A g \in Grants(source) : DuplicateIds(g) = {}) =>
            /\ (\A s \in Sections : ToSet(source[s]) = ToSet(other[s])) => Compile(other).bom = compiled.bom
            /\ compiled.sourceHash = Compile(other).sourceHash <=> source = other

-----------------------------------------------------------------------------
\* Protocols: agents in order, each [id, role], and the spaces' visibilities.

ActorByRole(agents, role) ==
  LET mine == SelectSeq(agents, LAMBDA a : a.role = role) IN IF mine = <<>> THEN {} ELSE {mine[1].id}

RequiredRoles ==
  ("pipeline" :> {"implementer"}) @@ ("verifier-loop" :> {"solver", "critic", "repairer"})
  @@ ("hierarchy" :> {"manager"}) @@ ("squad" :> {})

\* validate: TRUE when it has nothing to report.
Validates(protocol, agents, shared) ==
  /\ \A role \in RequiredRoles[protocol] : ActorByRole(agents, role) # {}
  /\ protocol = "squad" => shared

HasCompleted(events) == events \cap {"trial.completed", "benchmark.completed"} # {}

\* The actors an action is planned for, in order.
PlannedActors(protocol, agents) ==
  LET ids == [i \in DOMAIN agents |-> agents[i].id]
      Of(role) == SetToSeq(ActorByRole(agents, role))
  IN CASE protocol = "pipeline"      -> Of("implementer")
       [] protocol = "verifier-loop" -> Of("solver") \o Of("critic") \o Of("repairer")
       [] protocol = "hierarchy"     -> IF Of("manager") = <<>> THEN <<>>
                                        ELSE SelectSeq(ids, LAMBDA a : a # Of("manager")[1])
       [] protocol = "squad"         -> ids

\* reduce; the key of an action is its place in the protocol and its actor.
Reduce(protocol, agents, events) ==
  LET actors  == PlannedActors(protocol, agents)
      ready   == CASE protocol = "pipeline"      -> actors # <<>>
                   [] protocol = "verifier-loop" -> Len(actors) = 3
                   [] protocol = "hierarchy"     -> ActorByRole(agents, "manager") # {}
                   [] protocol = "squad"         -> actors # <<>>
      Key(i)  == IF protocol = "verifier-loop" THEN <<protocol, i, actors[i]>> ELSE <<protocol, actors[i]>>
  IN IF HasCompleted(events) THEN [status |-> "done", actions |-> <<>>]
     ELSE [status |-> IF ready THEN "ready" ELSE "blocked", actions |-> [i \in DOMAIN actors |-> Key(i)]]

\* A protocol that validated is not blocked, asks one thing of each actor it
\* names, under keys that do not depend on what has happened since, and asks
\* nothing once the trial is over.
ProtocolPlans(protocol, agents, shared, events) ==
  LET now == Reduce(protocol, agents, events)
  IN /\ Validates(protocol, agents, shared) /\ agents # <<>> => now.status # "blocked"
     /\ IsInjective(now.actions)
     /\ IF HasCompleted(events) THEN now.status = "done" /\ now.actions = <<>>
        ELSE now.actions = Reduce(protocol, agents, {}).actions
     /\ now.status = "ready" /\ now.actions = <<>> => protocol = "hierarchy" /\ Len(agents) = 1

-----------------------------------------------------------------------------
\* Trials

RequiredEventTypes ==
  {"trial.started", "actor.invoked", "actor.completed", "artifact.created",
   "grader.completed", "trial.completed"}

TraceDiagnostics(events) ==
  LET missing == RequiredEventTypes \ ToSet(events)
  IN [complete |-> missing = {}, missing |-> missing,
      handoffs |-> Len(SelectSeq(events, LAMBDA e : e = "protocol.action.planned"))]

\* scoreMission: what the output mentions, against what the mission requires.
ScoreMission(mission, output) ==
  LET success  == mission.substrings \cup mission.artifacts \subseteq output
  IN [task_success |-> IF success THEN 1 ELSE 0,
      artifact_completeness |-> IF mission.artifacts \subseteq output THEN 1 ELSE 0]

\* Mutant: a failed runtime ends the trial.
RunTrialToFailure(mission, runtime) ==
  LET events == <<"trial.started", "actor.invoked">>
                \o (IF runtime.fails THEN <<"diagnostic">> ELSE <<"actor.completed", "artifact.created", "grader.completed", "trial.completed">>)
  IN [metrics |-> ScoreMission(mission, runtime.output), events |-> events,
      diagnostics |-> TraceDiagnostics(events), recovery |-> IF runtime.fails THEN {"failed"} ELSE {}]

\* runTrial: the runtime [fails, output, closes] is closed whatever happens, and
\* a close that throws takes the result with it.
RunTrial(mission, runtime) ==
  LET failed == runtime.fails
      events == <<"trial.started", "actor.invoked">> \o (IF failed THEN <<"diagnostic">> ELSE <<>>)
                \o <<"actor.completed", "artifact.created", "grader.completed", "trial.completed">>
  IN IF ~ runtime.closes THEN Rejected
     ELSE [metrics |-> ScoreMission(mission, IF failed THEN {} ELSE runtime.output), events |-> events,
           diagnostics |-> TraceDiagnostics(events), recovery |-> IF failed THEN {"failed"} ELSE {}]

\* validatePositiveInteger, on the counts that are configured.
ValidTrialConfig(benchmark) ==
  \A f \in {"count", "minTrials", "passK"} \cap DOMAIN benchmark : benchmark[f] >= 1

TrialCount(benchmark) == IF Field(benchmark, "count", 1) < 1 THEN 1 ELSE Field(benchmark, "count", 1)

\* runHarnessBenchmark: harnesses maps a reference to whether it compiles;
\* runtimes gives the runtime of a candidate, a trial at a time.
RunBenchmark(benchmark, mission, harnesses, runtimes) ==
  LET candidates == benchmark.candidates
      n          == Len(candidates)
      Trial(k)   == LET i == ((k - 1) % n) + 1 IN
                    [candidate |-> candidates[i].id, trial |-> ((k - 1) \div n) + 1,
                     result |-> RunTrial(mission, runtimes[candidates[i].id])]
      trials     == [k \in 1..(n * TrialCount(benchmark)) |-> Trial(k)]
  IN CASE \/ benchmark.missionRef # mission.id
          \/ ~ ValidTrialConfig(benchmark)
          \/ \E i \in DOMAIN candidates : ~ Field(harnesses, candidates[i].harness, FALSE)
          \/ \E k \in DOMAIN trials : trials[k].result = Rejected -> Rejected
       [] OTHER -> trials

\* A benchmark that returns ran each candidate as often as it was told to, with
\* a whole trace each time, one more event for a runtime that failed; a failed
\* runtime leaves its error, and succeeds only at a mission that asks for nothing.
TrialsWhole(benchmark, mission, harnesses, runtimes) ==
  LET trials == RunBenchmark(benchmark, mission, harnesses, runtimes)
  IN trials # Rejected =>
       /\ \A i \in DOMAIN benchmark.candidates, t \in 1..Field(benchmark, "count", 1) :
            Cardinality({k \in DOMAIN trials : trials[k].candidate = benchmark.candidates[i].id /\ trials[k].trial = t})
              = Cardinality({j \in DOMAIN benchmark.candidates : benchmark.candidates[j].id = benchmark.candidates[i].id})
       /\ \A k \in DOMAIN trials :
            LET r == trials[k].result failed == runtimes[trials[k].candidate].fails
            IN /\ r.diagnostics.complete /\ IsInjective(r.events)
               /\ failed <=> r.recovery = {"failed"}
               /\ failed /\ r.metrics.task_success = 1 => mission.substrings \cup mission.artifacts = {}
               /\ r.metrics.task_success <= r.metrics.artifact_completeness

-----------------------------------------------------------------------------
\* Tool errors: an error is an envelope, or [says: what its text mentions, status].

DefaultRetryable(kind)      == kind \in {"timeout", "upstream_unavailable", "rate_limited"}
DefaultUserActionable(kind) == kind \in {"auth_required", "invalid_input", "policy_blocked", "budget_exhausted"}

\* The first kind in this order whose words or statuses the error has.
Classes ==
  <<[kind |-> "timeout",              statuses |-> {}],
    [kind |-> "budget_exhausted",     statuses |-> {}],
    [kind |-> "policy_blocked",       statuses |-> {}],
    [kind |-> "auth_required",        statuses |-> {401, 403}],
    [kind |-> "not_found",            statuses |-> {404}],
    [kind |-> "rate_limited",         statuses |-> {429}],
    [kind |-> "upstream_unavailable", statuses |-> 500..599],
    [kind |-> "invalid_input",        statuses |-> {}]>>

ClassifyToolError(error) ==
  LET fits == {i \in DOMAIN Classes : Classes[i].kind \in error.says \/ Field(error, "status", 0) \in Classes[i].statuses}
  IN IF fits = {} THEN "unknown" ELSE Classes[CHOOSE i \in fits : \A j \in fits : i <= j].kind

\* createToolErrorEnvelope
Envelope(kind, given) ==
  [kind |-> kind, retryable |-> Field(given, "retryable", DefaultRetryable(kind)),
   transient |-> DefaultRetryable(kind),
   actionable |-> Field(given, "actionable", DefaultUserActionable(kind)), cause |-> Field(given, "cause", "none")]

\* normalizeToolError: an envelope keeps its flags unless its kind is changed.
NormalizeToolError(error, override) ==
  LET told == "kind" \in DOMAIN error
      kind == Field(override, "kind", IF told THEN error.kind ELSE ClassifyToolError(error))
  IN IF told THEN IF kind = error.kind THEN error
                  ELSE [error EXCEPT !.kind = kind, !.retryable = DefaultRetryable(kind),
                                     !.transient = DefaultRetryable(kind), !.actionable = DefaultUserActionable(kind)]
     ELSE Envelope(kind, [cause |-> "raw"])

\* Normalising again changes nothing; a kind the caller gives is the kind told,
\* and never with the flags of another; nothing is both retried and left to the
\* user to act on, unless the tool itself said so; the raw cause survives.
ErrorsClassified(error, override, later) ==
  LET once  == NormalizeToolError(error, override)
      twice == NormalizeToolError(once, later)
  IN /\ NormalizeToolError(once, <<>>) = once
     /\ "kind" \in DOMAIN later => twice.kind = later.kind
     /\ twice.kind # once.kind => twice.retryable = DefaultRetryable(twice.kind)
                                  /\ twice.actionable = DefaultUserActionable(twice.kind)
     /\ once.retryable /\ once.actionable => "kind" \in DOMAIN error /\ once.kind = error.kind
     /\ twice.cause = once.cause
     /\ "kind" \notin DOMAIN error => once.cause = "raw"
=============================================================================
