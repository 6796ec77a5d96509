--------------------------- MODULE TerminalBenchRules --------------------------
(***************************************************************************)
(* Terminal-Bench (examples/terminal-bench/src): the profile that runs in  *)
(* a task's container and records what it did, the import of a Harbor      *)
(* job's directory into a benchmark report, and the command that starts    *)
(* Harbor.  An absent field is a name outside a record's domain.           *)
(***************************************************************************)
EXTENDS Integers, Sequences, FiniteSets, SequencesExt, Functions, TLC

CONSTANT Rejected       \* an argument the command refuses

Report == INSTANCE ReportRules

Field(r, f, other) == IF f \in DOMAIN r THEN r[f] ELSE other
Concat(s, F(_))    == FlattenSeq([i \in DOMAIN s |-> F(s[i])])
TypesOf(events)    == {events[i].type : i \in DOMAIN events}
InSequence(events) == SortSeq(events, LAMBDA e, f : e.sequence < f.sequence)

(***************************************************************************)
(* The trace of a trial, from its directory                                *)
(***************************************************************************)
\* traceEventTypeFromProjection(); a projection has type, summary, and may have
\* the id of an artifact or of a policy decision.
ProjectedType ==
  [policy |-> "policy.decision", artifact |-> "artifact.created", tool |-> "tool.invoked",
   command |-> "tool.invoked", handoff |-> "protocol.action.planned", ended |-> "actor.completed"]

HasEquivalent(events, p, type) ==
  \E i \in DOMAIN events :
    /\ events[i].type = type
    /\ IF type \in {"artifact.created", "policy.decision"} /\ "id" \in DOMAIN p
       THEN Field(events[i], "id", "none") = p.id ELSE events[i].summary = p.summary

\* eventFactory(): each event takes the next number.
AddEvent(acc, type, summary, extra) ==
  [events |-> Append(acc.events, extra @@ [type |-> type, summary |-> summary, sequence |-> acc.last + 1]), last |-> acc.last + 1]

FromProjections(acc, projections, existing) ==
  FoldLeft(LAMBDA a, p :
             IF p.type \notin DOMAIN ProjectedType \/ HasEquivalent(existing, p, ProjectedType[p.type]) THEN a
             ELSE AddEvent(a, ProjectedType[p.type], p.summary, IF "id" \in DOMAIN p THEN [id |-> p.id] ELSE <<>>),
           acc, projections)

\* The events of the trace file, in the first of the places that has a whole one.
LoadTraceEvents(places) ==
  LET whole == SelectSeq(places, LAMBDA p : p.kind = "events") IN IF whole = <<>> THEN <<>> ELSE whole[1].events

\* Mutant: what the import adds is numbered from one.
ImportEventsFromOne(places, projections) ==
  LET loaded == LoadTraceEvents(places)
      projected == FromProjections([events |-> loaded, last |-> 0], projections, loaded)
      Ensure(acc, type) == IF type \in TypesOf(acc.events) THEN acc ELSE AddEvent(acc, type, "imported", <<>>)
  IN InSequence(Ensure(Ensure(Ensure(projected, "trial.started"), "grader.completed"), "trial.completed").events)

ImportEvents(places, projections) ==
  LET loaded == LoadTraceEvents(places)
      highest == FoldLeft(LAMBDA m, e : IF m < e.sequence THEN e.sequence ELSE m, 0, loaded)
      projected == FromProjections([events |-> loaded, last |-> highest], projections, loaded)
      Ensure(acc, type) == IF type \in TypesOf(acc.events) THEN acc ELSE AddEvent(acc, type, "imported", <<>>)
  IN InSequence(Ensure(Ensure(Ensure(projected, "trial.started"), "grader.completed"), "trial.completed").events)

RequiredTypes == {"trial.started", "actor.completed", "grader.completed", "trial.completed"}
TraceDiagnostics(events) == [missing |-> RequiredTypes \ TypesOf(events)]

\* What was recorded keeps its place before what the import adds, no number is used
\* twice, only the end of the actor can be missing, for the import never makes one
\* up, and each artifact and decision that a projection tells of is in the trace.
TraceImported(places, projections) ==
  LET loaded == InSequence(LoadTraceEvents(places))
      events == ImportEvents(places, projections)
  IN /\ IsPrefix(loaded, events)
     /\ IsInjective([i \in DOMAIN loaded |-> loaded[i].sequence]) => IsInjective([i \in DOMAIN events |-> events[i].sequence])
     /\ TraceDiagnostics(events).missing \subseteq {"actor.completed"}
     /\ TraceDiagnostics(events).missing = {} <=>
          "actor.completed" \in TypesOf(loaded) \/ \E i \in DOMAIN projections : projections[i].type = "ended"
     /\ \A i \in DOMAIN projections : "id" \in DOMAIN projections[i] /\ projections[i].type \in {"artifact", "policy"} =>
          \E j \in DOMAIN events : Field(events[j], "id", "none") = projections[i].id

(***************************************************************************)
(* The report and the validation summary of a job                          *)
(***************************************************************************)
\* The first name in the job's, in this order, decides the gate.
Gates == <<"smoke", "quick", "validation", "calibration", "full">>
GateKind(jobName) ==
  LET named == SelectSeq(Gates, LAMBDA g : g \in jobName)
  IN IF named = <<>> THEN "custom" ELSE IF named[1] = "calibration" THEN "validation" ELSE named[1]

\* A trial's metrics: what it did not report of success follows from the reward.
ExtractMetrics(result) ==
  LET reward == IF "reward" \in DOMAIN result THEN <<[id |-> "reward", value |-> result.reward]>> ELSE <<>>
      success == IF "success" \in DOMAIN result THEN <<[id |-> "success", value |-> result.success]>>
                 ELSE IF "reward" \in DOMAIN result THEN <<[id |-> "success", value |-> IF result.reward > 0 THEN 1 ELSE 0]>>
                 ELSE <<>>
  IN reward \o success

ImportTrial(dir) == [candidate |-> "generic-ai", task |-> dir.task, metrics |-> ExtractMetrics(dir.result), complete |-> dir.complete]

MinimumTrials == 5
\* Mutant: completeness is asked of no gate.
BenchmarkAnyTrace(jobName, trialCount) ==
  [candidates |-> <<"generic-ai">>, primary |-> "reward", definitions |-> [duration_sec |-> "lower_is_better"],
   count |-> IF trialCount < 1 THEN 1 ELSE trialCount, minimumTrials |-> MinimumTrials, allowSingleRun |-> FALSE,
   requireTrace |-> FALSE]

CreateBenchmark(jobName, trialCount) ==
  [candidates |-> <<"generic-ai">>, primary |-> "reward", definitions |-> [duration_sec |-> "lower_is_better"],
   count |-> IF trialCount < 1 THEN 1 ELSE trialCount, minimumTrials |-> MinimumTrials, allowSingleRun |-> FALSE,
   requireTrace |-> GateKind(jobName) \in {"validation", "full"}]

MetricValues(results, id) == Concat(results, LAMBDA r : [i \in DOMAIN Report!MetricOf(r, id) |-> Report!MetricOf(r, id)[i].value])

\* Tasks whose attempts disagree.
FlakeSignals(results) ==
  {task \in {results[i].task : i \in DOMAIN results} :
     LET mine == SelectSeq(results, LAMBDA r : r.task = task)
         rewards == ToSet(MetricValues(mine, "reward"))
     IN \/ Cardinality(ToSet(MetricValues(mine, "success"))) > 1
        \/ (\E x \in rewards : x <= 0) /\ (\E x \in rewards : x > 0)}

ExtractTaskPinning(datasets) ==
  CASE \E i \in DOMAIN datasets : datasets[i].names # {} -> "pinned"
    [] \E i \in DOMAIN datasets : datasets[i].counted -> "sampled"
    [] OTHER -> "unknown"

ValidationLimitations(gate, results, pinning, requireTrace) ==
  (IF gate \notin {"validation", "full"} THEN {"smoke signal"} ELSE {})
  \cup (IF Len(results) < MinimumTrials THEN {"few trials"} ELSE {})
  \cup (IF pinning # "pinned" THEN {"not pinned"} ELSE {})
  \cup (IF requireTrace /\ \E i \in DOMAIN results : ~ results[i].complete THEN {"incomplete trials"} ELSE {})

\* An action is chosen by words of the limitation: one about incomplete traces
\* speaks of trials too.
NextActions(limitations, flakes) ==
  LET asked == (IF flakes # {} THEN {"rerun"} ELSE {})
               \cup (IF "not pinned" \in limitations THEN {"pin tasks"} ELSE {})
               \cup (IF limitations \cap {"few trials", "incomplete trials"} # {} THEN {"more trials"} ELSE {})
               \cup (IF "incomplete trials" \in limitations THEN {"fix traces"} ELSE {})
  IN IF asked = {} THEN {"compare"} ELSE asked

ValidationSummary(jobName, datasets, results) ==
  LET b == CreateBenchmark(jobName, Len(results))
      limitations == ValidationLimitations(GateKind(jobName), results, ExtractTaskPinning(datasets), b.requireTrace)
  IN [gate |-> GateKind(jobName), limitations |-> limitations, flakes |-> FlakeSignals(results),
      actions |-> NextActions(limitations, FlakeSignals(results)),
      quality |-> IF Report!CreateBenchmarkReport(b, results).insufficient = {} THEN "sufficient" ELSE "insufficient"]

\* A job is called sufficient only with enough trials that have a reward and, for
\* a validation gate, a whole trace each; such a job has none of those limitations;
\* and what stands in its way is always followed by an action.
ToldHonestly(dirs, s) ==
  /\ s.quality = "sufficient" =>
       /\ Cardinality({i \in DOMAIN dirs : "reward" \in DOMAIN dirs[i].result}) >= MinimumTrials
       /\ "few trials" \notin s.limitations /\ "incomplete trials" \notin s.limitations
       /\ s.gate \in {"validation", "full"} => \A i \in DOMAIN dirs : dirs[i].complete
  /\ s.actions = {"compare"} => s.limitations \subseteq {"smoke signal"} /\ s.flakes = {}
  /\ \A i, j \in DOMAIN dirs :
       dirs[i].task = dirs[j].task /\ {"reward", "success"} \cap DOMAIN dirs[i].result # {}
       /\ Field(dirs[i].result, "reward", 0) <= 0 /\ Field(dirs[j].result, "reward", 0) > 0
       /\ "reward" \in DOMAIN dirs[i].result => dirs[i].task \in s.flakes

ImportHonest(jobName, datasets, dirs) ==
  ToldHonestly(dirs, ValidationSummary(jobName, datasets, [i \in DOMAIN dirs |-> ImportTrial(dirs[i])]))

(***************************************************************************)
(* The proof of a smoke run                                                *)
(***************************************************************************)
RequiredSmokeArtifacts == {"summary", "trace-events", "trace-diagnostics", "policy-decisions", "integrity", "trajectory"}

\* collectFileArtifacts(): the files of a tree by path.
CollectFileArtifacts(files) == {[uri |-> f] : f \in files}

SmokeArtifactProof(trials) ==
  LET Uris(t) == {a.uri : a \in CollectFileArtifacts(trials[t])}
      missing == [t \in DOMAIN trials |-> RequiredSmokeArtifacts \ {u[1] : u \in {v \in Uris(t) : Len(v) = 1}}]
      harness == [t \in DOMAIN trials |-> {u \in Uris(t) : Len(u) > 1 /\ u[1] = "harness"}]
  IN [missing |-> missing, complete |-> {t \in DOMAIN trials : missing[t] = {} /\ harness[t] # {}}]

\* A trial that is proved complete has every file of its own, and those of the
\* harness, though it has all of them in other directories.
ProofComplete(trials) ==
  \A t \in SmokeArtifactProof(trials).complete :
    /\ \A name \in RequiredSmokeArtifacts : <<name>> \in trials[t]
    /\ \E f \in trials[t] : f[1] = "harness"

(***************************************************************************)
(* The profile in the container                                            *)
(***************************************************************************)
\* A tree maps paths to contents, or to "link" below a path: only files are
\* fingerprinted there.
Under(tree, path) == {p \in DOMAIN tree : IsPrefix(path, p)}

SnapshotPath(tree, path) ==
  CASE path \in DOMAIN tree -> [kind |-> "file", print |-> {<<path, tree[path]>>}]
    [] path \notin DOMAIN tree /\ Under(tree, path) # {} ->
         [kind |-> "directory", print |-> {<<p, tree[p]>> : p \in {q \in Under(tree, path) : tree[q] # "link"}}]
    [] OTHER -> [kind |-> "missing", print |-> {}]

CompareSnapshots(before, after) ==
  {path \in DOMAIN before : path \notin DOMAIN after \/ after[path] # before[path]}

\* What the harness answered: [status, policies, projections, artifacts], or <<>> when
\* it threw.
FromHarness(acc, response) ==
  LET decided == FoldLeft(LAMBDA a, d : AddEvent(a, "policy.decision", d, <<>>), acc, response.policies)
  IN FoldLeft(LAMBDA a, p : CASE p \in {"tool", "command"} -> AddEvent(a, "tool.invoked", p, <<>>)
                              [] p = "handoff" -> AddEvent(a, "protocol.action.planned", p, <<>>)
                              [] OTHER -> a, decided, response.projections)

NestedSandboxDenied == <<"denied">>     \* createPolicyDecisions()

ProfileStatus(violations, response) ==
  CASE violations # {} -> "integrity_failed"
    [] response # <<>> /\ response.status # "failed" -> "passed"
    [] OTHER -> "failed"

RunBenchmarkProfile(immutable, treeBefore, treeAfter, response) ==
  LET before == [p \in immutable |-> SnapshotPath(treeBefore, p)]
      after  == [p \in immutable |-> SnapshotPath(treeAfter, p)]
      told   == [policies |-> Field(response, "policies", NestedSandboxDenied), projections |-> Field(response, "projections", <<>>),
                 artifacts |-> Field(response, "artifacts", <<>>)]
      Add(acc, type) == AddEvent(acc, type, "profile", <<>>)
      began == Add(Add([events |-> <<>>, last |-> 0], "benchmark.started"), "actor.invoked")
      ran   == Add(FromHarness(began, told), "actor.completed")
      wrote == FoldLeft(LAMBDA a, x : Add(a, "artifact.created"), ran, told.artifacts \o <<"json", "markdown", "artifacts">>)
      events == Add(wrote, "trial.completed").events
  IN [status |-> ProfileStatus(CompareSnapshots(before, after), response), events |-> events,
      missing |-> {"benchmark.started", "actor.invoked", "actor.completed", "policy.decision", "trial.completed"} \ TypesOf(events)]

\* The steps of a trajectory: the instruction, what was projected, the answer.
Trajectory(projections) ==
  LET steps == SelectSeq(projections, LAMBDA p : p \in {"tool", "command", "done", "handoff"})
  IN <<[id |-> 1, from |-> "user"]>> \o [i \in DOMAIN steps |-> [id |-> i + 1, from |-> steps[i]]]
     \o <<[id |-> Len(steps) + 2, from |-> "agent"]>>

\* A profile passes only when the harness did not fail and no file it had to keep was
\* changed, removed or added; whatever happened, its trace is numbered without a
\* gap, ends with the trial, and lacks at most the policy decisions of a harness
\* that made none; so is the trajectory.
ProfileTold(immutable, before, after, response, r) ==
  LET Files(tree) == {<<p, tree[p]>> : p \in {q \in DOMAIN tree : tree[q] # "link" /\ \E path \in immutable : IsPrefix(path, q)}}
      steps == Trajectory(Field(response, "projections", <<>>))
  IN /\ r.status = "passed" => Files(before) = Files(after) /\ response.status # "failed"
     /\ \A i \in DOMAIN r.events : r.events[i].sequence = i
     /\ Last(r.events).type = "trial.completed"
     /\ r.missing = (IF response # <<>> /\ response.policies = <<>> THEN {"policy.decision"} ELSE {})
     /\ \A i \in DOMAIN steps : steps[i].id = i

ProfileHonest(immutable, before, after, response) ==
  ProfileTold(immutable, before, after, response, RunBenchmarkProfile(immutable, before, after, response))

(***************************************************************************)
(* Command transcripts                                                     *)
(***************************************************************************)
Transcribed == {"tool.invoked", "protocol.action.planned", "policy.decision", "artifact.created", "grader.completed",
                "actor.invoked", "actor.completed", "trial.started", "trial.completed"}

PhaseFromTraceEvent(type) ==
  CASE type \in {"actor.invoked", "trial.started"} -> "started"
    [] type \in {"actor.completed", "trial.completed", "grader.completed"} -> "completed"
    [] type = "protocol.action.planned" -> "planned"
    [] OTHER -> "observed"

\* A number of 0 is taken for none, and replaced by the place among the entries.
Transcript(events) ==
  LET chosen == SelectSeq(events, LAMBDA e : e.type \in Transcribed)
  IN InSequence([i \in DOMAIN chosen |->
       [type |-> chosen[i].type, phase |-> PhaseFromTraceEvent(chosen[i].type),
        sequence |-> IF chosen[i].sequence = 0 THEN i ELSE chosen[i].sequence]])

\* findValue(): the first value under one of the names, this level before the
\* deeper ones; an object is a sequence of [key, value] or, of a nested object, [key, inside].
RECURSIVE FindValue(_, _)
FindValue(object, names) ==
  LET here == SelectSeq(object, LAMBDA f : f.key \in names)
      below == Concat(SelectSeq(object, LAMBDA f : "inside" \in DOMAIN f), LAMBDA f : FindValue(f.inside, names))
  IN IF here # <<>> THEN <<here[1]>> ELSE IF below # <<>> THEN <<below[1]>> ELSE <<>>

\* An imported trace is told in the order of its numbers, whole, and each start
\* and end as what it is; what is nearest to the root is told of its data.
TranscriptTells(places, projections, object) ==
  LET events == ImportEvents(places, projections)
      t == Transcript(events)
      found == FindValue(object, {"command"})
  IN /\ \A i \in 1..(Len(t) - 1) : t[i].sequence <= t[i + 1].sequence
     /\ Len(t) = Len(SelectSeq(events, LAMBDA e : e.type \in Transcribed))
     /\ "trial.completed" \in TypesOf(t) /\ \A i \in DOMAIN t : t[i].type = "trial.completed" => t[i].phase = "completed"
     /\ \A i \in DOMAIN object : object[i].key = "command" => found # <<>> /\ found[1] \in ToSet(object)

(***************************************************************************)
(* Starting Harbor                                                         *)
(***************************************************************************)
Flags == {"--profile", "--config", "--model", "--adapter"}

\* parseArgs(): what follows "--" is Harbor's.
RECURSIVE ParseArgs(_, _)
ParseArgs(argv, options) ==
  CASE argv = <<>> -> options
    [] argv # <<>> /\ Head(argv) = "--" -> ("extra" :> Tail(argv)) @@ options
    [] argv # <<>> /\ Head(argv) = "--dry-run" -> ParseArgs(Tail(argv), ("--dry-run" :> <<>>) @@ options)
    [] Len(argv) > 1 /\ Head(argv) \in Flags /\ (Head(argv) = "--profile" => argv[2] \in {"smoke", "full"}) ->
         ParseArgs(Tail(Tail(argv)), (Head(argv) :> <<argv[2]>>) @@ options)
    [] OTHER -> Rejected

Secret(key) == key \in {"API_KEY"}
RedactEnv(env) == [k \in DOMAIN env |-> IF Secret(k) THEN "<redacted>" ELSE env[k]]

BuildHarborCommandPlan(options, env) ==
  LET defaults == [ADAPTER |-> "openai-codex", TERM |-> "dumb"]
      asked    == IF "--adapter" \in DOMAIN options THEN [ADAPTER |-> options["--adapter"][1]] ELSE <<>>
      model    == IF "--model" \in DOMAIN options THEN [MODEL |-> options["--model"][1]] ELSE <<>>
      config   == Field(options, "--config", Field(options, "--profile", <<"smoke">>))
  IN [env |-> model @@ asked @@ env @@ defaults, args |-> <<"run", "-c">> \o config \o Field(options, "extra", <<>>)]

\* What a dry run shows holds no secret; an option is
\* stronger than the environment and that than the default; and what follows "--"
\* reaches Harbor as it is, though it reads like options.
CommandPlanned(argv, env) ==
  LET o == ParseArgs(argv, <<>>)
      plan == BuildHarborCommandPlan(o, env)
      shown == RedactEnv(plan.env)
      passed == ParseArgs(argv \o <<"--">> \o argv, <<>>)
      asked  == ParseArgs(<<"--adapter", "other">> \o argv, <<>>)
  IN o # Rejected =>
       /\ \A k \in DOMAIN env : Secret(k) => shown[k] # env[k]
       /\ "--adapter" \notin DOMAIN o =>
            /\ plan.env.ADAPTER = Field(env, "ADAPTER", "openai-codex")
            /\ BuildHarborCommandPlan(asked, env).env.ADAPTER = "other"
       /\ "extra" \notin DOMAIN o => BuildHarborCommandPlan(passed, env).args = plan.args \o argv
=============================================================================
