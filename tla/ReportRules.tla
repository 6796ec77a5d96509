------------------------------- MODULE ReportRules ------------------------------
(***************************************************************************)
(* The evidence report of a benchmark (sdk/src/harness/report.ts): what a  *)
(* set of trial results says of the candidates, and when the report may    *)
(* recommend one.  Numbers are integers and averages are <<sum, count>>,   *)
(* so that they are compared without rounding; an absent field is a name   *)
(* outside a record's domain, and a count of 0 stands for null.            *)
(***************************************************************************)
EXTENDS Integers, Sequences, FiniteSets, SequencesExt, TLC

Field(r, f, other) == IF f \in DOMAIN r THEN r[f] ELSE other

Least(a, b)    == IF a < b THEN a ELSE b
Greatest(a, b) == IF a < b THEN b ELSE a
LeastOf(S)     == CHOOSE x \in S : \A y \in S : x <= y
GreatestOf(S)  == CHOOSE x \in S : \A y \in S : y <= x

Total(s, F(_)) == FoldLeft(LAMBDA t, x : t + F(x), 0, s)
Count(s, P(_)) == Len(SelectSeq(s, P))
Concat(s, F(_)) == FlattenSeq([i \in DOMAIN s |-> F(s[i])])

\* Averages and rates as fractions; rate() makes 0 of an empty one.
AtMost(p, q) == p[1] * q[2] <= q[1] * p[2]
Rate(count, total) == IF total = 0 THEN <<0, 1>> ELSE <<count, total>>
InUnit(p)    == 0 <= p[1] /\ p[1] <= p[2]

-----------------------------------------------------------------------------
\* What the benchmark asks for

PositiveIntegerOrDefault(r, f, fallback) ==
  IF f \in DOMAIN r /\ r[f] >= 1 THEN r[f] ELSE fallback

ConfiguredTrialCount(b) == PositiveIntegerOrDefault(b, "count", 1)
IsSmokeBenchmark(b)     == Field(b, "smoke", FALSE) \/ Field(b, "trialsSmoke", FALSE)
ExplicitMinTrials(b)    == {"minTrials", "trialsMinTrials"} \cap DOMAIN b # {}

\* minTrialsForRecommendation: the first of the three that is configured.
MinTrials(b) ==
  LET chosen == IF "minTrials" \in DOMAIN b THEN "minTrials"
                ELSE IF "trialsMinTrials" \in DOMAIN b THEN "trialsMinTrials" ELSE "minimumTrials"
  IN PositiveIntegerOrDefault(b, chosen, 3)

PassKHorizon(b) == PositiveIntegerOrDefault(b, "passK", ConfiguredTrialCount(b))

DefaultLowerIsBetter ==
  {"cost_usd", "handoff_count", "latency", "latency_ms", "policy_violations",
   "rework_count", "rework_rate", "wall_time"}

MetricDirection(b, id) ==
  Field(b.definitions, id, IF id \in DefaultLowerIsBetter THEN "lower_is_better" ELSE "higher_is_better")

-----------------------------------------------------------------------------
\* Metrics of a candidate; result.metrics is a sequence of [id, value].

MetricOf(result, id) == SelectSeq(result.metrics, LAMBDA m : m.id = id)
HasMetric(result, id) == MetricOf(result, id) # <<>>
MetricSampleCount(id, results) == Count(results, LAMBDA r : HasMetric(r, id))

\* aggregateMetric: the first value of each result that has one; count 0 when
\* no result has.
AggregateMetric(id, results) ==
  LET sampled == SelectSeq(results, LAMBDA r : HasMetric(r, id))
  IN <<Total(sampled, LAMBDA r : MetricOf(r, id)[1].value), Len(sampled)>>

TraceComplete(results) == results # <<>> /\ \A i \in DOMAIN results : results[i].complete

\* passKSummary: 1 - (1 - rate)^k
PassK(b, results) ==
  LET values == Concat(results, LAMBDA r : MetricOf(r, b.primary))
      passed == Count(values, LAMBDA m : m.value >= 1)
      k      == PassKHorizon(b)
      n      == Len(values)
  IN [passCount |-> passed, sampleCount |-> n, trialCount |-> Len(results),
      value |-> <<n ^ k - (n - passed) ^ k, n ^ k>>]

-----------------------------------------------------------------------------
\* Evidence and recommendation

SingleRunOverride(b, trials) ==
  /\ ~ ExplicitMinTrials(b)
  /\ Field(b, "allowSingleRun", FALSE)
  /\ ConfiguredTrialCount(b) = 1
  /\ trials = 1

\* Mutant: the samples of the primary metric are not counted.
SufficientByTrials(b, results) ==
  /\ Len(results) # 0
  /\ Len(results) >= MinTrials(b) \/ SingleRunOverride(b, Len(results))
  /\ Field(b, "requireTrace", FALSE) => TraceComplete(results)

\* hasSufficientRecommendationEvidence
SufficientEvidence(b, results) ==
  LET trials   == Len(results)
      samples  == MetricSampleCount(b.primary, results)
      override == SingleRunOverride(b, trials)
  IN /\ trials # 0
     /\ trials >= MinTrials(b) \/ override
     /\ samples # 0
     /\ samples >= MinTrials(b) \/ (override /\ samples = 1)
     /\ Field(b, "requireTrace", FALSE) => TraceComplete(results)

ConfidenceFor(b, results) ==
  LET trials == Len(results)
      level  == CASE \/ trials < MinTrials(b)
                     \/ MetricSampleCount(b.primary, results) < MinTrials(b)
                     \/ Field(b, "requireTrace", FALSE) /\ ~ TraceComplete(results) -> "insufficient_evidence"
                  [] OTHER -> IF IsSmokeBenchmark(b) \/ trials < ConfiguredTrialCount(b)
                              THEN "bounded_recommendation" ELSE "confident_recommendation"
  IN [level |-> level, minTrials |-> MinTrials(b), observed |-> trials,
      configured |-> ConfiguredTrialCount(b), smoke |-> IsSmokeBenchmark(b)]

\* recommendationFor; best is the set of best averages, empty for undefined.
RecommendationFor(b, results, direction, best) ==
  LET mine == AggregateMetric(b.primary, results)
  IN CASE ~ SufficientEvidence(b, results) \/ mine[2] = 0 \/ best = {} \/ direction = "informational"
          -> "insufficient_evidence"
       [] OTHER -> IF \A v \in best : IF direction = "lower_is_better" THEN AtMost(mine, v) ELSE AtMost(v, mine)
                   THEN "recommended" ELSE "not_recommended"

ResultsOf(candidate, results) == SelectSeq(results, LAMBDA r : r.candidate = candidate)

\* bestMetricValue over every candidate of the results with enough evidence,
\* configured in the benchmark or not.
BestMetricValue(b, results) ==
  LET direction == MetricDirection(b, b.primary)
      enough    == {c \in {results[i].candidate : i \in DOMAIN results} : SufficientEvidence(b, ResultsOf(c, results))}
      values    == {AggregateMetric(b.primary, ResultsOf(c, results)) : c \in enough}
      Best(v)   == \A w \in values : IF direction = "lower_is_better" THEN AtMost(v, w) ELSE AtMost(w, v)
  IN IF direction = "informational" THEN {} ELSE {v \in values : Best(v)}

ReportConfidence(candidates) ==
  LET Of(f)  == {candidates[i].confidence[f] : i \in DOMAIN candidates}
      levels == Of("level")
  IN IF candidates = <<>>
     THEN [level |-> "insufficient_evidence", minTrials |-> 1, observed |-> 0, configured |-> 1, smoke |-> FALSE]
     ELSE [level |-> IF "insufficient_evidence" \in levels THEN "insufficient_evidence"
                     ELSE IF "bounded_recommendation" \in levels THEN "bounded_recommendation"
                     ELSE "confident_recommendation",
           minTrials |-> GreatestOf(Of("minTrials")), observed |-> LeastOf(Of("observed")),
           configured |-> GreatestOf(Of("configured")), smoke |-> TRUE \in Of("smoke")]

-----------------------------------------------------------------------------
\* Reliability (benchmark.reliability, when configured)

InferredOutcomeStatus(b, result) ==
  LET metric    == Field(b.reliability, "successMetric", b.primary)
      lower     == MetricDirection(b, metric) = "lower_is_better"
      threshold == Field(b.reliability, "successThreshold", IF lower THEN 0 ELSE 1)
      value     == MetricOf(result, metric)[1].value
  IN CASE "outcome" \in DOMAIN result -> result.outcome.status
       [] "outcome" \notin DOMAIN result /\ ~ HasMetric(result, metric) -> "failed"
       [] OTHER -> IF IF lower THEN value <= threshold ELSE value >= threshold THEN "passed" ELSE "failed"

\* failureSeverity as its score: none 0, low 1, medium 2, high 3, critical 4.
FailureSeverity(b, result, status) ==
  LET metric == Field(b.reliability, "severityMetric", "")
  IN CASE "severity" \in DOMAIN Field(result, "outcome", <<>>) -> result.outcome.severity
       [] "severity" \notin DOMAIN Field(result, "outcome", <<>>) /\ HasMetric(result, metric)
            -> Greatest(0, Least(4, MetricOf(result, metric)[1].value))
       [] OTHER -> IF status = "failed" THEN 2 ELSE 0

PassAtMetric(scored, k) ==
  IF \E i \in 1..Least(k, Len(scored)) : scored[i] = "passed" THEN 1 ELSE 0

Retried(result) ==
  LET outcome == Field(result, "outcome", <<>>)
  IN Field(outcome, "attempt", 1) > 1 \/ "retryOf" \in DOMAIN outcome

ReliabilitySummary(b, results) ==
  LET statuses == [i \in DOMAIN results |-> InferredOutcomeStatus(b, results[i])]
      Of(S)    == Count(statuses, LAMBDA s : s \in S)
      scored   == SelectSeq(statuses, LAMBDA s : s \in {"passed", "failed"})
      severity == {FailureSeverity(b, results[i], statuses[i]) : i \in DOMAIN results}
      passed   == Of({"passed"})
  IN [total |-> Len(results), scored |-> Len(scored), passed |-> passed, failed |-> Len(scored) - passed,
      skipped |-> Of({"skipped"}), excluded |-> Of({"excluded"}), retried |-> Count(results, Retried),
      passRate |-> <<passed, Len(scored)>>,
      consistency |-> <<Greatest(passed, Len(scored) - passed), Len(scored)>>,
      passAt |-> [k \in {1, 3, 5} |-> PassAtMetric(scored, k)],
      maxSeverity |-> IF severity = {} THEN 0 ELSE GreatestOf(severity)]

-----------------------------------------------------------------------------
\* Profiles: a profile is [cases: sequence of cases with an id], or NoProfile

NoProfile == [none |-> TRUE]
Cases(profile) == IF profile = NoProfile THEN <<>> ELSE profile.cases
Planned(profile, ref) == SelectSeq(Cases(profile), LAMBDA c : c.id = ref)
PlannedField(profile, ref, f, other) ==
  LET cases == Planned(profile, ref) IN IF cases = <<>> THEN other ELSE Field(cases[1], f, other)
Refs(s, f) == {s[i][f] : i \in DOMAIN s}
Missing(profile, observations) ==
  SelectSeq(Cases(profile), LAMBDA c : c.id \notin Refs(observations, "case"))

\* Mutant: what an observation says of itself is taken at its word.
NormalizedToolUseAsGiven(profile, o) ==
  [case |-> o.case, expectation |-> Field(o, "expectation", "optional"), toolCalls |-> o.toolCalls,
   necessary |-> Field(o, "necessary", o.toolCalls), unnecessary |-> Field(o, "unnecessary", 0),
   avoided |-> Field(o, "avoided", 0), violated |-> FALSE, direct |-> FALSE]

\* normalizedToolUseObservation
NormalizedToolUse(profile, o) ==
  LET expectation == Field(o, "expectation", PlannedField(profile, o.case, "expectation", "optional"))
      calls       == Greatest(0, o.toolCalls)
      fallback    == IF expectation = "wasteful" THEN 0
                     ELSE Least(calls, PlannedField(profile, o.case, "expectedToolCalls", calls))
      necessary   == Least(calls, Greatest(0, Field(o, "necessary", fallback)))
      unnecessary == Least(calls - necessary, Greatest(0, Field(o, "unnecessary", calls - necessary)))
      eligible    == Field(o, "direct", PlannedField(profile, o.case, "direct",
                       PlannedField(profile, o.case, "expectation", "optional") = "wasteful"))
      limit       == Field(o, "limit", PlannedField(profile, o.case, "maxToolCalls",
                       Field(profile, "maxToolCalls", calls)))
  IN [case |-> o.case, expectation |-> expectation, toolCalls |-> calls,
      necessary |-> necessary, unnecessary |-> unnecessary,
      avoided |-> Greatest(0, Field(o, "avoided", IF eligible /\ calls = 0 THEN 1 ELSE 0)),
      violated |-> Field(o, "violated", calls > limit), direct |-> eligible]

ToolUseSummary(profile, observations) ==
  LET seen   == [i \in DOMAIN observations |-> NormalizedToolUse(profile, observations[i])]
      Sum(f) == Total(seen, LAMBDA o : o[f])
      Of(e)  == SelectSeq(seen, LAMBDA o : o.expectation = e)
      good   == Sum("necessary") + Sum("avoided")
  IN [planned |-> Len(Cases(profile)), observed |-> Cardinality(Refs(observations, "case")),
      toolCalls |-> Sum("toolCalls"), necessary |-> Sum("necessary"), unnecessary |-> Sum("unnecessary"),
      avoided |-> Sum("avoided"), violations |-> Count(seen, LAMBDA o : o.violated),
      direct |-> Count(seen, LAMBDA o : o.direct),
      efficiency |-> <<good, good + Sum("unnecessary")>>,
      byExpectation |-> [e \in {"required", "optional", "wasteful"} |->
        [toolCalls |-> Total(Of(e), LAMBDA o : o.toolCalls),
         violations |-> Count(Of(e), LAMBDA o : o.violated)]],
      warns |-> Missing(profile, observations) # <<>> \/ \E i \in DOMAIN seen : seen[i].violated]

AttemptStatuses == {"succeeded", "failed", "skipped", "retried", "policy_blocked"}

\* toolRecoverySummary: with a profile only its own cases count as observed.
ToolRecoverySummary(profile, observations) ==
  LET seen     == Refs(observations, "case")
      configured == Refs(Cases(profile), "id")
      byStatus(s) == [t \in AttemptStatuses |-> Count(s, LAMBDA o : o.status = t)]
      kinds    == {o.error : o \in {p \in ToSet(observations) : "error" \in DOMAIN p}}
      Of(c)    == SelectSeq(observations, LAMBDA o : o.case = c)
      Has(o, k) == "error" \in DOMAIN o /\ o.error = k
      Unexpected(o) ==
        \/ o.tool \notin PlannedField(profile, o.case, "tools", {o.tool})
        \/ o.status \notin PlannedField(profile, o.case, "statuses", {o.status})
        \/ "error" \in DOMAIN o /\ o.error \notin PlannedField(profile, o.case, "kinds", {o.error})
      Unbudgeted(c) ==
        c.budgeted /\ Of(c.id) # <<>> /\ \A i \in DOMAIN Of(c.id) : "exhausted" \notin DOMAIN Of(c.id)[i]
  IN [planned |-> Len(Cases(profile)),
      observed |-> Cardinality(IF profile = NoProfile THEN seen ELSE seen \cap configured),
      attempts |-> Len(observations), byStatus |-> byStatus(observations),
      byKind |-> [k \in kinds |-> Count(observations, LAMBDA o : Has(o, k))],
      byCase |-> [c \in seen |-> [attempts |-> Len(Of(c)), byStatus |-> byStatus(Of(c))]],
      exhausted |-> Count(observations, LAMBDA o : Field(o, "exhausted", FALSE)),
      warns |-> \/ Missing(profile, observations) # <<>>
                \/ profile # NoProfile /\ ~ seen \subseteq configured
                \/ \E i \in DOMAIN Cases(profile) : Unbudgeted(profile.cases[i])
                \/ \E i \in DOMAIN observations : Unexpected(observations[i])]

\* matchingTransmissionPrinciples and plannedContextualIntegrityRefs; a flow
\* stands for sender, recipient and purpose.
PlannedRefs(profile, o, expectation) ==
  LET flow == Field(o, "flow", PlannedField(profile, o.case, "flow", "none"))
      principles == IF profile = NoProfile THEN {} ELSE profile.principles
  IN PlannedField(profile, o.case, expectation, {})
     \cup UNION {p.classes : p \in {q \in principles : q.flow = flow /\ q.expectation = expectation}}

NormalizedIntegrity(profile, o) ==
  LET required   == PlannedRefs(profile, o, "required") \cup Field(o, "required", {})
      permitted  == PlannedRefs(profile, o, "permitted") \cup required
      prohibited == PlannedRefs(profile, o, "prohibited") \cup Field(o, "prohibited", {})
  IN [required |-> Cardinality(required), prohibited |-> Cardinality(prohibited),
      allowed |-> Cardinality(permitted \cap o.disclosed),
      misses |-> Cardinality(required \ o.disclosed),
      violations |-> Cardinality(prohibited \cap o.disclosed), useful |-> o.useful]

ContextualIntegritySummary(profile, observations) ==
  LET seen   == [i \in DOMAIN observations |-> NormalizedIntegrity(profile, observations[i])]
      Sum(f) == Total(seen, LAMBDA o : o[f])
      n      == Len(seen)
      useful == Count(seen, LAMBDA o : o.useful)
      kept   == Count(seen, LAMBDA o : o.misses = 0 /\ o.violations = 0)
  IN [planned |-> Len(Cases(profile)), observed |-> Cardinality(Refs(observations, "case")),
      misses |-> Sum("misses"), violations |-> Sum("violations"), allowed |-> Sum("allowed"),
      utility |-> Rate(useful, n), leakage |-> Rate(Count(seen, LAMBDA o : o.violations > 0), n),
      score |-> <<useful + kept, 2 * n>>,
      warns |-> Missing(profile, observations) # <<>> \/ Sum("violations") > 0 \/ Sum("misses") > 0]

\* normalizedWebResearchObservation
NormalizedResearch(profile, o) ==
  LET required   == PlannedField(profile, o.case, "sources", {})
      reconciled == Field(o, "reconciled", {}) \cup o.cited
      needCite   == PlannedField(profile, o.case, "citationRequired", FALSE)
      needBoth   == PlannedField(profile, o.case, "reconcile", FALSE)
  IN [correct |-> o.correct, needCite |-> needCite, needBoth |-> needBoth,
      cited |-> needCite => o.cited # {} /\ required \subseteq o.cited,
      coverage |-> IF required = {} THEN <<1, 1>> ELSE <<Cardinality(required \cap o.cited), Cardinality(required)>>,
      reconciled |-> needBoth => /\ Cardinality(required \cap reconciled) >= Least(2, Cardinality(required))
                                 /\ Cardinality(reconciled) >= 2,
      stale |-> Cardinality(Field(o, "staleUsed", {})), intact |-> Field(o, "intact", TRUE)]

\* webResearchSummary: the rates divide by the cases of the profile.
WebResearchSummary(profile, observations) ==
  LET seen  == [i \in DOMAIN observations |-> NormalizedResearch(profile, observations[i])]
      Asks(f) == SelectSeq(Cases(profile), LAMBDA c : Field(c, f, FALSE))
      cites == Count(seen, LAMBDA o : o.needCite /\ o.cited)
      boths == Count(seen, LAMBDA o : o.needBoth /\ o.reconciled)
      stale == Total(seen, LAMBDA o : o.stale)
  IN [planned |-> Len(Cases(profile)), observed |-> Cardinality(Refs(observations, "case")),
      correct |-> Rate(Count(seen, LAMBDA o : o.correct), Len(seen)),
      citations |-> Rate(cites, Len(Asks("citationRequired"))),
      reconciliations |-> Rate(boths, Len(Asks("reconcile"))), stale |-> stale,
      warns |-> \/ Missing(profile, observations) # <<>> \/ stale > 0
                \/ \E i \in DOMAIN seen : ~ seen[i].intact
                \/ \E c \in ToSet(Asks("reconcile")) : Cardinality(Field(c, "sources", {})) < 2]

FaultInjectionSummary(planned, observations) ==
  LET Of(f) == Count(observations, LAMBDA o : o[f])
  IN [planned |-> Len(planned), observed |-> Len(observations),
      contained |-> Rate(Of("contained"), Len(observations)),
      recovered |-> Rate(Of("recovered"), Len(observations)),
      contracts |-> {o.contract : o \in {p \in ToSet(observations) : "contract" \in DOMAIN p}}]

\* reversibilitySummary over the trace events of the results
ReversibilitySummary(results) ==
  LET events == SelectSeq(Concat(results, LAMBDA r : r.events), LAMBDA e : "reversibility" \in DOMAIN e)
      Of(k)  == Count(events, LAMBDA e : e.reversibility = k)
  IN [total |-> Len(events), irreversible |-> Of("irreversible"), costly |-> Of("reversible-with-cost"),
      cheap |-> Of("reversible-cheap")]

-----------------------------------------------------------------------------
\* The report

\* compareCapabilityBOM, with ids and fingerprints as numbers.
BOMBefore(p, q) ==
  \/ p.harness < q.harness
  \/ p.harness = q.harness /\ p.source < q.source
  \/ p.harness = q.harness /\ p.source = q.source /\ p.print < q.print

\* normalizeCapabilityBOMs keeps one of each harness and fingerprint; the first
\* of a harness is the one its candidate gets.
NormalizeBOMs(boms) ==
  {p \in boms : ~ \E q \in boms : q.harness = p.harness /\ q.print = p.print /\ BOMBefore(q, p)}
AttachedBOM(harness, boms) ==
  LET mine == {p \in NormalizeBOMs(boms) : p.harness = harness}
  IN {p \in mine : \A q \in mine : ~ BOMBefore(q, p)}

CandidateReport(b, candidate, results, best) ==
  LET mine == ResultsOf(candidate, results)
  IN [candidate |-> candidate, trials |-> Len(mine), confidence |-> ConfidenceFor(b, mine),
      metric |-> AggregateMetric(b.primary, mine),
      recommendation |-> RecommendationFor(b, mine, MetricDirection(b, b.primary), best)]

\* Profiles that were configured but that no trial observed.
EvidenceGaps(b, results) ==
  LET Seen(f)    == Concat(results, LAMBDA r : Field(r, f, <<>>))
      Profile(f) == Field(b, f, NoProfile)
      Gap(f)     == Cases(Profile(f)) # <<>> /\
                    (IF f = "toolRecovery" THEN ToolRecoverySummary(Profile(f), Seen(f)).observed = 0
                     ELSE Seen(f) = <<>>)
  IN {f \in {"faults", "toolUse", "toolRecovery", "integrity", "research"} : Gap(f)}

Infers(level, insufficient, gaps) ==
  IF level = "insufficient_evidence" \/ insufficient # {} \/ gaps # {} THEN "lacks evidence" ELSE level

CreateBenchmarkReport(b, results) ==
  LET best       == BestMetricValue(b, results)
      candidates == [i \in DOMAIN b.candidates |-> CandidateReport(b, b.candidates[i], results, best)]
      confidence == ReportConfidence(candidates)
      short      == {c \in ToSet(candidates) : c.recommendation = "insufficient_evidence"}
      gaps       == EvidenceGaps(b, results)
  IN [candidates |-> candidates, confidence |-> confidence, gaps |-> gaps,
      insufficient |-> {c.candidate : c \in short},
      infers |-> Infers(confidence.level, short, gaps)]

-----------------------------------------------------------------------------
\* No candidate is recommended without the trials and the samples that were
\* asked for, unless one run was allowed to do; a recommended one is beaten by
\* no other that has the evidence; when the results are those of the candidates
\* and one has the evidence, some candidate is recommended; the report infers
\* no sufficiency over a gap and is as confident as its least candidate.
Honest(b, results, report) ==
  LET lower  == MetricDirection(b, b.primary) = "lower_is_better"
      Better(c, d) == IF lower THEN ~ AtMost(d.metric, c.metric) ELSE ~ AtMost(c.metric, d.metric)
      listed == ToSet(report.candidates)
      chosen == {c \in listed : c.recommendation = "recommended"}
  IN /\ \A c \in chosen :
          LET mine == ResultsOf(c.candidate, results)
          IN /\ Len(mine) >= MinTrials(b) \/ (Len(mine) = 1 /\ Field(b, "allowSingleRun", FALSE))
             /\ c.metric[2] >= Least(MinTrials(b), Len(mine))
             /\ c.confidence.level = "insufficient_evidence" => SingleRunOverride(b, Len(mine))
             /\ Field(b, "requireTrace", FALSE) => \A i \in DOMAIN mine : mine[i].complete
             /\ ~ \E d \in listed : Better(d, c) /\ d.recommendation # "insufficient_evidence"
     /\ (/\ {r.candidate : r \in ToSet(results)} \subseteq ToSet(b.candidates)
         /\ \E c \in listed : c.recommendation # "insufficient_evidence") => chosen # {}
     /\ report.infers \in {"bounded_recommendation", "confident_recommendation"} =>
          /\ report.insufficient = {} /\ report.gaps = {}
          /\ \A c \in listed : c.trials >= MinTrials(b)
     /\ report.infers = "confident_recommendation" =>
          ~ IsSmokeBenchmark(b) /\ \A c \in listed : c.trials >= ConfiguredTrialCount(b)

ReportHonest(b, results) == Honest(b, results, CreateBenchmarkReport(b, results))

\* Every trial is counted once, as scored, skipped or excluded; a retry hides
\* nothing; rates stay in the unit interval; pass@k grows with k; a failed trial
\* without a severity of its own is no better than medium.
ReliabilityCounts(b, results) ==
  LET s == ReliabilitySummary(b, results)
      k == PassK(b, results)
  IN /\ s.scored + s.skipped + s.excluded = s.total
     /\ s.passed + s.failed = s.scored
     /\ s.retried <= s.total
     /\ InUnit(s.passRate) /\ InUnit(s.consistency)
     /\ 2 * s.consistency[1] >= s.consistency[2]
     /\ s.passAt[1] <= s.passAt[3] /\ s.passAt[3] <= s.passAt[5]
     /\ s.passAt[5] = 1 => s.passed > 0
     /\ s.maxSeverity = 0 => \/ s.failed = 0
                             \/ \E r \in ToSet(results) : "severity" \in DOMAIN Field(r, "outcome", <<>>) \/
                                                          HasMetric(r, Field(b.reliability, "severityMetric", ""))
     /\ k.sampleCount > 0 => InUnit(k.value) /\ (k.value[1] = k.value[2] <=> k.passCount = k.sampleCount)

\* Whatever an observation claims, no tool call is counted twice, the parts add
\* up to the whole and a score is a fraction.
AddsUp(s) ==
  /\ s.necessary + s.unnecessary <= s.toolCalls
  /\ InUnit(s.efficiency)
  /\ s.byExpectation["required"].toolCalls + s.byExpectation["optional"].toolCalls
       + s.byExpectation["wasteful"].toolCalls = s.toolCalls
  /\ s.violations > 0 => s.warns
  /\ ~ s.warns => s.observed >= s.planned

ToolUseAddsUp(profile, observations) == AddsUp(ToolUseSummary(profile, observations))

RecoveryAddsUp(profile, observations) ==
  LET s == ToolRecoverySummary(profile, observations)
      Sum(f, t) == FoldFunction(LAMBDA x, n : x.byStatus[t] + n, 0, f)
  IN /\ s.attempts = FoldFunction(LAMBDA n, m : n + m, 0, s.byStatus)
     /\ \A t \in AttemptStatuses : Sum(s.byCase, t) = s.byStatus[t]
     /\ FoldFunction(LAMBDA n, m : n + m, 0, s.byKind)
          = Count(observations, LAMBDA o : "error" \in DOMAIN o)
     /\ profile # NoProfile => s.observed <= s.planned
     /\ profile # NoProfile /\ ~ s.warns => s.observed = s.planned

\* A score of one means that nothing prohibited was told and nothing required
\* was kept back; what is both required and prohibited never scores one.
ScoresKept(profile, observations, s) ==
  /\ InUnit(s.score) /\ InUnit(s.leakage) /\ InUnit(s.utility)
  /\ observations # <<>> /\ s.score[1] = s.score[2] => s.misses = 0 /\ s.violations = 0 /\ s.leakage[1] = 0
  /\ s.leakage[1] > 0 => s.warns
  /\ \A o \in ToSet(observations) :
       (PlannedRefs(profile, o, "required") \cap PlannedRefs(profile, o, "prohibited") # {})
          => s.score[1] < s.score[2]

IntegrityScores(profile, observations) ==
  ScoresKept(profile, observations, ContextualIntegritySummary(profile, observations))

\* A citation counts only with every required source; reconciling takes two
\* sources; one observation of each case keeps the rates in the unit interval.
ResearchCounts(profile, observations) ==
  LET s == WebResearchSummary(profile, observations)
      once == IsInjective([i \in DOMAIN observations |-> observations[i].case])
  IN /\ InUnit(s.correct)
     /\ once => InUnit(s.citations) /\ InUnit(s.reconciliations)
     /\ \A o \in ToSet(observations) :
          LET n == NormalizedResearch(profile, o)
          IN /\ InUnit(n.coverage)
             /\ n.needCite /\ n.cited => n.coverage[1] = n.coverage[2] /\ o.cited # {}
             /\ n.needBoth /\ n.reconciled => Cardinality(o.cited \cup Field(o, "reconciled", {})) >= 2
     /\ s.stale > 0 => s.warns

\* Each reversal is of one kind, fault rates are fractions, and a harness that
\* has an inventory attached has exactly one, whatever order they came in.
EvidenceCounts(results, planned, faults, boms) ==
  LET r == ReversibilitySummary(results)
      f == FaultInjectionSummary(planned, faults)
  IN /\ r.irreversible + r.costly + r.cheap = r.total
     /\ InUnit(f.contained) /\ InUnit(f.recovered)
     /\ Cardinality(f.contracts) <= f.observed
     /\ \A b \in boms : Cardinality(AttachedBOM(b.harness, boms)) = 1
=============================================================================
