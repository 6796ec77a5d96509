------------------------------ MODULE MC_Functions -----------------------------
(***************************************************************************)
(* The functions that compute on data, each compared with what it promises *)
(* on every input of a small set: a behaviour is one choice of an input.   *)
(***************************************************************************)
EXTENDS Integers, Sequences, FiniteSets, TLC, StoragePromises, HarnessPromises, ToolPromises

CONSTANT WrongType

VARIABLE rules      \* the module whose functions are checked

Report  == INSTANCE ReportRules
Bench   == INSTANCE BenchmarkRules
Surface == INSTANCE SurfaceRules
Observed == INSTANCE ObservabilityRules
Term    == INSTANCE TerminalBenchRules
Config  == INSTANCE ConfigRules
Work    == INSTANCE WorkspaceRules
Otel    == INSTANCE OtelRules

Init ==
  /\ rules \in {"sandbox", "harness", "report", "benchmark", "surface", "observed", "term", "web", "stored", "config", "work", "otel"}
  /\ input = <<>>

Seqs(S, n) == UNION {[1..k -> S] : k \in 0..n}

-----------------------------------------------------------------------------
Tree(links) ==
  [files |-> (<<"d", "x">> :> 1) @@ (<<"d", "y">> :> 2) @@ (<<"e">> :> 4) @@ (<<"out", "z">> :> 8) @@ (<<"d", "o", "z">> :> 3),
   links |-> links, rest |-> {<<"r">>}]
CopyPaths == {<<"d">>, <<"d", "x">>, <<"e">>, <<"l">>, <<"m">>, <<"d", "m">>, <<"r">>, <<>>}
Host(host, wild, port) == [host |-> host, wild |-> wild, port |-> port]
Hosts == {Host(<<"org", "ok">>, TRUE, 0), Host(<<"com">>, FALSE, 1), Host(<<"priv">>, FALSE, 1)}
Records == {[address |-> "pub", family |-> 6], [address |-> "priv", family |-> 4],
            [address |-> "pub4", family |-> 4]}
Readings == [cpu : {-1, 1, 3}, peak : {-1, 2, 4}]
Listed == [network |-> [mode |-> "allowlist", allowlist |-> {"h"}]]
Policies == {<< >>, Listed, [network |-> [mode |-> "open"]], [network |-> [mode |-> "allowlist"]],
             [network |-> [mode |-> "allowlist", allowlist |-> {}]]}
Entitled(absolute, segments) == [absolute |-> absolute, segments |-> segments]
Names == {Entitled(FALSE, <<"f", "">>), Entitled(FALSE, <<"g", "..", "k">>), Entitled(FALSE, <<"g", "..", "..", "k">>),
          Entitled(FALSE, <<".">>), Entitled(TRUE, <<"f">>)}
Archived == [type : {"L"}, names : {{n} : n \in Names}] \cup {[type |-> "x", names |-> {}]}
            \cup [type : {"file", "dir", "link"}, name : {Entitled(FALSE, <<"h">>), Entitled(FALSE, <<".">>)}]

SandboxInput ==
  \/ \E t \in Seqs({"lead", "more"}, 5), m \in 0..5 : input' = <<"truncate", t, m>>
  \/ \E ps \in SUBSET CopyPaths, m \in 0..8 : input' = <<"stage", Tree({<<"l">>}), ps, m>>
  \/ \E ls \in SUBSET {<<"l">>, <<"out", "l">>}, s \in SUBSET {"e", "l"}, o \in {<<"out">>, <<"d", "o">>, <<>>}, m \in {3, 11, 18} :
        input' = <<"snapshot", Tree(ls), s, o, m>>
  \/ \E es \in Seqs(Archived, 3), z \in BOOLEAN : input' = <<"archive", es, z>>
  \/ \E l \in SUBSET Hosts, h \in {<<"org", "ok">>, <<"org", "ok", "w">>, <<"com">>},
        rs \in Seqs(Records, 2), n \in 1..2 : input' = <<"proxy", l, h, rs, {"priv"}, n>>
  \/ \E ps \in Seqs([takes : 1..7, ok : BOOLEAN], 3), d \in 1..9 : input' = <<"ready", ps, d, 5, 1>>
  \/ \E p, q \in Policies : input' = <<"merge", p, q>>
  \/ \E s, t \in Readings, b \in BOOLEAN : input' = <<"usage", s, t, b>>

-----------------------------------------------------------------------------
Tool(name, effects) == [name |-> name, effects |-> effects]
Bash   == Tool("bash", {"process.spawn", "fs.write"})
Net    == Tool("fetch", {"network.egress"})
Offers == [terminal : {<<>>, <<Bash>>, <<Net>>},
           file     : {<<>>, <<Tool("read", {"fs.read"}), Tool("write", {"fs.write"})>>},
           custom   : {<<>>, <<Tool("get", {"network.egress"}), Tool("odd", {})>>, <<Tool("box", {"sandbox.create"}), Tool("keys", {"secret.read"})>>},
           services : SUBSET {"mcp", "messaging", "memory"}]
Everything == {"bash", "fetch", "read", "write", "get", "odd", "box", "keys", "mcp", "messaging", "memory"}

Stdouts == [decision : {"garbage", "none", "null", "block", "deny"}]
Commands == [events : {{"PreToolUse"}, {"PreToolUse", "PostToolUse", "Stop", "SessionStart"}},
             matcher : {<<>>, [toolName |-> "bash"], [toolName |-> "read"]}, type : {"command"},
             run : [timedOut : BOOLEAN, exit : {0, 1, 2}, stdout : Stdouts]]
Handled  == {[events |-> {"PreToolUse"}, matcher |-> <<>>, type |-> "in-process",
              run |-> [throws |-> b, stdout |-> [decision |-> "rewrite", input |-> "safer"]]] : b \in BOOLEAN}
            \cup {[events |-> {"PreToolUse"}, matcher |-> <<>>, type |-> "command",
              run |-> [timedOut |-> FALSE, exit |-> 0, stdout |-> [decision |-> "rewrite", input |-> "safest"]]]}
Opens    == {h @@ [failureMode |-> "fail-open"] : h \in {c \in Commands : c.matcher = <<>>}}
Servers  == {[id |-> "s", env |-> [key |-> "secret"]], [id |-> "t", env |-> <<>>]}
PiEvents == [type : {"tool_execution_end", "tool_execution_start"}, toolName : {"bash", "read"},
             isError : BOOLEAN, result : {"text"}]
            \cup [type : {"message_end", "compaction_end"}, role : {"user"}]

HarnessInput ==
  \/ \E c \in Offers, p \in {"local", "benchmark"}, n, m \in BOOLEAN, a \in {Everything, Everything \ {"bash", "mcp"}},
        k \in {"planner", "builder", "verifier", "root"} : input' = <<"policy", c, p, k, n, m, a>>
  \/ \E h \in Commands \cup Opens, r \in Seqs(Handled, 2), t \in BOOLEAN, d \in {<<>>, [failureMode |-> "fail-open"]} :
        input' = <<"hooks", d, Append(r, h), t>>
  \/ \E a \in {"list", "get", "resolve-launch"}, i \in {"s", "u"}, b, n \in Seqs([name : {"x", "y"}, from : {1, 2}], 1) :
        input' = <<"tools", Servers, a, i, b, n>>
  \/ \E e \in PiEvents : input' = <<"event", e>>
  \/ \E ops \in Seqs({"a", "b", "next", "close"}, 5) : input' = <<"queue", ops>>

-----------------------------------------------------------------------------
Optional(f, S) == {<<>>} \cup {f :> x : x \in S}
Metric(id, v)  == [id |-> id, value |-> v]
Scores  == {<<>>, <<Metric("m", 0)>>, <<Metric("m", 1)>>}
Trials(names, complete) == [candidate : names, metrics : Scores, complete : complete]
Benches(counts, mins, singles, smokes, traces) ==
  {c @@ m @@ [candidates |-> <<"a", "b">>, primary |-> "m", definitions |-> d, smoke |-> s,
              allowSingleRun |-> o, requireTrace |-> t] :
     c \in counts, m \in mins, d \in {<<>>, [m |-> "lower_is_better"], [m |-> "informational"]},
     o \in singles, s \in smokes, t \in traces}
Plain    == Benches(Optional("count", {2}), Optional("minTrials", {1, 2}) \cup Optional("minimumTrials", {2}),
                    BOOLEAN, {FALSE}, {FALSE})
Strict   == Benches({<<>>}, Optional("trialsMinTrials", {1}), {TRUE}, BOOLEAN, BOOLEAN)
Profiled == {[toolRecovery |-> [cases |-> <<[id |-> "x", budgeted |-> FALSE]>>]] @@ b :
               b \in Benches({<<>>}, {[minTrials |-> 1]}, {FALSE}, {FALSE}, {FALSE})}
Recovered == {o @@ [candidate |-> "a", metrics |-> <<Metric("m", 1)>>, complete |-> TRUE] :
                o \in Optional("toolRecovery", {<<[case |-> c, tool |-> "t", status |-> "failed"]>> : c \in {"x", "y"}})}
             \cup {[candidate |-> "b", metrics |-> <<Metric("m", 1)>>, complete |-> TRUE]}

Outcomes == Optional("outcome", {o @@ a @@ [status |-> s] : s \in {"passed", "failed", "skipped", "excluded"},
                                   a \in Optional("attempt", {2}), o \in Optional("severity", {0, 4})})
Graded   == {o @@ [candidate |-> "a", metrics |-> m, complete |-> TRUE] :
               o \in Outcomes, m \in {<<>>, <<Metric("m", 1)>>, <<Metric("m", 0), Metric("sev", 7)>>}}
Reliable == {[primary |-> "m", definitions |-> d, reliability |-> r @@ t] @@ k :
               d \in {<<>>, [m |-> "lower_is_better"]}, r \in Optional("severityMetric", {"sev"}),
               t \in Optional("successThreshold", {1}), k \in {[passK |-> 2]}}

Profile(cases) == [cases |-> cases]
UseCase  == {e @@ m @@ [id |-> "x", expectation |-> w] : w \in {"wasteful", "required"},
               e \in Optional("expectedToolCalls", {1}), m \in Optional("maxToolCalls", {1})}
ToolUses == {n @@ u @@ a @@ [case |-> c, toolCalls |-> t] : c \in {"x", "z"}, t \in {-1, 0, 2},
               n \in Optional("necessary", {1, 3}), u \in Optional("unnecessary", {2}), a \in Optional("avoided", {1})}
Recoveries == {e @@ x @@ [case |-> c, tool |-> "t", status |-> s] : c \in {"x", "z"},
                 s \in {"failed", "retried", "succeeded"}, e \in Optional("error", {"timeout", "unknown"}),
                 x \in Optional("exhausted", BOOLEAN)}
RecoverCase == {s @@ [id |-> "x", budgeted |-> b] : b \in BOOLEAN, s \in Optional("statuses", {{"failed"}})}
Flows    == [case : {"x", "z"}, disclosed : SUBSET {"p", "q"}, useful : BOOLEAN]
            \cup [case : {"x"}, disclosed : SUBSET {"p", "q"}, useful : {TRUE}, flow : {"f"}, required : {{"p"}}]
Principles == {{}, {[flow |-> "f", expectation |-> "prohibited", classes |-> {"q"}],
                    [flow |-> "f", expectation |-> "permitted", classes |-> {"p"}]},
               {[flow |-> "f", expectation |-> "prohibited", classes |-> {"p", "q"}]}}
Sources  == {r @@ s @@ [case |-> c, cited |-> d, correct |-> TRUE] : c \in {"x", "z"}, d \in SUBSET {"p", "q"},
               r \in Optional("reconciled", {{"q"}, {"r"}}), s \in Optional("staleUsed", {{"q"}})}
SourceCases == {s @@ [id |-> "x", citationRequired |-> a, reconcile |-> b] :
                  a, b \in BOOLEAN, s \in Optional("sources", {{"p"}, {"p", "q"}})}
Reversals == {k @@ [id |-> 1] : k \in Optional("reversibility", {"irreversible", "reversible-cheap"})}
Faults    == {c @@ [contained |-> x, recovered |-> y] : x, y \in BOOLEAN, c \in Optional("contract", {"k"})}

ReportInput ==
  \/ \E b \in Plain, r \in Seqs(Trials({"a", "b"}, {TRUE}), 3) : input' = <<"report", b, r>>
  \/ \E b \in Strict, r \in Seqs(Trials({"a", "b", "c"}, BOOLEAN), 2) : input' = <<"report", b, r>>
  \/ \E b \in Profiled, r \in Seqs(Recovered, 3) : input' = <<"report", b, r>>
  \/ \E b \in Reliable, r \in Seqs(Graded, 2) : input' = <<"reliability", b, r>>
  \/ \E p \in {Report!NoProfile} \cup {Profile(<<c>>) : c \in UseCase}, o \in Seqs(ToolUses, 2) :
        input' = <<"tool use", p, o>>
  \/ \E p \in {Report!NoProfile} \cup {Profile(<<c>>) : c \in RecoverCase}, o \in Seqs(Recoveries, 2) :
        input' = <<"recovery", p, o>>
  \/ \E c \in Optional("flow", {"f"}), q \in Optional("prohibited", {{"p"}, {"q"}}), s \in Principles,
        o \in Seqs(Flows, 2) : input' = <<"integrity", [cases |-> <<c @@ q @@ [id |-> "x"]>>, principles |-> s], o>>
  \/ \E c \in SourceCases, o \in Seqs(Sources, 2) : input' = <<"research", Profile(<<c>>), o>>
  \/ \E e \in Seqs(Reversals, 2), f \in Seqs(Faults, 2), b \in SUBSET [harness : 1..2, source : {1}, print : 1..2] :
        input' = <<"evidence", <<[events |-> e]>>, <<1>>, f, b>>

\* A report recommends only on the evidence that was asked for, and its counts,
\* rates and scores are those of the trials (sdk/src/harness/report.ts).
ReportRulesAgree ==
  /\ Rule("report")      => Report!ReportHonest(input[2], input[3])
  /\ Rule("reliability") => Report!ReliabilityCounts(input[2], input[3])
  /\ Rule("tool use")    => Report!ToolUseAddsUp(input[2], input[3])
  /\ Rule("recovery")    => Report!RecoveryAddsUp(input[2], input[3])
  /\ Rule("integrity")   => Report!IntegrityScores(input[2], input[3])
  /\ Rule("research")    => Report!ResearchCounts(input[2], input[3])
  /\ Rule("evidence")    => Report!EvidenceCounts(input[2], input[3], input[4], input[5])

-----------------------------------------------------------------------------
Mirror(s)   == [i \in DOMAIN s |-> s[Len(s) + 1 - i]]
Mirrored(c) == [f \in DOMAIN c |-> IF f = "schema" THEN c[f] ELSE Mirror(c[f])]
Packages    == {<<[id |-> 1]>>, <<[id |-> 2], [id |-> 1, version |-> "2"]>>, <<[id |-> 1], [id |-> 1]>>}
Grant(i, e) == [id |-> i, effect |-> e]
Capability(i, p, grants) == [id |-> i, kind |-> "tool", packageRef |-> {p}, grants |-> grants]
Capabilities == {<<>>, <<Capability(1, 1, <<Grant(1, "allow"), Grant(1, "deny")>>)>>,
                 <<Capability(2, 2, <<Grant(2, "allow"), Grant(1, "deny")>>), Capability(1, 1, <<>>)>>}
Agents      == {w @@ c @@ [id |-> i, role |-> r] : i \in 1..2, r \in {"", "solver"},
                  c \in Optional("capabilityRefs", {{1}}), w \in Optional("writableSpaces", {{1}})}
Harnesses   == [packages : Packages, capabilities : Capabilities, agents : Seqs(Agents, 2),
                spaces : {<<>>, <<[id |-> 1, ownerAgentRef |-> {2}]>>},
                relationships : {<<>>}, protocols : {<<[id |-> 1, packageRef |-> {1}, actorRefs |-> {1}]>>},
                artifacts : {<<>>, <<[id |-> 1, producedBy |-> {1}], [id |-> 2, reviewedBy |-> {2}]>>},
                policies : {<<[id |-> 1, effect |-> "deny"]>>}, schema : {"supported"}]
Teams       == {[i \in DOMAIN t |-> [id |-> i, role |-> t[i]]] :
                  t \in Seqs({"implementer", "solver", "critic", "repairer", "manager"}, 3)}
Missions    == [id : {"m"}, substrings : SUBSET {"s"}, artifacts : SUBSET {"f"}]
Runtimes    == [fails : BOOLEAN, output : SUBSET {"s", "f"}, closes : BOOLEAN]
Runs        == {c @@ [missionRef |-> m, candidates |-> <<[id |-> "a", harness |-> "h"]>> \o r] :
                  c \in Optional("count", {0, 2}), m \in {"m", "n"}, r \in Seqs([id : {"b"}, harness : {"h", "g"}], 1)}
Overrides   == Optional("kind", {"timeout", "policy_blocked"})
ToolErrors  == {s @@ [says |-> w] : s \in Optional("status", {403, 404, 429, 503}),
                  w \in SUBSET {"timeout", "budget_exhausted", "auth_required", "invalid_input"}}
               \cup [kind : {"timeout", "not_found"}, retryable : BOOLEAN, transient : BOOLEAN, actionable : BOOLEAN, cause : {"none", "raw"}]

BenchmarkInput ==
  \/ \E c \in Harnesses : input' = <<"compile", c, Mirrored(c)>>
  \/ \E p \in DOMAIN Bench!RequiredRoles, a \in Teams, s \in BOOLEAN, e \in SUBSET {"actor.invoked", "trial.completed"} :
        input' = <<"protocol", p, a, s, e>>
  \/ \E b \in Runs, m \in Missions, r \in [{"a", "b"} -> Runtimes] : input' = <<"benchmark", b, m, r>>
  \/ \E e \in ToolErrors, o, l \in Overrides : input' = <<"tool error", e, o, l>>

\* A compiled harness refers only to what it has, a protocol that validated can
\* go on, every trial is told whole, and errors keep their class
\* (compiler.ts, protocols.ts, benchmark-runner.ts, tool-errors.ts).
BenchmarkRulesAgree ==
  /\ Rule("compile")    => Bench!CompiledSound(input[2], input[3])
  /\ Rule("protocol")   => Bench!ProtocolPlans(input[2], input[3], input[4], input[5])
  /\ Rule("benchmark")  => Bench!TrialsWhole(input[2], input[3], [h |-> TRUE, g |-> FALSE], input[4])
  /\ Rule("tool error") => Bench!ErrorsClassified(input[2], input[3], input[4])

-----------------------------------------------------------------------------
Text(s)     == [core : s, padded : BOOLEAN]
Choice      == {[core |-> x, padded |-> FALSE] : x \in {"p", "q"}} \cup {[core |-> "p", padded |-> TRUE]}
Questions   == {t @@ [kind |-> k, text |-> [core |-> "w", padded |-> FALSE], choices |-> cs] :
                  k \in {"text", "single_choice", "multi_choice"}, cs \in Seqs(Choice, 2), t \in Optional("timeoutMs", {0, 5})}
Bodies      == {t @@ i @@ is : t \in Optional("text", Text({"", "w"}) \cup {WrongType}),
                  i \in Optional("choiceId", Choice \cup {WrongType}),
                  is \in Optional("choiceIds", Seqs(Choice, 2) \cup {WrongType})} \cup {WrongType}
Lists       == {l @@ [tasks |-> t] : l \in Optional("listId", Text({"", "l"})),
                  t \in Seqs([id : Text({"x", "y"}), description : Text({"d"}), status : {"pending", "completed", "stuck"}], 2)}
Addresses   == {[kind |-> "name", name |-> n] : n \in {"localhost", "example"}}
               \cup [kind : {"v4", "mapped"}, first : {10, 127}]
               \cup [kind : {"v6"}, compressed : {TRUE}, head : Seqs(0..1, 2), tail : Seqs(0..1, 2)]
               \cup [kind : {"v6"}, compressed : {FALSE}, head : {[g \in 1..8 |-> IF g = 8 THEN l ELSE f] : f, l \in 0..1}, tail : {<<>>}]
Requests    == {p @@ [method |-> m, path |-> q, token |-> t, origin |-> o, host |-> [kind |-> "name", name |-> h]] :
                  p \in Optional("peer", [kind : {"v4"}, first : {10, 127}]), m \in {"GET", "POST"}, q \in {"/health", "/config"},
                  t \in {"right", "wrong"}, o \in {"none", "same", "other"}, h \in {"localhost", "example"}}
Securities  == [trustUrl : BOOLEAN, allowRemote : BOOLEAN, authorize : {"none", "yes", "no"}, tokenForRead : BOOLEAN]

SurfaceInput ==
  \/ \E q \in Questions, j \in BOOLEAN, b \in Bodies : input' = <<"answer", q, j, b>>
  \/ \E l \in Lists : input' = <<"task list", l>>
  \/ \E r \in Requests, z \in Securities : input' = <<"console", r, z>>
  \/ \E a \in Addresses : input' = <<"loopback", a>>
  \/ \E t \in {"hierarchical", "pipeline", "critic-verifier", "hub-spoke", "debate", "none"}, d \in Optional("dryRun", BOOLEAN),
        k \in Optional("key", Text({"", "k"})), old \in BOOLEAN :
        input' = <<"template", t, d @@ k, IF old THEN {<<t, [core |-> "k", padded |-> FALSE]>>} ELSE {}>>
  \/ \E m \in {"sync", "stream"}, s, z \in BOOLEAN, cs \in Seqs(0..2, 3), l \in 0..3, b \in {"broken", "envelope", "plain"} :
        input' = <<"run", m, s, z, cs, l, b>>
  \/ \E st \in Seqs({"chunk", "done", "throw"}, 4), a \in 1..5 : input' = <<"sse", st, a>>

\* An answer fits its question, the console lets through only whom it should,
\* templates apply once and whole, and runs and streams end as they are asked to
\* (plugin-interaction, plugin-web-ui, plugin-hono).
SurfaceRulesAgree ==
  /\ Rule("answer")    => Surface!AnswersFit(input[2], input[3], input[4])
  /\ Rule("task list") => Surface!TasksCounted(input[2])
  /\ Rule("console")   => Surface!ConsoleGuarded(input[2], input[3])
  /\ Rule("loopback")  => Surface!LoopbackIsOne(input[2])
  /\ Rule("template")  => Surface!TemplatesApply(input[2], input[3], input[4])
  /\ Rule("run")       => Surface!RunsGuarded(input[2], input[3], input[4], input[5], input[6], input[7])
  /\ Rule("sse")       => Surface!StreamsInOrder(input[2], input[3])

-----------------------------------------------------------------------------
Event(r, i, name, at) == [call |-> "event", runId |-> r, id |-> i, name |-> name, at |-> at, bytes |-> 2, sequence |-> i]
Calls  == {Event(1, 1, "started", 1), Event(1, 2, "completed", 3), Event(1, 2, "failed", 2), Event(2, 1, "completed", 0)}
          \cup {[call |-> "pin", runId |-> 1, pinned |-> b] : b \in BOOLEAN}
          \cup {[call |-> "export", runId |-> 1, export |-> "x"], [call |-> "extras", runId |-> 2, artifacts |-> <<[id |-> 1], [id |-> 1]>>],
                [call |-> "read", runId |-> 1], [call |-> "replace", status |-> "succeeded"],
                [call |-> "sweep", olderThan |-> 2, dryRun |-> FALSE]}
Sweeps == {m @@ o @@ [dryRun |-> FALSE] : m \in Optional("maxBytes", {0, 2}), o \in Optional("olderThan", {1, 4})}
Points == Seqs([name : {"bytes", "events"}, at : 1..2, attributes : {[status |-> "failed"], <<>>}], 3)
Queries == {f @@ n @@ l @@ [attributes |-> a] : f \in Optional("from", {2}), n \in Optional("names", {{"bytes"}}),
              l \in Optional("limit", {0, 1, 2}), a \in {<<>>, [status |-> "failed"]}}
Said   == [kind : {"text"}, secret : BOOLEAN, size : {1, 3}] \cup {[kind |-> "number"], [kind |-> "opaque"]}
Nested == Said \cup {[kind |-> "list", items |-> i] : i \in Seqs(Said, 2)}
Payloads == Nested \cup {[kind |-> "object", fields |-> [token |-> x, note |-> y]] : x, y \in Nested}
Visits == {[method |-> IF r = "pin" THEN "POST" ELSE m, route |-> r, runId |-> i, urlHost |-> u, host |-> h, origin |-> o, token |-> t] :
             m \in {"GET", "POST"}, r \in {"pin", "trace", "reports", "payloads"}, i \in 1..2, u, h \in {"localhost", "v6", "remote"},
             o \in {"none", "other"}, t \in {"right", "wrong"}}
Opened == [allowRemote : BOOLEAN, authorize : {"none", "yes", "no"}, mutating : BOOLEAN]
Cited  == [id : {"a b", "a_b"}, actor : {"p"}, denied : BOOLEAN, evidenceRefs : Seqs({"e", "a b", "later"}, 2)]
Traced == {c @@ a @@ [id |-> "later"] : c \in Optional("cause", {"e", "later", "none"}), a \in Optional("artifact", {"f", "g"})}
Traces == [status : {"failed", "cancelled"}, events : Seqs([id : {"e", "a b"}, sequence : {1}], 2),
           projections : Seqs([id : {"p"}, sequence : {1, 2}], 1), artifacts : {<<>>, <<"f">>},
           decisions : Seqs(Cited, 1), traceEvents : Seqs(Traced, 1)]

ObservedInput ==
  \/ \E first \in Seqs({Event(1, 1, "started", 1)}, 1), cs \in Seqs(Calls, 3), p \in Sweeps :
        input' = <<"repository", first \o cs, p>>
  \/ \E ps \in Points, q \in Queries : input' = <<"query", ps, q>>
  \/ \E v \in Payloads, m \in {"metadata_only", "redacted"}, a \in {{}, {"token"}} : input' = <<"redact", v, m, a>>
  \/ \E v \in Visits, o \in Opened : input' = <<"route", v, o>>
  \/ \E t \in Traces : input' = <<"provenance", t>>
  \/ \E ops \in Seqs({Observed!ToPublish} \cup ({1, 2} \X (0..2)), 4), h \in 1..2, q \in 0..2 : input' = <<"bus", ops, h, q>>

\* The repository keeps what is pinned or runs, its metrics stay bounded, secrets
\* are dropped, provenance refers to what it holds, the routes are guarded and the
\* live bus tells each event once (observability/src).
ObservedRulesAgree ==
  /\ Rule("repository") => Observed!RepositoryKeeps(input[2], input[3]) /\ Observed!MetricsBounded(input[2])
  /\ Rule("query")      => Observed!QueriesAgree(input[2], input[3])
  /\ Rule("redact")     => Observed!SecretsDropped(input[2], input[3], 2, input[4])
  /\ Rule("route")      => Observed!RoutesGuarded(input[2], input[3], {1})
  /\ Rule("provenance") => Observed!ProvenanceClosed(input[2])
  /\ Rule("bus")        => Observed!BusTells(input[2], input[3], input[4])

-----------------------------------------------------------------------------
Recorded == {i @@ [type |-> t, summary |-> t, sequence |-> n] : t \in {"trial.started", "actor.completed", "artifact.created"},
               n \in {1, 4}, i \in Optional("id", {"f"})}
ProjectedEvents == {i @@ [type |-> t, summary |-> t] : t \in {"artifact", "ended", "odd"}, i \in Optional("id", {"f"})}
Places   == {<<>>, <<[kind |-> "other", events |-> <<>>]>>}
Dirs     == [task : {1, 2}, result : [reward : {0, 1}] \cup {<<>>, [success |-> 1]}, complete : BOOLEAN]
Five     == {<<d, e, e, e, e>> : d, e \in Dirs}
Trees    == Optional(<<"a", "x">>, {"one", "link"}) \cup Optional(<<"b">>, {"one", "two"}) \cup {(<<"a", "x">> :> "one") @@ (<<"b">> :> "one")}
Answers  == {<<>>} \cup [status : {"succeeded", "failed"}, policies : Seqs({"denied"}, 1), projections : Seqs({"tool", "done", "odd"}, 2), artifacts : Seqs({"f"}, 1)]
Object   == Seqs([key : {"command", "other"}, value : {"v", "w"}]
                 \cup [key : {"other"}, inside : Seqs([key : {"command"}, value : {"deep"}], 1)], 2)
Kept     == {{<<a>> : a \in names} \cup {<<"harness", "log">>} : names \in {Term!RequiredSmokeArtifacts, {"summary"}}}
            \cup {{<<"job", a>> : a \in Term!RequiredSmokeArtifacts}}

TermInput ==
  \/ \E h \in Places, e \in Seqs(Recorded, 2), p \in Seqs(ProjectedEvents, 2) :
        input' = <<"trace", Append(h, [kind |-> "events", events |-> e]), p>>
  \/ \E e \in Seqs(Recorded, 1), p \in Seqs({[type |-> "ended", summary |-> "ended"]}, 1), o \in Object :
        input' = <<"transcript", <<[kind |-> "events", events |-> e]>>, p, o>>
  \/ \E j \in SUBSET {"smoke", "validation", "full"}, d \in Seqs([names : SUBSET {1}, counted : BOOLEAN], 1),
        ds \in Seqs(Dirs, 2) \cup Five : input' = <<"import", j, d, ds>>
  \/ \E t \in [1..2 -> Kept] : input' = <<"proof", t>>
  \/ \E i \in SUBSET {<<"a">>, <<"b">>}, b, a \in Trees, r \in Answers : input' = <<"profile", i, b, a, r>>
  \/ \E v \in Seqs({"--", "--dry-run", "--adapter", "--profile", "smoke"}, 4), e \in Optional("ADAPTER", {"pi"}), k \in Optional("API_KEY", {"k"}) :
        input' = <<"command", v, e @@ k>>

\* The trace and the report imported from a job say what its directory does, the
\* profile tells what it changed, and Harbor is started as asked
\* (examples/terminal-bench/src).
TermRulesAgree ==
  /\ Rule("trace")      => Term!TraceImported(input[2], input[3])
  /\ Rule("transcript") => Term!TranscriptTells(input[2], input[3], input[4])
  /\ Rule("import")     => Term!ImportHonest(input[2], input[3], input[4])
  /\ Rule("proof")      => Term!ProofComplete(input[2])
  /\ Rule("profile")    => Term!ProfileHonest(input[2], input[3], input[4], input[5])
  /\ Rule("command")    => Term!CommandPlanned(input[2], input[3])

-----------------------------------------------------------------------------
Four(a, b)   == [v4 |-> <<a, b, 0, 1>>]
Named(last)  == [name |-> <<"org", last>>]
Chunks(type) == CASE type = "html" -> <<300, 30000, 240000>> [] type = "json" -> <<3000, 3000>> [] OTHER -> <<100, 100>>
Site(h, addresses, status, to, type) ==
  [url |-> [scheme |-> "https", host |-> h], resolution |-> addresses, resolves |-> 2, answers |-> 1,
   status |-> status, location |-> to, type |-> type, chunks |-> Chunks(type)]
Addresses2 == {<<>>, <<Four(9, 9)>>, <<Four(9, 9), Four(10, 0)>>, <<Four(9, 9), [mapped |-> <<127, 0, 0, 1>>, written |-> "hex"]>>}
Sites == {Site(Named("ok"), a, "ok", <<>>, t) : a \in Addresses2, t \in {"html", "json", "plain", "binary"}}
         \cup {Site(h, <<Four(9, 9)>>, "redirect", t, "plain") : h \in {Named("ok"), Named("bad")}, t \in {<<>>, <<"a">>, <<"b">>}}
         \cup {Site(h, <<>>, st, <<>>, "plain") : h \in {Four(9, 9), Four(10, 0), [v6 |-> "fd"], [name |-> <<"localhost">>]}, st \in {"ok", "error"}}
WebPolicy == [allowed : {{}, {[labels |-> <<"org">>, wild |-> TRUE]}}, blocked : {{}, {[labels |-> <<"org", "bad">>, wild |-> FALSE]}}, private : BOOLEAN]
Clocks == {[timeout |-> 3, abort |-> 9], [timeout |-> 30, abort |-> 99], [timeout |-> 9, abort |-> 4]}
Hits  == [titled : {TRUE}, resolves : {3}, url : {[scheme |-> x, host |-> Named("ok")] : x \in {"http", "ftp"}}, resolution : Addresses2]
         \cup [titled : {FALSE}, resolves : {3}, url : {[scheme |-> "http", host |-> Named("ok")]}, resolution : {<<>>}]

WebInput ==
  \/ \E a \in {9, 10, 100, 169, 172, 192, 198, 203, 224, 255}, b \in {0, 16, 18, 51, 64, 88, 127, 168, 254}, c \in {0, 2, 99, 100, 113}, d \in {0, 255} :
        input' = <<"mapped", <<a, b, c, d>>>>
  \/ \E w \in [{"a", "b"} -> Sites], m \in {255, 256, 10000, 50000}, p \in WebPolicy, c \in Clocks :
        input' = <<"fetch", w, [name |-> "a", maxChars |-> m], p, c>>
  \/ \E h \in Seqs(Hits, 3), n \in 0..2, p \in WebPolicy, c \in Clocks : input' = <<"search", h, n, p, c>>

-----------------------------------------------------------------------------
Set(ns, key, value) == [op |-> "set", ns |-> ns, key |-> key, value |-> value]
Snap(ns, key) == [ns |-> ns, key |-> key, record |-> [value |-> "w", version |-> 7, created |-> 0, updated |-> 0]]
Basic    == {Set("a", "a", "v"), Set(" a ", "b", "w"), Set("b", " a ", "function"), [op |-> "clear"], [op |-> "delete", ns |-> "a", key |-> "a"],
             [op |-> "restore", entries |-> <<Snap("a", "a")>>]}
Odd      == {Set("b", "b", "v"), Set(" ", "a", "v"), Set("a", " ", "v"), [op |-> "deleteNamespace", ns |-> "a"], [op |-> "delete", ns |-> "b", key |-> " "],
             [op |-> "restore", entries |-> <<Snap("b", "a"), Snap("b", " a ")>>], [op |-> "restore", entries |-> <<Snap(" a ", "a")>>]}
Blank    == [op |-> "delete", ns |-> "a", key |-> " "]
Both     == {[on |-> o] @@ b : o \in {"draft", "outer"}, b \in Basic \cup {Blank}}
Transactions == [op : {"transaction"}, body : Seqs(Both, 2), ends : {"return", "throw", "promise"}]
Sends    == {t @@ [op |-> "send", id |-> i, from |-> f, to |-> IF f = "p" THEN "q" ELSE "p", words |-> w] :
               i \in {"m", "n"}, f \in {"p", "q"}, w \in {{"v"}, {"v", "w"}}, t \in Optional("thread", {{"t"}})}
Plainly(f, to) == [op |-> "send", id |-> "m", from |-> f, to |-> to, words |-> {"v"}]
Again    == {Plainly("p", "q"), Plainly("q", "r"), [op |-> "read", id |-> "m"], [op |-> "clear", agent |-> "p"], [op |-> "clear", agent |-> "r"]}
Letters  == Sends \cup {[op |-> "read", id |-> "m"], [op |-> "clear"], [op |-> "clear", agent |-> "r"], [op |-> "clear", agent |-> "p"]}
Notes    == {t @@ n @@ [op |-> "remember", id |-> i] : i \in {"m", "n"}, t \in {[text |-> "v"], [text |-> "w", tags |-> {"t"}]}, n \in Optional("namespace", {"k"})}
            \cup [op : {"forget"}, id : {"m", "n"}]

StoredInput ==
  \/ \E os \in Seqs(Basic, 2), l \in Transactions : input' = <<"storage", os, l>>
  \/ \E os \in Seqs(Basic \cup Odd, 2), l \in Basic \cup Odd : input' = <<"storage", os, l>>
  \/ \E t, u \in {x \in Transactions : Len(x.body) < 2}, o \in Basic : input' = <<"storage", <<t, u>>, o>>
  \/ \E ls \in Seqs(Letters, 3) \cup [1..4 -> Again] : input' = <<"messages", ls>>
  \/ \E ts \in Seqs(Notes, 3), f \in Optional("tags", {{"t"}}) \cup {[namespace |-> "k"]}, d \in {{"m"}, {"m", "n"}}, h \in {"gone", "half"} :
        input' = <<"memories", ts, f, d, h>>

-----------------------------------------------------------------------------
Rulings  == {(("k" :> a) @@ ("l" :> b)) :
               a \in {[named |-> TRUE, may |-> {"u"}], [named |-> TRUE, may |-> {"v", "absent"}]},
               b \in {[named |-> FALSE, may |-> {}], [named |-> TRUE, may |-> {"v"}]}}
Schema(kind, r, drops) == [kind |-> kind, rules |-> r, drops |-> drops]
Schemas  == {Schema(k, r, {}) : k \in {"object", "zod"}, r \in Rulings} \cup {Schema("plain", r, d) : r \in Rulings, d \in {{}, {"l"}}}
NoRules  == [k \in {"k", "l"} |-> [named |-> FALSE, may |-> {}]]
Others   == {Schema(k, NoRules, {}) : k \in {"fussy", "throws", "odd", "none"}}
PluginId(s, p, w) == [scoped |-> s, prefixed |-> p, words |-> w]
Fragment == [id : {PluginId(TRUE, TRUE, <<"x">>), PluginId(FALSE, FALSE, <<"y">>)}, schema : Schemas \cup Others]
            \cup [id : {PluginId(FALSE, TRUE, <<>>), PluginId(TRUE, FALSE, <<"z">>)}, ns : {<<"x">>, <<>>}, schema : {CHOOSE s \in Schemas : s.kind = "object"}]
Several  == [id : {PluginId(TRUE, TRUE, <<"x">>)}, schema : {s \in Schemas : s.kind = "object" \/ s.rules["l"].named = (s.drops = {})}]
RefusedFragment == [id |-> PluginId(TRUE, TRUE, <<"x">>), schema |-> Schema("none", NoRules, {})]
Given(nss) == [nss -> {(("k" :> a) @@ ("l" :> b)) : a \in {"u", "absent"}, b \in {"v", "absent"}}]
Plugins(gs) == {[object |-> TRUE, plugins |-> [object |-> TRUE, given |-> g]] : g \in gs}
Configs  == {[object |-> FALSE], [object |-> TRUE], [object |-> TRUE, plugins |-> [object |-> FALSE]]}
            \cup Plugins(Given({<<"x">>}) \cup {g \in Given({<<"x">>, <<"y">>}) : g[<<"x">>] = g[<<"y">>]})
Texts    == {<<"a", ":">>, <<"b", ":", "c">>, <<"a", ":", "'", "c">>, <<"a", "#", "c">>, <<"\"", "b", ":", "c", "\"">>, <<":", "b">>}
YamlLine == {l \in [indent : {0, 1, 2, 4}, item : BOOLEAN, text : Texts \cup {<<"#">>}] : l.indent = 1 => (l.text = <<"#">> \/ ~l.item)}
Shallow  == {l \in YamlLine : l.indent \in {0, 2} /\ l.text \in {<<"a", ":">>, <<"b", ":", "c">>, <<"\"", "b", ":", "c", "\"">>}}
Word     == {[text |-> t] : t \in {<<"a">>, <<"b", ":", "#">>, <<"'", "a">>}}
Entry    == Word \cup {[map |-> <<<<<<"k">>, w>>>>] : w \in Word}
Leaf     == Word \cup {[map |-> <<>>]} \cup {[list |-> l] : l \in Seqs(Entry, 2) \ {<<>>}}
Settings == {[map |-> <<<<<<"k">>, v>>>>] : v \in Leaf} \cup {[map |-> <<<<<<"k">>, v>>, <<<<"l">>, w>>>>] : v, w \in Leaf}
            \cup {[map |-> <<<<<<"k">>, [map |-> <<<<<<"k">>, v>>, <<<<"m">>, w>>>>]>>, <<<<"l">>, w>>>>] : v \in Leaf, w \in Word}
            \cup {[list |-> l] : l \in Seqs(Entry, 3) \ {<<>>}}

ConfigInput ==
  \/ \E fs \in Seqs(Fragment, 2), c \in Configs : input' = <<"startup", fs, 0, c, Len(fs) < 2>>
  \/ \E fs \in Seqs(Several, 3), n \in 0..2, g \in Given({<<"x">>}) :
        n < Len(fs) /\ input' = <<"startup", fs, n, [object |-> TRUE, plugins |-> [object |-> TRUE, given |-> g]], FALSE>>
  \/ \E ls \in Seqs(YamlLine, 2) \cup {l \o k : l, k \in Seqs(Shallow, 2)} : input' = <<"yaml", ls>>
  \/ \E v \in Settings : input' = <<"written", v>>

\* What plugins say of their configuration is asked at startup, and a file is read
\* as it is written (plugin-config-yaml/src/registry.ts, validation.ts,
\* resolution.ts).
ConfigRulesAgree ==
  /\ Rule("startup") => Config!StartupTells(input[2], input[3], RefusedFragment, input[4], input[5])
  /\ Rule("yaml")    => Config!NothingDropped(input[2])
  /\ Rule("written") => Config!ReadsBack(input[2])

-----------------------------------------------------------------------------
Dir == [kind |-> "dir"]
Regular == [kind |-> "file"]
LinkTo(p) == [kind |-> "link", to |-> p]
\* A workspace /w with a directory and a file, a link, and a file outside; the
\* workspace itself may be reached through a link.
Disk(root, to) == (<<>> :> Dir) @@ (<<"w">> :> root) @@ (<<"v">> :> Dir) @@ (<<"v", "d">> :> Dir)
                    @@ (<<"w", "d">> :> Dir) @@ (<<"w", "d", "f">> :> Regular) @@ (<<"w", "d", "l">> :> LinkTo(to))
                    @@ (<<"out">> :> Dir) @@ (<<"out", "f">> :> Regular)
Segments == Seqs({"/", "w", "d", "l", "f", "..", "..more"}, 3)
Targets == {<<"out">>, <<"w">>, <<"w", "d">>, <<"w", "d", "l">>, <<"none", "f">>}
Edits == [old : Seqs({"a", "b"}, 2), new : {<<>>, <<"b">>, <<"a", "a">>}]
RepoTree(k, l) == (<<>> :> "dir") @@ (<<1>> :> "file") @@ (<<2>> :> k) @@ (<<2, 1>> :> "file") @@ (<<2, 2>> :> "dir")
                    @@ (<<2, 2, 1>> :> l) @@ (<<3>> :> "dir") @@ (<<3, 1>> :> "file") @@ (<<4>> :> "file")
Server == [id : {"a", " a ", " "}, transport : {"stdio", "http"}, command : {"c", " "}]
McpOps == [op : {"register"}, server : Server] \cup [op : {"remove"}, id : {"a"}]
Parents == {[id |-> "b"], [id |-> "b", parentId |-> "a"], [id |-> "b", lineage |-> <<>>],
            [id |-> "b", rootId |-> "a", parentId |-> "a", lineage |-> <<"a", "b">>],
            [id |-> "b", lineage |-> <<"a", "b">>], [id |-> "b", rootId |-> "a"]}
Envs == {<<>>, "PATH" :> 1, ("PATH" :> 2) @@ ("KEY" :> 2), ("LC_X" :> 3) @@ ("KEY" :> 3)}
Skilled == [{"project", "one", "user", "global"} -> {<<>>, <<"s">>, <<"t", "s">>, <<"s", "s">>}]

WorkInput ==
  \/ \E r \in {Dir, LinkTo(<<"v">>)}, t \in Targets, s \in Segments : input' = <<"path", Disk(r, t), s>>
  \/ \E t \in Seqs({"a", "b"}, 3), es \in Seqs(Edits, 2) : input' = <<"edit", t, es>>
  \/ \E fs \in {<<f, g>> : f, g \in Seqs({"a", "/"}, 3)}, p \in Seqs({"a", "/", "*", "?"}, 3), l \in 0..2 : input' = <<"find", fs, p, l>>
  \/ \E ls \in [1..2 -> Seqs({"x", "y"}, 3)], l \in 0..3, c \in 0..2 : input' = <<"grep", ls, l, c>>
  \/ \E k \in {"dir", "link"}, l \in {"file", "link"}, o \in [maxFiles : 1..6, maxDepth : 0..3, exclude : SUBSET {2, 3}] :
       input' = <<"map", RepoTree(k, l), o>>
  \/ \E e, b, o \in Envs, i \in BOOLEAN : input' = <<"env", e, b, o, i>>
  \/ \E ms \in {0, 1, 999, 1000, 1001, 2500}, x \in {"null", "0"} : input' = <<"timeout", ms, x>>
  \/ \E before, between \in 0..2, a, b, c \in 0..19 :
       /\ before + between <= 2 /\ {a, b, c} \subseteq 0..5 * (before + between + 2) - 1 /\ a <= b /\ b <= c
       /\ input' = <<"lsp", [i \in 1..before + between + 2 |-> CASE i = before + 1 -> 1 [] i = before + between + 2 -> 2 [] OTHER -> 0], {a, b, c} \ {0}>>
  \/ \E ops \in Seqs(McpOps, 3) : input' = <<"mcp", ops>>
  \/ \E p, u, g \in BOOLEAN, k \in Skilled : input' = <<"skills", [project |-> p, custom |-> <<"one">>, user |-> u, global |-> g], k>>
  \/ \E p \in Parents, ids \in {<<>>, <<"c">>, <<"c", "d">>} : input' = <<"scope", p, ids>>

\* Paths, edits, searches, maps, commands, requests, registries and scopes of the
\* tools in a workspace keep what they promise.
WorkRulesAgree ==
  /\ Rule("path")    => Work!PathsStayInside(input[2], <<"w">>, input[3])
  /\ Rule("edit")    => Work!EditsAllOrNone(input[2], input[3])
  /\ Rule("find")    => Work!FindsWhatMatches(input[2], input[3], input[4])
  /\ Rule("grep")    => Work!GrepsInOrder(input[2], "x", input[3], input[4])
  /\ Rule("map")     => Work!MapComplete(input[2], input[3])
  /\ Rule("env")     => Work!RunsAsAsked(input[2], input[3], input[4], input[5])
  /\ Rule("timeout") => Work!TimesOut(input[2], input[3])
  /\ Rule("lsp")     => Work!AnswersItsOwn(input[2], input[3])
  /\ Rule("mcp")     => Work!ServersKept(input[2])
  /\ Rule("skills")  => Work!NearestSkillWins(input[2], input[3])
  /\ Rule("scope")   => Work!LineageNamesRoot(input[2], input[3])

-----------------------------------------------------------------------------
Ev(type) == [type |-> type]
OtelEvents ==
  {Ev(<<"session", p>>) @@ [sessionId |-> k] : p \in {"started", "failed"}, k \in {"s", "t"}}
    \cup {Ev(<<"tool", "completed">>) @@ [sessionId |-> "s", timestamp |-> 0],
          Ev(<<"tool", "ran">>) @@ [sessionId |-> "s", status |-> "completed", durationMs |-> -1],
          Ev(<<"tool", "Started">>) @@ [sessionId |-> "", runId |-> "t", error |-> "e"],
          Ev(<<"note", "text">>) @@ [level |-> "warn"]}

OtelInput ==
  \/ \E es \in Seqs(OtelEvents, 4), m \in 1..2 : input' = <<"spans", es, m>>
  \/ \E steps \in Seqs({"event", "throws", "end", "fail", "stop", "closed"}, 5) : input' = <<"instrument", steps>>

\* Spans tell life cycles, and a subscription records nothing once it is stopped.
OtelRulesAgree ==
  /\ Rule("spans")      => Otel!SpansTellLifeCycles(input[2], input[3])
  /\ Rule("instrument") => Otel!StopsRecording(input[2])

-----------------------------------------------------------------------------
\* What is concluded from runs: the benchmark runner's evidence, the reports and
\* the traces of terminal benchmarks.
EvidenceRulesAgree == ReportRulesAgree /\ BenchmarkRulesAgree /\ TermRulesAgree

\* What the outside is told: by the console and the transports, and by what is
\* recorded of runs.
TellingRulesAgree == SurfaceRulesAgree /\ ObservedRulesAgree /\ OtelRulesAgree

-----------------------------------------------------------------------------
Next ==
  /\ input = <<>>
  /\ UNCHANGED rules
  /\ \/ rules = "sandbox" /\ SandboxInput
     \/ rules = "harness" /\ HarnessInput
     \/ rules = "report" /\ ReportInput
     \/ rules = "benchmark" /\ BenchmarkInput
     \/ rules = "surface" /\ SurfaceInput
     \/ rules = "observed" /\ ObservedInput
     \/ rules = "term" /\ TermInput
     \/ rules = "web" /\ WebInput
     \/ rules = "stored" /\ StoredInput
     \/ rules = "config" /\ ConfigInput
     \/ rules = "work" /\ WorkInput
     \/ rules = "otel" /\ OtelInput

Spec == Init /\ [][Next]_<<rules, input>>
=============================================================================
