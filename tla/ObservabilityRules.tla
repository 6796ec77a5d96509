--------------------------- MODULE ObservabilityRules --------------------------
(***************************************************************************)
(* The observability package: what its repository makes of a history of    *)
(* calls, the metrics and provenance it derives, what it redacts, whom its *)
(* routes let in, and its live event bus.  Timestamps are integers, the    *)
(* repository's clock is the number of calls made, and an absent field is  *)
(* a name outside a record's domain.                                       *)
(***************************************************************************)
EXTENDS Integers, Sequences, FiniteSets, SequencesExt, Folds, TLC

CONSTANT Rejected       \* a call that throws

Field(r, f, other) == IF f \in DOMAIN r THEN r[f] ELSE other
Where(s, P(_))     == SelectSeq(s, P)
AtMostFirst(s, limit) == SubSeq(s, 1, IF limit < Len(s) THEN limit ELSE Len(s))

(***************************************************************************)
(* Run records                                                             *)
(***************************************************************************)
TerminalStatuses == {"succeeded", "failed", "cancelled"}

StatusFromEventName ==
  [created |-> "created", started |-> "running", completed |-> "succeeded",
   failed |-> "failed", cancelled |-> "cancelled"]

CreateInitialRun(id, now) ==
  [runId |-> id, status |-> "unknown", createdAt |-> now, updatedAt |-> now, eventCount |-> 0,
   artifactCount |-> 0, byteSize |-> 0, pinned |-> FALSE, active |-> TRUE, exportIds |-> <<>>]

MergeRun(run, patch) == patch @@ run

UpdateRunForEvent(run, event, eventCount) ==
  LET status == Field(StatusFromEventName, event.name, run.status)
  IN MergeRun(run,
       [status |-> status, eventCount |-> eventCount, byteSize |-> run.byteSize + event.bytes,
        active |-> status \notin TerminalStatuses, updatedAt |-> event.at]
       @@ (IF event.name = "started" THEN "startedAt" :> event.at ELSE <<>>)
       @@ (IF status \in TerminalStatuses THEN "completedAt" :> event.at ELSE <<>>))

DedupeById(items) ==
  FoldLeft(LAMBDA out, x : IF \E i \in DOMAIN out : out[i].id = x.id THEN out ELSE Append(out, x), <<>>, items)

\* The store holds, for each run, its record, the ids of its events and its extras.
EnsureState(store, id, now) ==
  IF id \in DOMAIN store THEN store
  ELSE (id :> [run |-> CreateInitialRun(id, now), events |-> <<>>, artifacts |-> <<>>]) @@ store

AppendEvent(store, event, now) ==
  LET s == EnsureState(store, event.runId, now)
      state == s[event.runId]
      known == \E i \in DOMAIN state.events : state.events[i].id = event.id
      events == Append(state.events, event)
  IN IF known THEN s
     ELSE [s EXCEPT ![event.runId] =
            [state EXCEPT !.events = events, !.run = UpdateRunForEvent(state.run, event, Len(events))]]

SetPin(store, id, pinned, now) ==
  IF id \notin DOMAIN store THEN store      \* throws
  ELSE [store EXCEPT ![id].run = MergeRun(store[id].run, [pinned |-> pinned, updatedAt |-> now])]

MarkExported(store, id, export, now) ==
  IF id \notin DOMAIN store THEN store      \* throws
  ELSE [store EXCEPT ![id].run = MergeRun(store[id].run,
         [exportIds |-> IF export \in ToSet(@.exportIds) THEN @.exportIds ELSE Append(@.exportIds, export),
          updatedAt |-> now])]

RecordTraceExtras(store, id, artifacts, now) ==
  LET s == EnsureState(store, id, now)
      merged == DedupeById(s[id].artifacts \o artifacts)
  IN [s EXCEPT ![id].artifacts = merged,
               ![id].run = MergeRun(s[id].run, [artifactCount |-> Len(merged), updatedAt |-> now,
                                                byteSize |-> s[id].run.byteSize + Len(artifacts)])]

\* ingestRunResult() writes back the whole record it read some awaits before.
ReplaceRun(store, run, status, now) ==
  LET s == EnsureState(store, run.runId, now)
  IN [s EXCEPT ![run.runId].run =
        MergeRun(run, [status |-> status, active |-> status \notin TerminalStatuses, updatedAt |-> now])]

\* A policy is [maxBytes?, olderThan?, dryRun].
\* Mutant: a run is pinned or active when the sweep reaches it, and is not looked at.
SweepAnything(store, policy) ==
  LET oldestFirst == SortSeq(SetToSeq({store[id].run : id \in DOMAIN store}), LAMBDA a, b : a.updatedAt < b.updatedAt)
      deleted == {r.runId : r \in {q \in ToSet(oldestFirst) : "olderThan" \in DOMAIN policy /\ q.updatedAt < policy.olderThan}}
  IN [deleted |-> deleted, reclaimed |-> 0, pinned |-> {}, active |-> {}]

SweepRetention(store, policy) ==
  LET oldestFirst == SortSeq(SetToSeq({store[id].run : id \in DOMAIN store}), LAMBDA a, b : a.updatedAt < b.updatedAt)
      Visit(acc, run) ==
        LET over == "maxBytes" \in DOMAIN policy /\ acc.total > policy.maxBytes
            old  == "olderThan" \in DOMAIN policy /\ run.updatedAt < policy.olderThan
        IN CASE ~ over /\ ~ old -> acc
             [] (over \/ old) /\ run.pinned -> [acc EXCEPT !.pinned = @ \cup {run.runId}]
             [] (over \/ old) /\ ~ run.pinned /\ run.active -> [acc EXCEPT !.active = @ \cup {run.runId}]
             [] OTHER -> [acc EXCEPT !.deleted = @ \cup {run.runId}, !.reclaimed = @ + run.byteSize,
                                     !.total = @ - run.byteSize]
  IN FoldLeft(Visit, [deleted |-> {}, pinned |-> {}, active |-> {}, reclaimed |-> 0,
                      total |-> FoldLeft(LAMBDA t, r : t + r.byteSize, 0, oldestFirst)], oldestFirst)

Swept(store, policy) ==
  LET gone == IF policy.dryRun THEN {} ELSE SweepRetention(store, policy).deleted
  IN [id \in DOMAIN store \ gone |-> store[id]]

\* What the repository holds after a sequence of calls; "read" and "replace" are
\* the two ends of an ingestion, and other calls may come between them.
Call(acc, c) ==
  LET now == acc.now + 1
      to(store) == [acc EXCEPT !.now = now, !.store = store]
  IN CASE c.call = "event"   -> to(AppendEvent(acc.store, c, now))
       [] c.call = "pin"     -> [to(SetPin(acc.store, c.runId, c.pinned, now)) EXCEPT
                                   !.asked = IF c.runId \in DOMAIN acc.store THEN (c.runId :> c.pinned) @@ @ ELSE @]
       [] c.call = "export"  -> to(MarkExported(acc.store, c.runId, c.export, now))
       [] c.call = "extras"  -> to(RecordTraceExtras(acc.store, c.runId, c.artifacts, now))
       [] c.call = "read"    -> [acc EXCEPT !.now = now,
                                   !.read = IF c.runId \in DOMAIN acc.store THEN acc.store[c.runId].run
                                            ELSE CreateInitialRun(c.runId, now)]
       [] c.call = "replace" -> IF acc.read = <<>> THEN acc
                                ELSE [to(ReplaceRun(acc.store, acc.read, c.status, now)) EXCEPT
                                       !.asked = (acc.read.runId :> acc.read.pinned) @@ @]
       [] c.call = "sweep"   -> to(Swept(acc.store, c))
History(calls) ==
  FoldLeft(Call, [now |-> 0, store |-> <<>>, read |-> <<>>, asked |-> <<>>], calls)

\* Neither a pinned nor an active run is swept, no more is deleted than the policy
\* asks for and the oldest first; a run that has ended is not active; a pin lasts
\* until an ingestion that had read the run before it writes its record back; and
\* the events of a run are counted unless such a record came back.
RepositoryKeeps(calls, policy) ==
  LET h == History(calls)
      s == h.store
      sweep == SweepRetention(s, policy)
      ingested == \E i \in DOMAIN calls : calls[i].call = "replace"
      Bytes(ids) == FoldLeft(LAMBDA t, id : t + s[id].run.byteSize, 0, SetToSeq(ids))
  IN /\ \A id \in sweep.deleted : ~ s[id].run.pinned /\ ~ s[id].run.active
     /\ sweep.reclaimed = Bytes(sweep.deleted)
     /\ \A id \in sweep.deleted :
          \/ "olderThan" \in DOMAIN policy /\ s[id].run.updatedAt < policy.olderThan
          \/ "maxBytes" \in DOMAIN policy
             /\ Bytes(DOMAIN s \ {x \in sweep.deleted : s[x].run.updatedAt < s[id].run.updatedAt}) > policy.maxBytes
     /\ \A id \in DOMAIN s :
          /\ s[id].run.active <=> s[id].run.status \notin TerminalStatuses
          /\ s[id].run.pinned = Field(h.asked, id, FALSE) \/ \E i \in DOMAIN calls : calls[i].call = "sweep"
          /\ ~ ingested => s[id].run.eventCount = Len(s[id].events)
          /\ IsInjective([i \in DOMAIN s[id].events |-> s[id].events[i].id])
          /\ IsInjective(s[id].run.exportIds)

(***************************************************************************)
(* Queries: the memory repository limits last, the SQLite one first        *)
(***************************************************************************)
AttributesMatch(point, attributes) == \A k \in DOMAIN attributes : Field(point.attributes, k, "") = attributes[k]

InTime(points, query) ==
  SortSeq(Where(points, LAMBDA p : Field(query, "from", p.at) <= p.at /\ p.at <= Field(query, "to", p.at)),
          LAMBDA p, q : p.at < q.at)
Asked(points, query) ==
  Where(points, LAMBDA p : p.name \in Field(query, "names", {p.name}) /\ AttributesMatch(p, Field(query, "attributes", <<>>)))

QueryMetrics(points, query) ==
  LET found == Asked(InTime(points, query), query)
  IN AtMostFirst(found, Field(query, "limit", Len(found)))

QueryMetricsSqlite(points, query) ==
  Asked(AtMostFirst(InTime(points, query), Field(query, "limit", 10000)), query)

\* Both answer with points that match, in order of time and at most as many as
\* asked for; without a limit they agree, and with one SQLite's answer is the
\* beginning of the other's.
QueriesAgree(points, query) ==
  LET memory == QueryMetrics(points, query)
      sqlite == QueryMetricsSqlite(points, query)
  IN /\ \A a \in {memory, sqlite} :
          /\ \A i \in 1..(Len(a) - 1) : a[i].at <= a[i + 1].at
          /\ Len(a) <= Field(query, "limit", Len(a))
          /\ \A i \in DOMAIN a : a[i].name \in Field(query, "names", {a[i].name})
     /\ IsPrefix(sqlite, memory)
     /\ "limit" \notin DOMAIN query => sqlite = memory

(***************************************************************************)
(* Metrics                                                                 *)
(***************************************************************************)
MetricCatalog ==
  [events |-> {"workspace_id", "event_family", "source"}, duration |-> {"workspace_id", "status"},
   bytes |-> {"workspace_id", "status"}, policy |-> {"workspace_id", "effect", "decision"},
   completeness |-> {"workspace_id", "status"}]
CorrelationOnly == {"run_id", "session_id", "event_id", "trace_id", "prompt", "output", "file_path", "user_id"}

AttributesBounded(name, attributes) == name \in DOMAIN MetricCatalog /\ DOMAIN attributes \subseteq MetricCatalog[name]

\* The id of a point is made of everything but its value.
MetricPoint(name, value, at, attributes, evidence) ==
  IF ~ AttributesBounded(name, attributes) THEN Rejected
  ELSE [id |-> <<name, at, attributes, evidence>>, name |-> name, value |-> value, attributes |-> attributes]

DeriveEventCountMetric(event) ==
  MetricPoint("events", 1, event.at, [workspace_id |-> "w", event_family |-> Field(event, "family", "unknown"), source |-> "s"], {event.id})

RunDuration(run) ==
  LET d == run.completedAt - Field(run, "startedAt", run.createdAt)
  IN IF "completedAt" \in DOMAIN run /\ d >= 0 THEN {d} ELSE {}

DeriveRunMetrics(run) ==
  LET attributes == [workspace_id |-> "w", status |-> run.status]
  IN {MetricPoint("bytes", run.byteSize, run.updatedAt, attributes, {}),
      MetricPoint("completeness", IF run.eventCount > 0 THEN 1 ELSE 0, run.updatedAt, attributes, {})}
     \cup {MetricPoint("duration", d, run.completedAt, attributes, {}) : d \in RunDuration(run)}

\* After any history the metrics of a run use only attributes of the catalog, none
\* that grows with the runs, and a duration is never negative.
MetricsBounded(calls) ==
  LET s == History(calls).store
  IN \A id \in DOMAIN s :
       LET points == DeriveRunMetrics(s[id].run) \cup {DeriveEventCountMetric(s[id].events[i]) : i \in DOMAIN s[id].events}
       IN /\ Rejected \notin points
          /\ \A p \in points : DOMAIN p.attributes \cap CorrelationOnly = {} /\ p.value >= 0
          /\ Cardinality({p.id : p \in points}) = Cardinality(points)

(***************************************************************************)
(* Redaction                                                               *)
(***************************************************************************)
\* A value is [kind, ...]: a text has secret and size, a list items, an object
\* fields (name -> value); "opaque" stands for one that contains itself.
RECURSIVE RedactValue(_, _, _), Leaves(_), Truncated(_)

RedactString(text, max) ==
  IF text.secret THEN [kind |-> "redacted"]
  ELSE IF text.size <= max THEN text
  ELSE [text EXCEPT !.size = max] @@ ("cut" :> TRUE)

SecretKey(key) == key \in {"token", "password"}

\* Mutant: an allowed key passes its whole value.
RedactAllowed(value, max, allowed) ==
  IF value.kind = "text" THEN RedactString(value, max) ELSE value

RedactValue(value, max, allowed) ==
  CASE value.kind = "text" -> RedactString(value, max)
    [] value.kind = "list" -> [value EXCEPT !.items = [i \in DOMAIN @ |-> RedactValue(@[i], max, allowed)]]
    [] value.kind = "object" ->
         [value EXCEPT !.fields = [k \in DOMAIN @ |->
            IF k \notin allowed /\ SecretKey(k) THEN [kind |-> "redacted"] ELSE RedactValue(@[k], max, allowed)]]
    [] OTHER -> value

Children(value) ==
  CASE value.kind = "list" -> ToSet(value.items) [] value.kind = "object" -> {value.fields[k] : k \in DOMAIN value.fields} [] OTHER -> {}
Leaves(value) == IF Children(value) = {} THEN {value} ELSE UNION {Leaves(c) : c \in Children(value)}

Truncated(value) == "cut" \in DOMAIN value \/ \E c \in Children(value) : Truncated(c)

\* What is kept of a payload: its shape, unless content was asked for; and nothing
\* when the redacted value cannot be serialized.
SummarizePayload(value, posture, max, allowed) ==
  LET redacted == RedactValue(value, max, allowed)
  IN CASE \E l \in Leaves(value) : l.kind = "opaque" -> [posture |-> "redacted", failed |-> TRUE, truncated |-> FALSE, content |-> {}]
       [] posture = "metadata_only" -> [posture |-> posture, failed |-> FALSE, truncated |-> FALSE, content |-> {}]
       [] OTHER -> [posture |-> posture, failed |-> FALSE, truncated |-> Truncated(redacted), content |-> {redacted}]

\* No text that looks like a secret is kept at any depth, nor what is under a key
\* that does unless it is allowed, and a longer text is cut and said to be.
SecretsDropped(value, posture, max, allowed) ==
  LET s == SummarizePayload(value, posture, max, allowed)
  IN /\ posture = "metadata_only" => s.content = {}
     /\ \A kept \in s.content :
          /\ \A l \in Leaves(kept) : l.kind = "text" => ~ l.secret /\ l.size <= max
          /\ value.kind = "object" => \A k \in DOMAIN value.fields :
               SecretKey(k) /\ k \notin allowed => kept.fields[k].kind = "redacted"
          /\ s.truncated <=> \E l \in Leaves(kept) : "cut" \in DOMAIN l

(***************************************************************************)
(* Routes                                                                  *)
(***************************************************************************)
\* A host header is cut at its first colon, which leaves nothing of ::1.
HostName(host) == IF host = "v6" THEN "" ELSE host
IsLoopbackRequest(request) == request.urlHost \in {"localhost", "127", "v6"} /\ HostName(request.host) \in {"localhost", "127"}

Authorize(request, options) ==
  CASE ~ options.allowRemote /\ ~ IsLoopbackRequest(request) -> 403
    [] request.method = "POST" /\ request.origin = "other" -> 403
    [] options.authorize # "none" -> IF options.authorize = "yes" THEN 200 ELSE 403
    [] OTHER -> IF request.token = "right" THEN 200 ELSE 401

RouteStatus(request, options, known) ==
  CASE Authorize(request, options) # 200 -> Authorize(request, options)
    [] request.route \in {"reports", "exports", "payloads"} -> 403
    [] request.route = "pin" /\ ~ options.mutating -> 403
    [] request.route = "pin" /\ request.runId \notin known -> 500
    [] request.route = "trace" /\ request.runId \notin known -> 404
    [] OTHER -> 200

\* A pin changes only when the host enabled it and the request comes from the page
\* or none, with the token or the host's leave; nothing that exports is served.
RoutesGuarded(request, options, known) ==
  RouteStatus(request, options, known) = 200 =>
    /\ request.route \notin {"reports", "exports", "payloads"}
    /\ options.allowRemote \/ request.host \in {"localhost", "127"}
    /\ IF options.authorize = "none" THEN request.token = "right" ELSE options.authorize = "yes"
    /\ request.route = "pin" => options.mutating /\ (request.method = "POST" => request.origin # "other")

(***************************************************************************)
(* Provenance                                                              *)
(***************************************************************************)
\* sanitizeIdPart(): ids that differ in other characters only become one.
Sanitize(id) == IF id = "a b" THEN "a_b" ELSE id
ProvenanceId(kind, id) == <<kind, Sanitize(id)>>

Empty == [entities |-> {}, activities |-> {}, agents |-> {}, derivations |-> {}, refs |-> <<>>]

\* Each piece of evidence is an entity, generated by an activity of an agent; refs
\* is entityByEvidenceRef.
Evidence(b, kind, ref, agent) ==
  LET entity == ProvenanceId(kind, ref)
  IN [b EXCEPT !.entities = @ \cup {[id |-> entity, by |-> entity]}, !.activities = @ \cup {[id |-> entity, of |-> agent]},
               !.agents = @ \cup {agent}, !.refs = (ref :> entity) @@ @]

Derive(b, generated, used, activity, role) ==
  [b EXCEPT !.derivations = @ \cup {[generated |-> generated, used |-> used, activity |-> activity, role |-> role]}]

DeriveFromRef(b, generated, ref, activity, role) ==
  IF ref \in DOMAIN b.refs THEN Derive(b, generated, b.refs[ref], activity, role) ELSE b

RunEntity == <<"run", "r">>
Runtime   == <<"agent", "runtime">>

AddEvents(b, events) ==
  FoldLeft(LAMBDA c, e : LET id == ProvenanceId("event", e.id)
                         IN Derive(Evidence(c, "event", e.id, <<"agent", "source">>), id, RunEntity, RunEntity, "run-event"), b, events)

MatchingEventEntityId(events, sequence) ==
  LET found == SelectSeq(events, LAMBDA e : e.sequence = sequence)
  IN IF found = <<>> THEN RunEntity ELSE ProvenanceId("event", found[1].id)

AddProjections(b, projections, events) ==
  FoldLeft(LAMBDA c, p : LET id == ProvenanceId("projection", p.id)
                         IN Derive(Evidence(c, "projection", p.id, Runtime), id, MatchingEventEntityId(events, p.sequence), id, "projected-from"),
           b, projections)

AddArtifacts(b, artifacts) ==
  FoldLeft(LAMBDA c, a : LET id == ProvenanceId("artifact", a)
                         IN Derive(Evidence(c, "artifact", a, Runtime), id, RunEntity, id, "run-artifact"), b, artifacts)

\* Mutant: a decision is derived from what it cites, known or not.
AddPoliciesUnchecked(b, decisions) ==
  FoldLeft(LAMBDA c, d : LET id == ProvenanceId("policy", d.id)
                         IN FoldLeft(LAMBDA x, r : Derive(x, id, ProvenanceId("event", r), id, "policy-evidence"),
                                     Evidence(c, "policy", d.id, <<"agent", d.actor>>), d.evidenceRefs), b, decisions)

AddPolicies(b, decisions) ==
  FoldLeft(LAMBDA c, d : LET id == ProvenanceId("policy", d.id)
                         IN FoldLeft(LAMBDA x, r : DeriveFromRef(x, id, r, id, "policy-evidence"),
                                     Evidence(c, "policy", d.id, <<"agent", d.actor>>), d.evidenceRefs), b, decisions)

AddTraceEvents(b, traceEvents) ==
  FoldLeft(LAMBDA c, t :
             LET id == ProvenanceId("trace-event", t.id)
                 told == Evidence(c, "trace-event", t.id, IF "actor" \in DOMAIN t THEN <<"agent", t.actor>> ELSE Runtime)
                 caused == IF "cause" \in DOMAIN t THEN DeriveFromRef(told, id, t.cause, id, "caused-by") ELSE told
             IN IF "artifact" \in DOMAIN t /\ t.artifact \in DOMAIN caused.refs
                THEN Derive(caused, caused.refs[t.artifact], id, id, "trace-artifact") ELSE caused, b, traceEvents)

AddReport(b, lines) ==
  LET report == <<"report", "r">>
      told == Derive(Evidence(b, "report", "r", <<"agent", "reporter">>), report, RunEntity, report, "report-source")
  IN FoldLeft(LAMBDA c, i : Derive([c EXCEPT !.entities = @ \cup {[id |-> <<lines[i], i>>, by |-> report]}],
                                   <<lines[i], i>>, report, report, lines[i]), told, [i \in DOMAIN lines |-> i])

\* The lines of a report: what was observed, what follows, and what is missing.
ReportLines(status, events, decisions) ==
  <<"observation", "observation">>
  \o (IF status \in {"failed", "succeeded"} THEN <<"inference">> ELSE <<>>)
  \o (IF \E i \in DOMAIN decisions : decisions[i].denied THEN <<"inference">> ELSE <<>>)
  \o (IF events = <<>> THEN <<"gap">> ELSE <<>>)
  \o (IF status \in {"failed", "succeeded"} THEN <<>> ELSE <<"gap">>)

CreateProvenanceBundle(trace) ==
  AddReport(AddTraceEvents(AddPolicies(AddArtifacts(AddProjections(AddEvents(
    Evidence(Empty, "run", "r", Runtime), trace.events), trace.projections, trace.events), trace.artifacts),
    trace.decisions), trace.traceEvents), ReportLines(trace.status, trace.events, trace.decisions))

\* Whatever a trace cites, the bundle refers only to what it holds, everything in
\* it but the run is derived from something, and no evidence is left out.
ProvenanceClosed(trace) ==
  LET b == CreateProvenanceBundle(trace)
      entities   == {e.id : e \in b.entities}
      activities == {a.id : a \in b.activities}
  IN /\ \A e \in b.entities : e.by \in activities
     /\ \A a \in b.activities : a.of \in b.agents
     /\ \A d \in b.derivations : {d.generated, d.used} \subseteq entities /\ d.activity \in activities
     /\ \A e \in entities : e[1] \in {"event", "projection", "artifact", "report"} => \E d \in b.derivations : d.generated = e
     /\ \A i \in DOMAIN trace.events : ProvenanceId("event", trace.events[i].id) \in entities
     /\ \E e \in entities : e[1] \in {"inference", "gap"}

(***************************************************************************)
(* The live event bus                                                      *)
(***************************************************************************)
Snapshot(history, from) == SelectSeq(history, LAMBDA s : s >= from)

\* A bus is [next, history, subs, open]; a subscriber [id, got, queued, echoes]
\* publishes again, from its listener, as often as it echoes.
RECURSIVE Publish(_, _, _), Deliver(_, _, _, _, _)

Publish(bus, historyLimit, maxQueue) ==
  LET s == bus.next
      kept == Append(bus.history, s)
      told == [bus EXCEPT !.next = s + 1,
                 !.history = SubSeq(kept, IF Len(kept) > historyLimit THEN Len(kept) - historyLimit + 1 ELSE 1, Len(kept))]
  IN Deliver(told, s, 1, historyLimit, maxQueue)

\* The subscribers in the order of the map; one whose queue is too long is dropped.
Deliver(bus, s, i, historyLimit, maxQueue) ==
  IF i > Len(bus.subs) THEN bus
  ELSE LET sub == bus.subs[i]
           dropped == [bus EXCEPT !.subs[i].open = FALSE]
           taken == [bus EXCEPT !.subs[i].got = Append(@, s), !.subs[i].queued = @ + 1,
                                !.subs[i].echoes = IF @ > 0 THEN @ - 1 ELSE 0]
           echoed == IF sub.echoes > 0 THEN Publish(taken, historyLimit, maxQueue) ELSE taken
       IN IF ~ sub.open THEN Deliver(bus, s, i + 1, historyLimit, maxQueue)
          ELSE IF sub.queued + 1 > maxQueue THEN Deliver(dropped, s, i + 1, historyLimit, maxQueue)
          ELSE Deliver([echoed EXCEPT !.subs[i].queued = @ - 1], s, i + 1, historyLimit, maxQueue)

SubscribeToBus(bus, from, echoes) ==
  [bus EXCEPT !.subs = Append(@, [got |-> Snapshot(bus.history, from), queued |-> 0, open |-> TRUE, echoes |-> echoes])]

\* toSseResponse(): the replay is written before anybody reads, and what finds no
\* room is dropped, for there is no subscription to close yet.
SseReplay(history, from, room) == AtMostFirst(Snapshot(history, from), room)

\* Operations: to publish, or to subscribe <<from, echoes>>.
ToPublish == <<>>
Bus(ops, historyLimit, maxQueue) ==
  FoldLeft(LAMBDA b, op : IF op = ToPublish THEN Publish(b, historyLimit, maxQueue) ELSE SubscribeToBus(b, op[1], op[2]),
           [next |-> 1, history |-> <<>>, subs |-> <<>>], ops)

\* A subscriber is told each event once; in order when nobody before it publishes
\* from a listener; only one that does so deeper than its queue allows is dropped.
BusTells(ops, historyLimit, maxQueue) ==
  LET b == Bus(ops, historyLimit, maxQueue)
      subs == SelectSeq(ops, LAMBDA op : op # ToPublish)
      Increasing(s) == \A i \in 1..(Len(s) - 1) : s[i] < s[i + 1]
  IN /\ Len(b.history) <= historyLimit /\ Increasing(b.history)
     /\ \A i \in DOMAIN b.subs :
          /\ IsInjective(b.subs[i].got) /\ b.subs[i].queued = 0
          /\ (\A j \in 1..(i - 1) : subs[j][2] = 0) => Increasing(b.subs[i].got)
          /\ ~ b.subs[i].open => subs[i][2] >= maxQueue
          /\ b.subs[i].open /\ b.subs[i].got # <<>> /\ Increasing(b.subs[i].got) =>
               Len(b.subs[i].got) = Last(b.subs[i].got) - b.subs[i].got[1] + 1
          /\ \A from \in {1, 2} : IsPrefix(SseReplay(b.history, from, 1), Snapshot(b.history, from))
=============================================================================
