------------------------------- MODULE OtelRules ------------------------------
(***************************************************************************)
(* The logs and spans that plugin-logging-otel makes of events, and its    *)
(* subscription to a source of them.  Attributes are left out; a type is   *)
(* <<scope, last part>>, and a field an event lacks is not in its record.  *)
(***************************************************************************)
EXTENDS Integers, Sequences, FiniteSets, SequencesExt, TLC

Field(r, f, other) == IF f \in DOMAIN r THEN r[f] ELSE other
Phases == {"started", "completed", "failed", "cancelled"}

\* The last part of a type counts in any case, a status only as it is.
ResolvePhase(e) ==
  CASE e.type[2] \in Phases -> e.type[2]
    [] e.type[2] = "Started" -> "started"
    [] Field(e, "status", "") \in Phases -> e.status
    [] OTHER -> "none"

ResolveSeverity(e) ==
  CASE Field(e, "level", "") \in {"debug", "info", "warn", "error"} -> e.level
    [] ResolvePhase(e) = "failed" \/ "error" \in DOMAIN e -> "error"
    [] ResolvePhase(e) = "cancelled" -> "warn"
    [] OTHER -> "info"

\* A blank name counts as none.
Named(e, f) == Field(e, f, "") # ""
NormalizeEvent(e, now) ==
  [time     |-> Field(e, "timestamp", now),
   phase    |-> ResolvePhase(e),
   severity |-> ResolveSeverity(e),
   type     |-> e.type,
   key      |-> CASE Named(e, "sessionId") -> <<e.sessionId>>
                  [] Named(e, "runId") -> <<e.runId>>
                  [] Named(e, "delegationId") -> <<e.delegationId>>
                  [] OTHER -> e.type,
   given    |-> IF "durationMs" \in DOMAIN e THEN {e.durationMs} ELSE {},
   bad      |-> "error" \in DOMAIN e]

AppendBuffered(buffer, record, max) ==
  LET all == Append(buffer, record)
  IN IF Len(all) <= max THEN all ELSE SubSeq(all, Len(all) - max + 1, Len(all))

CreateSpan(n, id) ==
  [id |-> id, name |-> n.type[1], status |-> "unset", events |-> <<n.type>>,
   start |-> IF n.phase = "started" \/ n.given = {} THEN n.time ELSE n.time - (CHOOSE d \in n.given : TRUE)]

Longer(a, b) == IF a >= b THEN a ELSE b
FinalizeSpan(span, n) ==
  [id |-> span.id, name |-> span.name, start |-> span.start, end |-> n.time,
   events |-> Append(span.events, n.type),
   duration |-> IF n.given # {} THEN CHOOSE d \in n.given : TRUE ELSE Longer(0, n.time - span.start),
   status |-> IF n.phase \in {"failed", "cancelled"} \/ n.bad THEN "error" ELSE "ok"]

\* Mutant: a span that has ended stays open.
RecordSpanKept(s, n, max) ==
  LET known == n.key \in DOMAIN s.open
      id    == s.made + 1
      span  == FinalizeSpan(IF known THEN s.open[n.key] ELSE CreateSpan(n, id), n)
  IN CASE n.phase = "none" -> s
       [] n.phase = "started" -> [s EXCEPT !.made = id, !.open = (n.key :> CreateSpan(n, id)) @@ @]
       [] OTHER -> [s EXCEPT !.made = IF known THEN @ ELSE id, !.spans = AppendBuffered(@, span, max)]

\* A start replaces what is open under its key; an end without a start makes a
\* span of its own, with its event twice.
RecordSpan(s, n, max) ==
  LET known == n.key \in DOMAIN s.open
      id    == s.made + 1
      span  == FinalizeSpan(IF known THEN s.open[n.key] ELSE CreateSpan(n, id), n)
  IN CASE n.phase = "none" -> s
       [] n.phase = "started" -> [s EXCEPT !.made = id, !.open = (n.key :> CreateSpan(n, id)) @@ @]
       [] OTHER -> [s EXCEPT !.made = IF known THEN @ ELSE id, !.spans = AppendBuffered(@, span, max),
                             !.open = [k \in DOMAIN s.open \ {n.key} |-> s.open[k]]]

\* A sink that throws keeps the log, but not the span.
Record(s, e, now, max, sinks) ==
  LET n == NormalizeEvent(e, now)
      logged == [s EXCEPT !.logs = AppendBuffered(@, [time |-> n.time, severity |-> n.severity], max)]
  IN IF sinks THEN RecordSpan(logged, n, max) ELSE logged

NothingYet == [logs |-> <<>>, spans |-> <<>>, open |-> <<>>, made |-> 0]
Recorded(events, max) ==
  FoldLeftDomain(LAMBDA s, i : Record(s, events[i], i, max, TRUE), NothingYet, events)

\* If each key is started, then ended, then started again, every life cycle gives
\* one span from its start to its end, and what has not ended is open; in any
\* case the buffers keep the latest, no two spans have an id in common, no
\* duration that was not given is negative, and what failed is an error
\* (plugin-logging-otel, record).
SpansTellLifeCycles(events, max) ==
  LET s == Recorded(events, max)
      N(i) == NormalizeEvent(events[i], i)
      Turns(k) == SelectSeq([i \in DOMAIN events |-> i], LAMBDA i : N(i).key = k /\ N(i).phase # "none")
      keys == {N(i).key : i \in DOMAIN events}
      paired == \A k \in keys : \A t \in DOMAIN Turns(k) : (N(Turns(k)[t]).phase = "started") = (t % 2 = 1)
      ends == SelectSeq([i \in DOMAIN events |-> i], LAMBDA i : N(i).phase \notin {"none", "started"})
      StartOf(i) == Turns(N(i).key)[(CHOOSE t \in DOMAIN Turns(N(i).key) : Turns(N(i).key)[t] = i) - 1]
      kept == SubSeq(ends, Len(ends) - Len(s.spans) + 1, Len(ends))
      ids == [i \in DOMAIN s.spans |-> s.spans[i].id] \o SetToSeq({s.open[k].id : k \in DOMAIN s.open})
  IN /\ Len(s.logs) = (IF Len(events) <= max THEN Len(events) ELSE max)
     /\ Len(s.spans) = (IF Len(ends) <= max THEN Len(ends) ELSE max)
     /\ IsInjective(ids) /\ \A i \in DOMAIN ids : ids[i] \in 1..s.made
     /\ \A i \in DOMAIN s.spans :
          /\ N(kept[i]).given = {} => s.spans[i].duration >= 0
          /\ N(kept[i]).phase \in {"failed", "cancelled"} => s.spans[i].status = "error"
     /\ paired =>
          /\ \A i \in DOMAIN s.spans :
               /\ s.spans[i].events = <<events[StartOf(kept[i])].type, events[kept[i]].type>>
               /\ s.spans[i].start = N(StartOf(kept[i])).time /\ s.spans[i].end = N(kept[i]).time
               /\ s.spans[i].name = events[StartOf(kept[i])].type[1]
          /\ DOMAIN s.open = {k \in keys : Len(Turns(k)) % 2 = 1}

(***************************************************************************)
(* instrument() on a source that is iterated: the loop waits for the next  *)
(* event, or for the source to close, or has ended.                        *)
(***************************************************************************)
Instrumented == [at |-> "next", stopped |-> FALSE, asked |-> FALSE, done |-> FALSE, cleaned |-> FALSE,
                 rejected |-> FALSE, events |-> 0]

\* The end of the loop: whoever asked the source to close has done so once.
Ended(s) == [s EXCEPT !.at = "ended", !.stopped = TRUE, !.asked = TRUE, !.done = TRUE, !.cleaned = TRUE]

\* Mutant: an event that comes after stop() is recorded.
LoopLate(s, step) ==
  CASE step = "event"  -> [s EXCEPT !.events = @ + 1]
    [] step = "throws" -> [s EXCEPT !.at = "closing", !.stopped = TRUE, !.asked = TRUE, !.rejected = TRUE, !.events = @ + 1]
    [] step = "end"    -> Ended(s)
    [] step = "fail"   -> [Ended(s) EXCEPT !.rejected = TRUE]

\* The next event; one that a sink throws at; the end of the source; its failure.
\* After stop() the first of them ends the loop, and what stop() began to close
\* is not waited for.
Loop(s, step) ==
  CASE step = "fail" -> [Ended(s) EXCEPT !.rejected = TRUE]
    [] step = "end" \/ s.stopped -> Ended(s)
    [] step = "event"  -> [s EXCEPT !.events = @ + 1]
    [] step = "throws" -> [s EXCEPT !.at = "closing", !.stopped = TRUE, !.asked = TRUE, !.rejected = TRUE, !.events = @ + 1]

Instrument(s, step) ==
  CASE step = "stop" -> IF s.stopped THEN s ELSE [s EXCEPT !.stopped = TRUE, !.done = TRUE, !.asked = TRUE]
    [] step = "closed" -> IF s.at = "closing" THEN Ended(s) ELSE s
    [] OTHER -> IF s.at = "next" THEN Loop(s, step) ELSE s

\* Nothing is recorded after stop(), which settles done at once; cleanup settles
\* with the loop, and not before the source was asked to close
\* (plugin-logging-otel, instrument).
StopsRecording(steps) ==
  LET After(n) == FoldLeft(Instrument, Instrumented, SubSeq(steps, 1, n))
  IN \A n \in 0..Len(steps) :
       /\ After(n).cleaned = (After(n).at = "ended")
       /\ After(n).cleaned => After(n).asked /\ After(n).done
       /\ After(n).stopped => After(n).asked /\ After(Len(steps)).events = After(n).events
       /\ (\E i \in 1..n : steps[i] = "stop") => After(n).done \/ After(n).at = "closing"
       /\ n > 0 => LET last == steps[n] IN
            last = "stop" /\ After(n - 1).at = "next" => After(n).done
=============================================================================
