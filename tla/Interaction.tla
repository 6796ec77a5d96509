------------------------------ MODULE Interaction ------------------------------
(***************************************************************************)
(* Questions to the user and the event stream that shows them:             *)
(* packages/plugin-interaction/src/index.ts.                               *)
(*                                                                         *)
(* askUser() leaves a question pending until somebody answers or cancels   *)
(* it, its timer fires, or the caller's signal aborts.  Every change is    *)
(* published to the HTTP transport, which numbers it, keeps the latest     *)
(* ones and pushes it to the open streams.  A call is named by a member of *)
(* Asks, because the id of a question is free again once it is closed.     *)
(***************************************************************************)
EXTENDS Integers, Sequences

CONSTANTS
  Asks,          \* calls of askUser()
  Questions,     \* question ids
  Clients,       \* readers of the event stream
  HistoryLimit,  \* events the transport keeps, or below 0 for all
  Starts,        \* bound: the numbers a client asks to start from, 0 for all
  MaxEvents      \* bound: events after which no further call is made

ASSUME InteractionAssumption == HistoryLimit \in Int /\ Starts \subseteq Nat /\ MaxEvents \in Nat

VARIABLES
  ask,          \* of each call: its question and how its promise stands
  pending,      \* pendingQuestions: the calls that wait, oldest first
  armed,        \* timers and abort listeners: pairs of a call and its cause
  tasks,        \* BOOLEAN: a task list has been written
  attached,     \* the transport gets the plugin's events
  closed,       \* the transport is closed
  history,      \* the transport's latest events and their numbers
  nextSequence,
  stream,       \* of each client: [on, from, got]
  shown         \* what a reader of the events since the attachment shows as open

interactionVars ==
  <<ask, pending, armed, tasks, attached, closed, history, nextSequence, stream, shown>>
served == <<attached, closed>>

Nothing == "nothing"
NotAsked == [question |-> Nothing, state |-> "none", by |-> Nothing]
Off == [on |-> FALSE, from |-> 0, got |-> <<>>]

InteractionInit ==
  /\ ask = [a \in Asks |-> NotAsked]
  /\ pending = <<>> /\ armed = {} /\ tasks = FALSE
  /\ attached = FALSE /\ closed = FALSE
  /\ history = <<>> /\ nextSequence = 1
  /\ stream = [c \in Clients |-> Off]
  /\ shown = {}

Room == nextSequence <= MaxEvents

\* Where a question is pending: pendingQuestions has one entry for an id.
Open(q) == {i \in DOMAIN pending : ask[pending[i]].question = q}

(***************************************************************************)
(* The transport                                                           *)
(***************************************************************************)
\* record(): only the latest events stay.
Recorded(events) ==
  LET drop == IF HistoryLimit >= 0 /\ Len(events) > HistoryLimit THEN Len(events) - HistoryLimit ELSE 0
  IN SubSeq(events, drop + 1, Len(events))

Event(type, q) == [type |-> type, question |-> q]
TaskEvent == Event("task_list.updated", Nothing)
Requested(q) == Event("question.requested", q)
Closing(q) == {Event("question.answered", q), Event("question.cancelled", q)}

\* What is open for a reader to whom the questions of before were and who has
\* seen these events.
ShownAfter(before, events) ==
  {q \in Questions :
     \/ q \in before /\ \A i \in DOMAIN events : events[i] \notin Closing(q)
     \/ \E i \in DOMAIN events :
          events[i] = Requested(q) /\ \A j \in DOMAIN events : j > i => events[j] \notin Closing(q)}

\* emit() of some events in turn, to a transport that is on and not closed.
Publish(events, on, before) ==
  LET Number(i) == nextSequence + i - 1
  IN IF on /\ ~ closed
     THEN /\ history' = Recorded(history \o [i \in DOMAIN events |-> [sequence |-> Number(i), event |-> events[i]]])
          /\ nextSequence' = nextSequence + Len(events)
          /\ stream' = [c \in Clients |->
               IF stream[c].on THEN [stream[c] EXCEPT !.got = @ \o [i \in DOMAIN events |-> Number(i)]]
               ELSE stream[c]]
          /\ shown' = ShownAfter(before, events)
     ELSE UNCHANGED <<history, nextSequence, stream>> /\ shown' = before

Notify(event) == Publish(<<event>>, attached, shown)

Listed == IF tasks THEN <<TaskEvent>> ELSE <<>>

\* Mutant: only the task lists are replayed.
AttachTasks ==
  /\ ~ attached /\ Room
  /\ attached' = TRUE
  /\ Publish(Listed, TRUE, {})
  /\ UNCHANGED <<ask, pending, armed, tasks, closed>>

\* attachTransport(): task lists, then the pending questions, oldest first.
Attach ==
  /\ ~ attached /\ Room
  /\ attached' = TRUE
  /\ Publish(Listed \o [i \in DOMAIN pending |-> Requested(ask[pending[i]].question)], TRUE, {})
  /\ UNCHANGED <<ask, pending, armed, tasks, closed>>

Detach ==
  /\ attached /\ attached' = FALSE
  /\ UNCHANGED <<ask, pending, armed, tasks, closed, history, nextSequence, stream, shown>>

\* snapshot(): the history is in the order of its numbers, so what the filter
\* leaves is its end.
Snapshot(from) ==
  {SubSeq(history, n + 1, Len(history)) :
     n \in {n \in 0..Len(history) : \A i \in DOMAIN history : history[i].sequence >= from <=> i > n}}

\* GET /events: subscribe, then replay, in one turn.  The first event that is
\* replayed to a client that comes back is the last one it had.
Connect(c, from) ==
  /\ ~ stream[c].on
  /\ \E kept \in Snapshot(from) :
       stream' = [stream EXCEPT ![c] = [on |-> TRUE, from |-> from, got |-> [i \in DOMAIN kept |-> kept[i].sequence]]]
  /\ UNCHANGED <<ask, pending, armed, tasks, served, history, nextSequence, shown>>

Disconnect(c) ==
  /\ stream[c].on /\ stream' = [stream EXCEPT ![c] = Off]
  /\ UNCHANGED <<ask, pending, armed, tasks, served, history, nextSequence, shown>>

Close ==
  /\ ~ closed /\ closed' = TRUE
  /\ stream' = [c \in Clients |-> Off] /\ history' = <<>>
  /\ UNCHANGED <<ask, pending, armed, tasks, attached, nextSequence, shown>>

(***************************************************************************)
(* Questions and tasks                                                     *)
(***************************************************************************)
\* askUser(): an aborted signal is told before the id is looked at.
AskRefused(a, q) ==
  /\ ask[a] = NotAsked
  /\ \E how \in {"aborted", "refused"} :
       /\ how = "refused" => Open(q) # {}
       /\ ask' = [ask EXCEPT ![a] = [question |-> q, state |-> how, by |-> a]]
  /\ UNCHANGED <<pending, armed, tasks, served, history, nextSequence, stream, shown>>

AskWaits(a, q, causes) ==
  /\ ask[a] = NotAsked /\ Open(q) = {} /\ Room
  /\ ask' = [ask EXCEPT ![a] = [question |-> q, state |-> "waiting", by |-> a]]
  /\ armed' = armed \cup ({a} \X causes)
  /\ pending' = Append(pending, a)
  /\ Notify(Requested(q))
  /\ UNCHANGED <<tasks, served>>

\* Mutant: all calls share one timer.
ClearedShared(a) == armed \ (Asks \X {"timeout"} \cup {a} \X {"aborted"})

\* clearPendingQuestion()
Cleared(a) == armed \ ({a} \X {"timeout", "aborted"})

\* The i-th question leaves the table; by is the call whose timer or signal
\* closed it.
Settle(i, how, by) ==
  LET a == pending[i]
  IN /\ pending' = SubSeq(pending, 1, i - 1) \o SubSeq(pending, i + 1, Len(pending))
     /\ armed' = Cleared(a) \ {<<by, how>>}
     /\ ask' = [ask EXCEPT ![a].state = how, ![a].by = by]
     /\ Notify(Event(IF how = "answered" THEN "question.answered" ELSE "question.cancelled", ask[a].question))
     /\ UNCHANGED <<tasks, served>>

Answer(q) == \E i \in Open(q) : Settle(i, "answered", pending[i])
Cancel(q) == \E i \in Open(q) : Settle(i, "cancelled", pending[i])

\* A timer or an abort listener: it closes the question that has its id now.
Fire(a, cause) ==
  /\ <<a, cause>> \in armed
  /\ IF Open(ask[a].question) # {}
     THEN \E i \in Open(ask[a].question) : Settle(i, cause, a)
     ELSE armed' = armed \ {<<a, cause>>}
          /\ UNCHANGED <<ask, pending, tasks, served, history, nextSequence, stream, shown>>

TaskWrite ==
  /\ Room /\ tasks' = TRUE
  /\ Notify(TaskEvent)
  /\ UNCHANGED <<ask, pending, armed, served>>

InteractionNext ==
  \/ Attach \/ Detach \/ Close \/ TaskWrite
  \/ \E c \in Clients : Disconnect(c) \/ \E from \in Starts : Connect(c, from)
  \/ \E q \in Questions : Answer(q) \/ Cancel(q)
  \/ \E a \in Asks :
       \/ \E cause \in {"timeout", "aborted"} : Fire(a, cause)
       \/ \E q \in Questions : AskRefused(a, q) \/ \E causes \in SUBSET {"timeout", "aborted"} : AskWaits(a, q, causes)

\* Timers fire.
InteractionFairness == \A a \in Asks : WF_interactionVars(Fire(a, "timeout"))

InteractionSpec == InteractionInit /\ [][InteractionNext]_interactionVars /\ InteractionFairness

-----------------------------------------------------------------------------
(***************************************************************************)
(* Properties                                                              *)
(***************************************************************************)
Waits(a) == \E i \in DOMAIN pending : pending[i] = a

\* A question is closed by an answer, by a cancellation, or by the timer and
\* the signal of the very call that asked it, although these only know its id;
\* and nothing stays armed for a call that is settled.
SettledByItsOwn ==
  /\ \A a \in Asks : ask[a].state \in {"timeout", "aborted"} => ask[a].by = a
  /\ \A p \in armed : ask[p[1]].state = "waiting"
  /\ \A a \in Asks : ask[a].state = "waiting" <=> Waits(a)

\* Whoever follows the events since the transport was attached shows exactly
\* the questions that are pending.
EventsShowPending ==
  attached /\ ~ closed => shown = {ask[pending[i]].question : i \in DOMAIN pending}

\* A stream has no hole: it got every event that is kept from where it asked to
\* start, in order, and nothing since then is missing.
StreamsWhole ==
  \A c \in Clients : stream[c].on =>
    LET got == stream[c].got
    IN /\ \A i \in DOMAIN got : got[i] = nextSequence - 1 - Len(got) + i
       /\ \A i \in DOMAIN history : history[i].sequence >= stream[c].from =>
            \E j \in DOMAIN got : got[j] = history[i].sequence

\* A question is closed by what belongs to the call that asked it, the events of
\* the transport show the questions that are pending, and a stream of them has no
\* hole (closePendingQuestion(), replayTransportState(), GET /events).
QuestionsTold == SettledByItsOwn /\ EventsShowPending /\ StreamsWhole

\* A question with a timeout does not wait for ever (the setTimeout() of askUser()).
TimedOutInTheEnd ==
  \A a \in Asks : <<a, "timeout">> \in armed ~> ask[a].state # "waiting"
=============================================================================
