------------------------------ MODULE EventStream ------------------------------
(***************************************************************************)
(* The canonical event stream: createCanonicalEventStream of               *)
(* packages/core/src/events/stream.ts (packages/sdk has the same code).    *)
(*                                                                         *)
(* emit() and subscribe() are async functions: they run up to the first    *)
(* listener they call, and go on when that listener settles.  Emits, and   *)
(* replays of history to new subscribers, therefore interleave at every    *)
(* listener call.  An event is known by its sequence number.               *)
(***************************************************************************)
EXTENDS Naturals, Sequences

CONSTANTS
  Emits,         \* one emit() call each
  Subs,          \* one subscribe() call each
  GivenSequences,\* event.sequence of the input; 0 stands for none
  Froms,         \* filter.fromSequence of a subscription; 0 stands for none
  Throwing,      \* the subscriptions whose filter.predicate throws
  Limits,        \* values of options.historyLimit; NoLimit stands for none
  NoLimit

ASSUME ConstantsAssumption ==
  /\ GivenSequences \subseteq Nat /\ Froms \subseteq Nat
  /\ Throwing \subseteq Subs
  /\ Limits \subseteq Nat \cup {NoLimit} /\ NoLimit \notin Nat

VARIABLES
  limit,     \* options.historyLimit
  awaited,   \* callers emit only when every earlier emit() has returned
  closed, nextSequence,
  history,   \* the buffered events
  order,     \* the listeners Map in insertion order, deleted entries included
  live,      \* the subscriptions that are keys of the listeners Map
  emit,      \* emit() calls: state, the event, position in order
  sub,       \* subscribe() calls: state, filter, position in history
  got        \* the events each listener was called with, in order

given == <<limit, awaited>>
vars == <<given, closed, nextSequence, history, order, live, emit, sub, got>>

Init ==
  /\ closed = FALSE /\ nextSequence = 1
  /\ history = << >> /\ order = << >> /\ live = {}
  /\ emit = [e \in Emits |-> [state |-> "idle", seq |-> 0, at |-> 0]]
  /\ sub = [s \in Subs |-> [state |-> "idle", from |-> 0, at |-> 0]]
  /\ got = [s \in Subs |-> << >>]
  /\ limit \in Limits /\ awaited \in BOOLEAN

\* matchesFilter, for a predicate that returns.
Matches(n, s) == n >= sub[s].from

Deliver(n, s) == got' = [got EXCEPT ![s] = Append(@, n)]

\* i is the first position after at, among those up to n, where P holds.
IsNext(i, at, n, P) == i \in P /\ at < i /\ i <= n /\ \A k \in P : at < k => i <= k
NoNext(at, n, P) == \A k \in P : ~ (at < k /\ k <= n)

(***************************************************************************)
(* notify(): the loop over the live Map visits entries added meanwhile and *)
(* not those deleted meanwhile.  Visit is what runs between two awaits.    *)
(***************************************************************************)
\* Where the loop for event n calls a listener, or a predicate throws.
Stops(n) == {i \in DOMAIN order :
               order[i] \in live /\ (order[i] \in Throwing \/ Matches(n, order[i]))}

Visit(e, n, at) ==
  \/ \E i \in DOMAIN order :
       /\ IsNext(i, at, Len(order), Stops(n))
       /\ IF order[i] \in Throwing
          THEN emit' = [emit EXCEPT ![e] = [state |-> "rejected", seq |-> n, at |-> i]]
               /\ UNCHANGED got
          ELSE emit' = [emit EXCEPT ![e] = [state |-> "running", seq |-> n, at |-> i]]
               /\ Deliver(n, order[i])
  \/ /\ NoNext(at, Len(order), Stops(n))
     /\ emit' = [emit EXCEPT ![e] = [state |-> "done", seq |-> n, at |-> at]]
     /\ UNCHANGED got

\* store(): push, then splice what is beyond the limit off the front.
Store(n) ==
  LET all == Append(history, n)
  IN history' = IF limit # NoLimit /\ Len(all) > limit
                THEN SubSeq(all, Len(all) - limit + 1, Len(all))
                ELSE all

Sealed(sequence) ==
  IF sequence > nextSequence THEN sequence ELSE nextSequence

Emit(e, sequence) ==
  /\ emit[e].state = "idle"
  /\ awaited => \A f \in Emits : emit[f].state # "running"
  /\ ~ closed
  /\ nextSequence' = Sealed(sequence) + 1
  /\ Store(Sealed(sequence))
  /\ Visit(e, Sealed(sequence), 0)
  /\ UNCHANGED <<given, closed, order, live, sub>>

\* The listener that emit e awaits settles; errors go to onSubscriberError.
ListenerSettles(e) ==
  /\ emit[e].state = "running"
  /\ Visit(e, emit[e].seq, emit[e].at)
  /\ UNCHANGED <<given, closed, nextSequence, history, order, live, sub>>

(***************************************************************************)
(* subscribe(): replays the history array by index, live, and registers.   *)
(***************************************************************************)
\* Mutant: fromSequence is taken as exclusive.
ReplayStopsAfter(s, from) ==
  {i \in DOMAIN history : s \in Throwing \/ history[i] > from}

ReplayStops(s, from) ==
  {i \in DOMAIN history : s \in Throwing \/ history[i] >= from}

\* Mutant: the listener is registered before the replay, not after it.
ReplayRegisteredFirst(s, from, at) ==
  /\ IF sub[s].state = "idle"
     THEN order' = Append(order, s) /\ live' = live \cup {s}
     ELSE UNCHANGED <<order, live>>
  /\ \/ \E i \in DOMAIN history :
          /\ IsNext(i, at, Len(history), ReplayStops(s, from))
          /\ sub' = [sub EXCEPT ![s] = [state |-> "replaying", from |-> from, at |-> i]]
          /\ Deliver(history[i], s)
     \/ /\ NoNext(at, Len(history), ReplayStops(s, from))
        /\ sub' = [sub EXCEPT ![s] = [state |-> "open", from |-> from, at |-> at]]
        /\ UNCHANGED got

Replay(s, from, at) ==
  \/ /\ \E i \in DOMAIN history :
          /\ IsNext(i, at, Len(history), ReplayStops(s, from))
          /\ IF s \in Throwing
             THEN sub' = [sub EXCEPT ![s] = [state |-> "rejected", from |-> from, at |-> i]]
                  /\ UNCHANGED got
             ELSE sub' = [sub EXCEPT ![s] = [state |-> "replaying", from |-> from, at |-> i]]
                  /\ Deliver(history[i], s)
     /\ UNCHANGED <<order, live>>
  \/ /\ NoNext(at, Len(history), ReplayStops(s, from))
     /\ sub' = [sub EXCEPT ![s] = [state |-> "open", from |-> from, at |-> at]]
     /\ order' = Append(order, s) /\ live' = live \cup {s}
     /\ UNCHANGED got

Subscribe(s, from) ==
  /\ sub[s].state = "idle" /\ ~ closed
  /\ Replay(s, from, 0)
  /\ UNCHANGED <<given, closed, nextSequence, history, emit>>

ReplaySettles(s) ==
  /\ sub[s].state = "replaying"
  /\ Replay(s, sub[s].from, sub[s].at)
  /\ UNCHANGED <<given, closed, nextSequence, history, emit>>

\* subscription.close().
Unsubscribe(s) ==
  /\ s \in live
  /\ live' = live \ {s}
  /\ UNCHANGED <<given, closed, nextSequence, history, order, emit, sub, got>>

Close ==
  /\ ~ closed
  /\ closed' = TRUE
  /\ live' = {}
  /\ UNCHANGED <<given, nextSequence, history, order, emit, sub, got>>

Next ==
  \/ \E e \in Emits : ListenerSettles(e) \/ (\E g \in GivenSequences : Emit(e, g))
  \/ \E s \in Subs :
       Unsubscribe(s) \/ ReplaySettles(s) \/ (\E f \in Froms : Subscribe(s, f))
  \/ Close

Spec == Init /\ [][Next]_vars

-----------------------------------------------------------------------------
(***************************************************************************)
(* Properties                                                              *)
(***************************************************************************)
Emitted == {emit[e].seq : e \in {f \in Emits : emit[f].state # "idle"}}

\* Sequence numbers are never reused, start at 1 and are below the next one,
\* whatever sequence callers ask for and however many emits are in flight.
SequencesUnique ==
  /\ \A n \in Emitted : 1 <= n /\ n < nextSequence
  /\ \A e, f \in Emits :
       emit[e].state # "idle" /\ emit[e].seq = emit[f].seq => e = f

\* Without a history limit a live subscriber misses nothing: whatever emit()
\* has returned reached everyone subscribed, by replay or live.
NothingMissed ==
  limit = NoLimit =>
    \A s \in live : \A e \in Emits :
      emit[e].state = "done" /\ Matches(emit[e].seq, s) =>
        \E i \in DOMAIN got[s] : got[s][i] = emit[e].seq

\* Every event has a number of its own, and reaches whoever is subscribed.
EventsReach == SequencesUnique /\ NothingMissed

\* If callers await each emit(), every listener sees events in sequence
\* order (an event may come twice, by replay and live).
InOrderWhenAwaited ==
  awaited =>
    \A s \in Subs : \A i, j \in DOMAIN got[s] : i < j => got[s][i] <= got[s][j]

(***************************************************************************)
(* What the specifications of the repository say and the code does not do. *)
(***************************************************************************)

\* specs/core/events: late and live subscribers see the same stream order.
SameOrderForAll ==
  \A s, t \in Subs : \A i, j \in DOMAIN got[s] : \A k, l \in DOMAIN got[t] :
    got[s][i] = got[t][k] /\ got[s][j] = got[t][l] /\ got[s][i] # got[s][j] =>
      (i < j <=> k < l)
=============================================================================
