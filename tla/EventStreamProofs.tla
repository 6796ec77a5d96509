---------------------------- MODULE EventStreamProofs --------------------------
(***************************************************************************)
(* Proofs about EventStream for every set of emits and subscriptions, every*)
(* history limit and every interleaving at the listeners.                  *)
(*                                                                         *)
(* Numbered carries the sequence numbers.  Told says how far each delivery *)
(* and each replay has come: what lies behind its position has been        *)
(* delivered.  Sorted says the same of order, when emits are awaited.      *)
(***************************************************************************)
EXTENDS EventStream, TLAPS

EmitStates == {"idle", "running", "done", "rejected"}
SubStates == {"idle", "replaying", "open", "rejected"}

TypeOK ==
  /\ limit \in Limits /\ awaited \in BOOLEAN /\ closed \in BOOLEAN
  /\ nextSequence \in Nat \ {0}
  /\ history \in Seq(Nat) /\ order \in Seq(Subs)
  /\ live \in SUBSET Subs
  /\ emit \in [Emits -> [state : EmitStates, seq : Nat, at : Nat]]
  /\ sub \in [Subs -> [state : SubStates, from : Nat, at : Nat]]
  /\ got \in [Subs -> Seq(Nat)]

Got(s) == {got[s][i] : i \in DOMAIN got[s]}

\* Only subscriptions that have replayed are in the Map, and no delivery is ahead
\* of it.
Registered ==
  /\ \A e \in Emits : emit[e].at <= Len(order)
  /\ \A i \in DOMAIN order : sub[order[i]].state = "open"
  /\ \A s \in live : \E i \in DOMAIN order : order[i] = s
  /\ \A s \in Subs : sub[s].state = "idle" => got[s] = << >>

\* Without a limit every event is in the history.
Kept == limit = NoLimit => \A n \in Emitted : \E i \in DOMAIN history : history[i] = n

\* A replay has delivered what is behind it.
Replayed ==
  limit = NoLimit =>
    \A s \in Subs : sub[s].state = "replaying" =>
      /\ sub[s].at <= Len(history)
      /\ \A i \in DOMAIN history :
           i <= sub[s].at /\ history[i] >= sub[s].from => history[i] \in Got(s)

\* A delivery has reached the listeners behind it, and one that is done all.
Told ==
  limit = NoLimit =>
    \A e \in Emits : \A i \in DOMAIN order :
      /\ order[i] \in live /\ Matches(emit[e].seq, order[i])
      /\ emit[e].state = "done" \/ (emit[e].state = "running" /\ i <= emit[e].at)
      => emit[e].seq \in Got(order[i])

NInv ==
  /\ TypeOK
  /\ SequencesUnique
  /\ \A e \in Emits : emit[e].state = "idle" => emit[e].seq = 0
DInv == NInv /\ Registered /\ Kept /\ Replayed /\ Told

-----------------------------------------------------------------------------
LEMMA SealedFacts ==
  ASSUME TypeOK, NEW g \in GivenSequences
  PROVE  Sealed(g) \in Nat /\ Sealed(g) >= nextSequence /\ Sealed(g) >= 1
BY ConstantsAssumption DEF TypeOK, Sealed

\* store() keeps a sequence of numbers; without a limit it only appends.
LEMMA StoreFacts ==
  ASSUME TypeOK, NEW n \in Nat, Store(n)
  PROVE  /\ history' \in Seq(Nat)
         /\ limit = NoLimit => history' = Append(history, n)
         /\ \/ history' = Append(history, n)
            \/ \E d \in Nat \ {0} :
                 /\ d <= Len(history) + 1
                 /\ Len(history') = Len(history) + 1 - d
                 /\ \A i \in 1 .. Len(history') : history'[i] = Append(history, n)[d + i]
<1> DEFINE all == Append(history, n)
<1>1. all \in Seq(Nat) /\ Len(all) = Len(history) + 1 /\ Len(history) \in Nat
  BY DEF TypeOK
<1>2. CASE ~ (limit # NoLimit /\ Len(all) > limit)
  BY <1>1, <1>2 DEF Store
<1>3. CASE limit # NoLimit /\ Len(all) > limit
  <2>1. limit \in Nat
    BY <1>3, ConstantsAssumption DEF TypeOK
  <2>2. history' = SubSeq(all, Len(all) - limit + 1, Len(all))
    BY <1>3 DEF Store
  <2> DEFINE d == Len(all) - limit
  <2>3. d \in Nat \ {0} /\ d <= Len(all)
    BY <1>1, <1>3, <2>1
  <2>4. SubSeq(all, d + 1, Len(all)) \in Seq(Nat)
        /\ Len(SubSeq(all, d + 1, Len(all))) = Len(all) - d
        /\ \A i \in 1 .. (Len(all) - d) : SubSeq(all, d + 1, Len(all))[i] = all[d + i]
    <3> HIDE DEF d, all
    <3> QED BY <1>1, <2>3
  <2>5. history' = SubSeq(all, d + 1, Len(all))
    BY <2>2
  <2> HIDE DEF d
  <2>6. Len(history') = Len(history) + 1 - d /\ d <= Len(history) + 1
    BY <1>1, <2>3, <2>4, <2>5
  <2>7. \A i \in 1 .. Len(history') : history'[i] = all[d + i]
    BY <1>1, <2>3, <2>4, <2>5
  <2> QED BY <1>3, <2>3, <2>4, <2>5, <2>6, <2>7
<1> QED BY <1>2, <1>3

\* One visit of the loop of notify(): it moves on, and delivers at most to one.
LEMMA VisitFacts ==
  ASSUME TypeOK, NEW e \in Emits, NEW n \in Nat, NEW at \in Nat, Visit(e, n, at)
  PROVE  \E st \in EmitStates \ {"idle"}, i \in Nat :
           /\ emit' = [emit EXCEPT ![e] = [state |-> st, seq |-> n, at |-> i]]
           /\ \/ UNCHANGED got
              \/ st = "running" /\ i \in DOMAIN order /\ Deliver(n, order[i])
<1>1. ASSUME NEW i \in DOMAIN order,
             IF order[i] \in Throwing
             THEN emit' = [emit EXCEPT ![e] = [state |-> "rejected", seq |-> n, at |-> i]]
                  /\ UNCHANGED got
             ELSE emit' = [emit EXCEPT ![e] = [state |-> "running", seq |-> n, at |-> i]]
                  /\ Deliver(n, order[i])
      PROVE  \E st \in EmitStates \ {"idle"}, k \in Nat :
               /\ emit' = [emit EXCEPT ![e] = [state |-> st, seq |-> n, at |-> k]]
               /\ \/ UNCHANGED got
                  \/ st = "running" /\ k \in DOMAIN order /\ Deliver(n, order[k])
  <2>1. i \in Nat
    BY DEF TypeOK
  <2> QED BY <1>1, <2>1 DEF EmitStates
<1>2. ASSUME emit' = [emit EXCEPT ![e] = [state |-> "done", seq |-> n, at |-> at]], UNCHANGED got
      PROVE  \E st \in EmitStates \ {"idle"}, k \in Nat :
               /\ emit' = [emit EXCEPT ![e] = [state |-> st, seq |-> n, at |-> k]]
               /\ \/ UNCHANGED got
                  \/ st = "running" /\ k \in DOMAIN order /\ Deliver(n, order[k])
  BY <1>2 DEF EmitStates
<1> QED BY <1>1, <1>2 DEF Visit

\* What is delivered is added to what a listener got.
LEMMA DeliverFacts ==
  ASSUME TypeOK, NEW n \in Nat, NEW s \in Subs, Deliver(n, s)
  PROVE  /\ got' \in [Subs -> Seq(Nat)]
         /\ \A t \in Subs \ {s} : got'[t] = got[t]
         /\ got'[s] = Append(got[s], n)
         /\ \A t \in Subs : Got(t) \subseteq Got(t)'
         /\ n \in Got(s)'
<1>1. got[s] \in Seq(Nat) /\ got'[s] = Append(got[s], n) /\ \A t \in Subs \ {s} : got'[t] = got[t]
  BY DEF TypeOK, Deliver
<1>2. got' \in [Subs -> Seq(Nat)]
  BY <1>1 DEF TypeOK, Deliver
<1>3. /\ \A i \in DOMAIN got[s] : i \in DOMAIN got'[s] /\ got'[s][i] = got[s][i]
      /\ Len(got[s]) + 1 \in DOMAIN got'[s] /\ got'[s][Len(got[s]) + 1] = n
  BY <1>1
<1>4. Got(s) \subseteq Got(s)' /\ n \in Got(s)'
  BY <1>3 DEF Got
<1>5. \A t \in Subs \ {s} : Got(t)' = Got(t)
  BY <1>1 DEF Got
<1> QED BY <1>1, <1>2, <1>4, <1>5

\* One visit of the loop of subscribe(): it registers the listener, is thrown out
\* of, or delivers the next event of the history.
LEMMA ReplayFacts ==
  ASSUME TypeOK, NEW s \in Subs, NEW from \in Nat, NEW at \in Nat, Replay(s, from, at)
  PROVE  \E st \in SubStates \ {"idle"}, i \in Nat :
           /\ sub' = [sub EXCEPT ![s] = [state |-> st, from |-> from, at |-> i]]
           /\ \/ /\ st = "open" /\ order' = Append(order, s) /\ live' = live \cup {s}
                 /\ NoNext(at, Len(history), ReplayStops(s, from))
                 /\ UNCHANGED got
              \/ st = "rejected" /\ UNCHANGED <<order, live, got>>
              \/ /\ st = "replaying" /\ UNCHANGED <<order, live>>
                 /\ i \in DOMAIN history
                 /\ IsNext(i, at, Len(history), ReplayStops(s, from))
                 /\ Deliver(history[i], s)
<1>1. \A i \in DOMAIN history : i \in Nat
  BY DEF TypeOK
<1> QED BY <1>1 DEF Replay, SubStates

\* The two actions that replay.
LEMMA ReplaySteps ==
  ASSUME TypeOK, NEW s \in Subs, ReplaySettles(s) \/ \E f \in Froms : Subscribe(s, f)
  PROVE  /\ UNCHANGED <<given, closed, nextSequence, history, emit>>
         /\ \/ sub[s].state = "idle" /\ \E f \in Nat : Replay(s, f, 0)
            \/ sub[s].state = "replaying" /\ Replay(s, sub[s].from, sub[s].at)
BY ConstantsAssumption DEF ReplaySettles, Subscribe

\* The two actions that deliver.
LEMMA VisitSteps ==
  ASSUME TypeOK, NEW e \in Emits, ListenerSettles(e) \/ \E g \in GivenSequences : Emit(e, g)
  PROVE  /\ UNCHANGED <<given, closed, order, live, sub>>
         /\ \/ /\ emit[e].state = "idle" /\ (awaited => \A f \in Emits : emit[f].state # "running")
               /\ \E n \in Nat : /\ n >= nextSequence /\ nextSequence' = n + 1
                                 /\ Store(n) /\ Visit(e, n, 0)
            \/ /\ emit[e].state = "running" /\ UNCHANGED <<nextSequence, history>>
               /\ Visit(e, emit[e].seq, emit[e].at)
BY SealedFacts DEF ListenerSettles, Emit

-----------------------------------------------------------------------------
LEMMA NextTypeOK == TypeOK /\ [Next]_vars => TypeOK'
<1> SUFFICES ASSUME TypeOK, [Next]_vars PROVE TypeOK'
  OBVIOUS
<1>1. ASSUME NEW e \in Emits, ListenerSettles(e) \/ \E g \in GivenSequences : Emit(e, g)
      PROVE  TypeOK'
  <2>1. PICK n \in Nat, at \in Nat : Visit(e, n, at)
    BY <1>1, VisitSteps DEF TypeOK
  <2>2. nextSequence' \in Nat \ {0} /\ history' \in Seq(Nat)
    <3>1. CASE UNCHANGED <<nextSequence, history>>
      BY <3>1 DEF TypeOK
    <3>2. ASSUME NEW m \in Nat, nextSequence' = m + 1, Store(m)
          PROVE  nextSequence' \in Nat \ {0} /\ history' \in Seq(Nat)
      BY <3>2, StoreFacts
    <3> QED BY <1>1, <3>1, <3>2, VisitSteps
  <2>3. PICK st \in EmitStates, i \in Nat :
          /\ emit' = [emit EXCEPT ![e] = [state |-> st, seq |-> n, at |-> i]]
          /\ UNCHANGED got \/ \E k \in DOMAIN order : Deliver(n, order[k])
    BY <2>1, VisitFacts
  <2>4. emit' \in [Emits -> [state : EmitStates, seq : Nat, at : Nat]]
    BY <2>3 DEF TypeOK
  <2>5. \A k \in DOMAIN order : order[k] \in Subs
    BY DEF TypeOK
  <2>6. got' \in [Subs -> Seq(Nat)]
    BY <2>3, <2>5, DeliverFacts DEF TypeOK
  <2> QED BY <1>1, <2>2, <2>4, <2>6, VisitSteps DEF TypeOK, given
<1>2. ASSUME NEW s \in Subs, ReplaySettles(s) \/ \E f \in Froms : Subscribe(s, f)
      PROVE  TypeOK'
  <2>1. PICK from \in Nat, at \in Nat : Replay(s, from, at)
    BY <1>2, ReplaySteps DEF TypeOK
  <2>2. PICK st \in SubStates, i \in Nat :
          /\ sub' = [sub EXCEPT ![s] = [state |-> st, from |-> from, at |-> i]]
          /\ UNCHANGED <<order, live>> \/ (order' = Append(order, s) /\ live' = live \cup {s})
          /\ UNCHANGED got \/ \E k \in DOMAIN history : Deliver(history[k], s)
    BY <2>1, ReplayFacts
  <2>3. sub' \in [Subs -> [state : SubStates, from : Nat, at : Nat]]
    BY <2>2 DEF TypeOK
  <2>4. order' \in Seq(Subs) /\ live' \in SUBSET Subs
    <3>1. order \in Seq(Subs) /\ live \in SUBSET Subs /\ Append(order, s) \in Seq(Subs)
      BY DEF TypeOK
    <3> QED BY <2>2, <3>1
  <2>5. \A k \in DOMAIN history : history[k] \in Nat
    BY DEF TypeOK
  <2>6. got' \in [Subs -> Seq(Nat)]
    BY <2>2, <2>5, DeliverFacts DEF TypeOK
  <2> QED BY <1>2, <2>3, <2>4, <2>6, ReplaySteps DEF TypeOK, given
<1>3. ASSUME NEW s \in Subs, Unsubscribe(s)
      PROVE  TypeOK'
  BY <1>3 DEF Unsubscribe, TypeOK, given
<1>4. CASE Close
  BY <1>4 DEF Close, TypeOK, given
<1>5. CASE UNCHANGED vars
  BY <1>5 DEF vars, TypeOK, given
<1> QED BY <1>1, <1>2, <1>3, <1>4, <1>5 DEF Next

LEMMA NextNumbered == NInv /\ [Next]_vars => NInv'
<1> SUFFICES ASSUME NInv, [Next]_vars PROVE NInv'
  OBVIOUS
<1>0. TypeOK /\ SequencesUnique /\ TypeOK'
  BY NextTypeOK DEF NInv
<1>1. ASSUME UNCHANGED <<nextSequence, emit>>
      PROVE  NInv'
  BY <1>0, <1>1 DEF NInv, SequencesUnique, Emitted
<1>2. ASSUME NEW e \in Emits, ListenerSettles(e) \/ \E g \in GivenSequences : Emit(e, g)
      PROVE  NInv'
  <2>1. PICK n \in Nat, at \in Nat :
          /\ Visit(e, n, at)
          /\ \/ emit[e].state = "idle" /\ n >= nextSequence /\ nextSequence' = n + 1
             \/ emit[e].state = "running" /\ n = emit[e].seq /\ UNCHANGED nextSequence
    BY <1>0, <1>2, VisitSteps DEF TypeOK
  <2>2. PICK st \in EmitStates \ {"idle"}, i \in Nat :
          emit' = [emit EXCEPT ![e] = [state |-> st, seq |-> n, at |-> i]]
    BY <1>0, <2>1, VisitFacts
  <2>3. emit'[e].seq = n /\ \A f \in Emits \ {e} : emit'[f] = emit[f]
    BY <1>0, <2>2 DEF TypeOK
  <2>4. \A f \in Emits : emit[f].state # "idle" =>
          1 <= emit[f].seq /\ emit[f].seq < nextSequence /\ emit[f].seq \in Nat
    BY <1>0 DEF SequencesUnique, Emitted, TypeOK
  <2>5. nextSequence \in Nat \ {0}
    BY <1>0 DEF TypeOK
  <2>6. \A f \in Emits : emit'[f].state # "idle" => 1 <= emit'[f].seq /\ emit'[f].seq < nextSequence'
    BY <2>1, <2>3, <2>4, <2>5
  <2>7. ASSUME NEW f \in Emits, NEW h \in Emits,
               emit'[f].state # "idle", emit'[f].seq = emit'[h].seq
        PROVE  f = h
    <3>1. \A k \in Emits : emit[k].seq \in Nat
      BY <1>0 DEF TypeOK
    <3>2. CASE n >= nextSequence
      <4>1. \A k \in Emits : emit[k].state # "idle" => emit[k].seq # n
        BY <2>4, <2>5, <3>2
      <4>2. f # e /\ h # e => f = h
        BY <1>0, <2>3, <2>7 DEF SequencesUnique
      <4>3. f # e /\ h = e => FALSE
        BY <2>3, <2>7, <4>1
      <4>4. f = e /\ h # e => FALSE
        BY <2>1, <2>3, <2>4, <2>5, <2>7, <3>2, <4>1 DEF NInv
      <4> QED BY <4>2, <4>3, <4>4
    <3>3. CASE emit[e].state = "running" /\ n = emit[e].seq
      BY <1>0, <2>3, <2>7, <3>3 DEF SequencesUnique
    <3> QED BY <2>1, <3>2, <3>3
  <2>8. SequencesUnique'
    BY <2>6, <2>7 DEF SequencesUnique, Emitted
  <2>9. \A f \in Emits : emit'[f].state = "idle" => emit'[f].seq = 0
    BY <1>0, <2>2, <2>3 DEF NInv, TypeOK
  <2> QED BY <1>0, <2>8, <2>9 DEF NInv
<1> QED BY <1>0, <1>1, <1>2, ReplaySteps DEF Next, Unsubscribe, Close, vars

-----------------------------------------------------------------------------
\* A visit adds to what is got, and leaves alone who has not subscribed.
LEMMA VisitGot ==
  ASSUME TypeOK, Registered, NEW e \in Emits, NEW n \in Nat, NEW at \in Nat, Visit(e, n, at)
  PROVE  /\ \A s \in Subs : Got(s) \subseteq Got(s)'
         /\ \A s \in Subs : sub[s].state = "idle" => got'[s] = got[s]
<1>1. CASE UNCHANGED got
  BY <1>1 DEF Got
<1>2. ASSUME NEW k \in DOMAIN order, Deliver(n, order[k])
      PROVE  /\ \A s \in Subs : Got(s) \subseteq Got(s)'
             /\ \A s \in Subs : sub[s].state = "idle" => got'[s] = got[s]
  <2>1. order[k] \in Subs /\ sub[order[k]].state = "open"
    BY DEF TypeOK, Registered
  <2> QED BY <1>2, <2>1, DeliverFacts
<1> QED BY <1>1, <1>2, VisitFacts

LEMMA VisitKeepsPlaces ==
  ASSUME NInv, Registered, Kept, Replayed,
         NEW e \in Emits, ListenerSettles(e) \/ \E g \in GivenSequences : Emit(e, g)
  PROVE  (Registered /\ Kept /\ Replayed)'
<1>0. TypeOK
  BY DEF NInv
<1>1. PICK n \in Nat, at \in Nat :
        /\ Visit(e, n, at) /\ at <= Len(order)
        /\ \/ Store(n)
           \/ emit[e].state = "running" /\ n = emit[e].seq /\ UNCHANGED history
  <2>1. 0 <= Len(order)
    BY <1>0 DEF TypeOK
  <2> QED BY <1>0, <2>1, VisitSteps DEF TypeOK, Registered
<1>2. UNCHANGED <<limit, order, live, sub>>
  BY <1>0, VisitSteps DEF given
<1>3. PICK st \in EmitStates \ {"idle"}, i \in Nat :
        emit' = [emit EXCEPT ![e] = [state |-> st, seq |-> n, at |-> i]] /\ i <= Len(order)
  <2>1. \A k \in DOMAIN order : k \in Nat /\ k <= Len(order)
    BY <1>0 DEF TypeOK
  <2> QED BY <1>1, <2>1 DEF Visit, EmitStates
<1>4. /\ \A s \in Subs : Got(s) \subseteq Got(s)'
      /\ \A s \in Subs : sub[s].state = "idle" => got'[s] = got[s]
  BY <1>0, <1>1, VisitGot
<1>5. Registered'
  BY <1>0, <1>2, <1>3, <1>4 DEF Registered, TypeOK
<1>6. Emitted' \subseteq Emitted \cup {n}
  BY <1>0, <1>3 DEF Emitted, TypeOK
<1>7. CASE Store(n)
  <2>1. limit = NoLimit => history' = Append(history, n)
    BY <1>0, <1>7, StoreFacts
  <2>2. /\ \A k \in DOMAIN history : k \in DOMAIN Append(history, n) /\ Append(history, n)[k] = history[k]
        /\ \A k \in DOMAIN Append(history, n) : k <= Len(history) => k \in DOMAIN history
        /\ Len(history) + 1 \in DOMAIN Append(history, n) /\ Append(history, n)[Len(history) + 1] = n
        /\ Len(Append(history, n)) = Len(history) + 1 /\ Len(history) \in Nat
        /\ DOMAIN Append(history, n) \subseteq Nat
    BY <1>0 DEF TypeOK
  <2>3. Kept'
    BY <1>2, <1>6, <2>1, <2>2 DEF Kept
  <2>4. \A s \in Subs : sub[s].at \in Nat
    BY <1>0 DEF TypeOK
  <2>5. Replayed'
    BY <1>2, <1>4, <2>1, <2>2, <2>4 DEF Replayed
  <2> QED BY <1>5, <2>3, <2>5
<1>8. CASE emit[e].state = "running" /\ n = emit[e].seq /\ UNCHANGED history
  <2>1. n \in Emitted
    BY <1>8 DEF Emitted
  <2>2. Kept'
    BY <1>2, <1>6, <1>8, <2>1 DEF Kept
  <2>3. Replayed'
    BY <1>2, <1>4, <1>8 DEF Replayed
  <2> QED BY <1>5, <2>2, <2>3
<1> QED BY <1>1, <1>7, <1>8

LEMMA VisitTells ==
  ASSUME NInv, Registered, Told,
         NEW e \in Emits, ListenerSettles(e) \/ \E g \in GivenSequences : Emit(e, g)
  PROVE  Told'
<1>0. TypeOK
  BY DEF NInv
<1>1. PICK n \in Nat, at \in Nat :
        /\ Visit(e, n, at)
        /\ \/ at = 0
           \/ emit[e].state = "running" /\ n = emit[e].seq /\ at = emit[e].at
  BY <1>0, VisitSteps DEF TypeOK
<1>2. UNCHANGED <<limit, order, live, sub>>
  BY <1>0, VisitSteps DEF given
<1>3. \A s \in Subs : Got(s) \subseteq Got(s)'
  BY <1>0, <1>1, VisitGot
<1>4. DOMAIN order \subseteq Nat \ {0} /\ \A k \in DOMAIN order : order[k] \in Subs /\ k <= Len(order)
  BY <1>0 DEF TypeOK
<1> SUFFICES ASSUME limit = NoLimit, NEW f \in Emits, NEW k \in DOMAIN order,
                    NEW r \in live, r = order[k], emit'[f].seq >= sub[r].from,
                    emit'[f].state = "done" \/ (emit'[f].state = "running" /\ k <= emit'[f].at)
             PROVE  emit'[f].seq \in Got(r)'
  BY <1>2 DEF Told, Matches, Got
<1> r \in Subs
  BY <1>4
<1>5. CASE f # e
  <2>1. emit'[f] = emit[f]
    BY <1>0, <1>1, <1>5, VisitFacts DEF TypeOK
  <2>2. emit[f].seq \in Got(r)
    BY <2>1 DEF Told, Matches
  <2>3. emit'[f].seq = emit[f].seq
    BY <1>4, <2>1
  <2> QED BY <1>3, <2>2, <2>3
<1>6. CASE f = e
  <2>1. emit'[e].seq = n
    <3>1. PICK st, i : emit' = [emit EXCEPT ![e] = [state |-> st, seq |-> n, at |-> i]]
      BY <1>0, <1>1, VisitFacts
    <3> QED BY <1>0, <3>1 DEF TypeOK
  <2>2. k \in Stops(n)
    BY <1>6, <2>1 DEF Stops, Matches
  <2>3. CASE k <= at
    <3>1. emit[e].state = "running" /\ n = emit[e].seq /\ k <= emit[e].at
      BY <1>1, <1>4, <2>3
    <3>2. n \in Got(r)
      BY <1>6, <2>1, <3>1 DEF Told, Matches
    <3> QED BY <1>3, <1>6, <2>1, <3>2
  <2>4. ASSUME at < k, NEW i \in DOMAIN order, IsNext(i, at, Len(order), Stops(n)),
               emit' = [emit EXCEPT ![e] = [state |-> "running", seq |-> n, at |-> i]],
               Deliver(n, order[i])
        PROVE  n \in Got(r)'
    <3>1. i <= k
      BY <2>2, <2>4 DEF IsNext
    <3>2. k <= i
      BY <1>0, <1>6, <2>4 DEF TypeOK
    <3>3. i = k
      BY <1>4, <3>1, <3>2
    <3>4. Deliver(n, r)
      BY <1>4, <2>4, <3>3
    <3> QED BY <1>0, <3>4, DeliverFacts
  <2>5. ASSUME NEW i, emit' = [emit EXCEPT ![e] = [state |-> "rejected", seq |-> n, at |-> i]]
        PROVE  FALSE
    BY <1>0, <1>6, <2>5 DEF TypeOK
  <2>6. ASSUME at < k, NoNext(at, Len(order), Stops(n))
        PROVE  FALSE
    BY <1>4, <2>2, <2>6 DEF NoNext
  <2>7. CASE at < k
    BY <1>1, <1>6, <2>1, <2>4, <2>5, <2>6, <2>7 DEF Visit
  <2> QED BY <1>1, <1>4, <2>3, <2>7
<1> QED BY <1>5, <1>6

-----------------------------------------------------------------------------
LEMMA ReplayStepsKeep ==
  ASSUME DInv, NEW s \in Subs, ReplaySettles(s) \/ \E f \in Froms : Subscribe(s, f)
  PROVE  (Registered /\ Kept /\ Replayed /\ Told)'
<1>0. TypeOK /\ Registered /\ Kept /\ Replayed /\ Told
  BY DEF DInv, NInv
<1>1. UNCHANGED <<limit, history, emit>>
  BY <1>0, ReplaySteps DEF given
<1>2. PICK from \in Nat, at \in Nat :
        /\ Replay(s, from, at)
        /\ \/ sub[s].state = "idle" /\ at = 0
           \/ sub[s].state = "replaying" /\ from = sub[s].from /\ at = sub[s].at
  BY <1>0, ReplaySteps DEF TypeOK
<1>3. PICK st \in SubStates \ {"idle"}, i \in Nat :
        /\ sub' = [sub EXCEPT ![s] = [state |-> st, from |-> from, at |-> i]]
        /\ \/ /\ st = "open" /\ order' = Append(order, s) /\ live' = live \cup {s}
              /\ NoNext(at, Len(history), ReplayStops(s, from))
              /\ UNCHANGED got
           \/ st = "rejected" /\ UNCHANGED <<order, live, got>>
           \/ /\ st = "replaying" /\ UNCHANGED <<order, live>>
              /\ i \in DOMAIN history
              /\ IsNext(i, at, Len(history), ReplayStops(s, from))
              /\ Deliver(history[i], s)
  BY <1>0, <1>2, ReplayFacts
<1>4. /\ sub'[s] = [state |-> st, from |-> from, at |-> i]
      /\ \A t \in Subs \ {s} : sub'[t] = sub[t]
  BY <1>0, <1>3 DEF TypeOK
<1>5. \A k \in DOMAIN order : order[k] \in Subs \ {s} /\ k \in 1 .. Len(order)
  <2>1. \A k \in DOMAIN order : order[k] \in Subs /\ k \in 1 .. Len(order)
    BY <1>0 DEF TypeOK
  <2>2. sub[s].state # "open"
    BY <1>2
  <2> QED BY <1>0, <2>1, <2>2 DEF Registered
<1>6. DOMAIN history \subseteq Nat \ {0} /\ \A k \in DOMAIN history : history[k] \in Nat /\ k <= Len(history)
  BY <1>0 DEF TypeOK
<1>7. /\ \A t \in Subs : Got(t) \subseteq Got(t)'
      /\ \A t \in Subs \ {s} : got'[t] = got[t]
  <2>1. CASE UNCHANGED got
    BY <2>1 DEF Got
  <2>2. ASSUME i \in DOMAIN history, Deliver(history[i], s)
        PROVE  /\ \A t \in Subs : Got(t) \subseteq Got(t)'
               /\ \A t \in Subs \ {s} : got'[t] = got[t]
    BY <1>0, <1>6, <2>2, DeliverFacts
  <2> QED BY <1>3, <2>1, <2>2
<1>8. /\ \A k \in DOMAIN order : k \in DOMAIN order' /\ order'[k] = order[k]
      /\ \A k \in DOMAIN order' : k \in DOMAIN order \/ (st = "open" /\ k = Len(order) + 1 /\ order'[k] = s)
      /\ st = "open" => Len(order) + 1 \in DOMAIN order' /\ order'[Len(order) + 1] = s
      /\ Len(order) <= Len(order')
  <2>1. order \in Seq(Subs) /\ Len(order) \in Nat
    BY <1>0 DEF TypeOK
  <2>2. CASE st = "open" /\ order' = Append(order, s)
    BY <2>1, <2>2
  <2>3. CASE st # "open" /\ order' = order
    BY <2>1, <2>3
  <2> QED BY <1>3, <2>2, <2>3
<1>9. live' \subseteq live \cup {s} /\ (st # "open" => live' = live)
  BY <1>3
<1>10. Kept'
  BY <1>0, <1>1 DEF Kept, Emitted
<1>11. Registered'
  <2>1. \A e \in Emits : emit'[e].at <= Len(order')
    <3>1. Len(order) \in Nat /\ Len(order') \in Nat /\ \A e \in Emits : emit[e].at \in Nat /\ emit[e].at <= Len(order)
      BY <1>0, <1>3 DEF TypeOK, Registered
    <3> QED BY <1>1, <1>8, <3>1
  <2>2. \A k \in DOMAIN order' : sub'[order'[k]].state = "open"
    BY <1>0, <1>4, <1>5, <1>8 DEF Registered
  <2>3. \A t \in live' : \E k \in DOMAIN order' : order'[k] = t
    BY <1>0, <1>8, <1>3 DEF Registered
  <2>4. \A t \in Subs : sub'[t].state = "idle" => got'[t] = << >>
    BY <1>0, <1>4, <1>7 DEF Registered
  <2> QED BY <2>1, <2>2, <2>3, <2>4 DEF Registered
\* The history up to where the replay has come.
<1>12. ASSUME limit = NoLimit, NEW j \in DOMAIN history, j <= at, history[j] >= from
       PROVE  history[j] \in Got(s)
  BY <1>0, <1>2, <1>6, <1>12 DEF Replayed
<1>13. Replayed'
  <2> SUFFICES ASSUME limit = NoLimit, NEW t \in Subs, sub'[t].state = "replaying"
               PROVE  /\ sub'[t].at <= Len(history)
                      /\ \A j \in DOMAIN history :
                           j <= sub'[t].at /\ history[j] >= sub'[t].from => history[j] \in Got(t)'
    BY <1>1 DEF Replayed, Got
  <2>1. CASE t # s
    BY <1>0, <1>4, <1>7, <2>1 DEF Replayed
  <2>2. CASE t = s
    <3>1. /\ st = "replaying" /\ i \in DOMAIN history
          /\ IsNext(i, at, Len(history), ReplayStops(s, from)) /\ Deliver(history[i], s)
      BY <1>3, <1>4, <2>2
    <3>2. history[i] \in Got(s)'
      BY <1>0, <1>6, <3>1, DeliverFacts
    <3>3. ASSUME NEW j \in DOMAIN history, j <= i, history[j] >= from
          PROVE  history[j] \in Got(s)'
      <4>1. CASE j <= at
        BY <1>7, <1>12, <3>3, <4>1
      <4>2. CASE at < j
        <5>1. i <= j
          BY <3>1, <3>3, <4>2 DEF IsNext, ReplayStops
        <5> QED BY <1>6, <3>2, <3>3, <5>1
      <4> QED BY <1>6, <4>1, <4>2
    <3> QED BY <1>4, <1>6, <2>2, <3>1, <3>3
  <2> QED BY <2>1, <2>2
<1>14. Told'
  <2> SUFFICES ASSUME limit = NoLimit, NEW e \in Emits, NEW k \in DOMAIN order',
                      NEW r \in live', r = order'[k], emit[e].seq >= sub'[r].from,
                      emit[e].state = "done" \/ (emit[e].state = "running" /\ k <= emit[e].at)
               PROVE  emit[e].seq \in Got(r)'
    BY <1>1 DEF Told, Matches, Got
  <2>1. CASE k \in DOMAIN order
    <3>1. r = order[k] /\ r \in Subs \ {s} /\ r \in live /\ sub'[r] = sub[r]
      BY <1>4, <1>5, <1>8, <1>9, <2>1
    <3>2. emit[e].seq \in Got(r)
      BY <1>0, <2>1, <3>1 DEF Told, Matches
    <3> QED BY <1>7, <3>1, <3>2
  <2>2. CASE st = "open" /\ k = Len(order) + 1 /\ order'[k] = s
    <3>1. emit[e].state # "running" \/ ~ (k <= emit[e].at)
      BY <1>0, <2>2 DEF Registered, TypeOK
    <3>2. PICK j \in DOMAIN history : history[j] = emit[e].seq
      BY <1>0 DEF Kept, Emitted
    <3>3. history[j] >= from /\ j \in ReplayStops(s, from)
      BY <1>4, <2>2, <3>2 DEF ReplayStops
    <3>4. ~ (at < j)
      BY <1>3, <1>6, <2>2, <3>3 DEF NoNext
    <3>5. history[j] \in Got(s)
      BY <1>6, <1>12, <3>3, <3>4
    <3> QED BY <1>7, <2>2, <3>2, <3>5
  <2> QED BY <1>8, <2>1, <2>2
<1> QED BY <1>10, <1>11, <1>13, <1>14

LEMMA InitDInv == Init => DInv
<1> SUFFICES ASSUME Init PROVE DInv
  OBVIOUS
<1>1. TypeOK
  <2>1. emit \in [Emits -> [state : EmitStates, seq : Nat, at : Nat]]
    BY DEF Init, EmitStates
  <2>2. sub \in [Subs -> [state : SubStates, from : Nat, at : Nat]]
    BY DEF Init, SubStates
  <2>3. got \in [Subs -> Seq(Nat)] /\ history \in Seq(Nat) /\ order \in Seq(Subs)
    BY DEF Init
  <2>4. limit \in Limits /\ awaited \in BOOLEAN /\ closed \in BOOLEAN
    BY Zenon DEF Init
  <2>5. nextSequence \in Nat \ {0} /\ live \in SUBSET Subs
    BY DEF Init
  <2> QED BY <2>1, <2>2, <2>3, <2>4, <2>5 DEF TypeOK
<1>2. NInv
  BY <1>1 DEF Init, NInv, SequencesUnique, Emitted
<1>3. Registered /\ Kept /\ Replayed /\ Told
  BY DEF Init, Registered, Kept, Replayed, Told, Emitted
<1> QED BY <1>2, <1>3 DEF DInv

LEMMA NextDInv == DInv /\ [Next]_vars => DInv'
<1> SUFFICES ASSUME DInv, [Next]_vars PROVE DInv'
  OBVIOUS
<1>1. NInv'
  BY NextNumbered DEF DInv
<1>2. ASSUME NEW e \in Emits, ListenerSettles(e) \/ \E g \in GivenSequences : Emit(e, g)
      PROVE  DInv'
  BY <1>1, <1>2, VisitKeepsPlaces, VisitTells DEF DInv
<1>3. ASSUME NEW s \in Subs, ReplaySettles(s) \/ \E f \in Froms : Subscribe(s, f)
      PROVE  DInv'
  BY <1>1, <1>3, ReplayStepsKeep DEF DInv
<1>4. ASSUME UNCHANGED <<limit, history, order, emit, sub, got>>, live' \subseteq live
      PROVE  DInv'
  BY <1>1, <1>4 DEF DInv, Registered, Kept, Replayed, Told, Matches, Emitted, Got
<1>5. ASSUME NEW s \in Subs, Unsubscribe(s)
      PROVE  DInv'
  BY <1>4, <1>5 DEF Unsubscribe, given
<1>6. CASE Close
  BY <1>4, <1>6 DEF Close, given
<1>7. CASE UNCHANGED vars
  BY <1>4, <1>7 DEF vars, given
<1> QED BY <1>2, <1>3, <1>5, <1>6, <1>7 DEF Next

LEMMA DInvReaches == DInv => EventsReach
<1> SUFFICES ASSUME DInv PROVE NothingMissed
  BY DEF EventsReach, DInv, NInv
<1> SUFFICES ASSUME limit = NoLimit, NEW s \in live, NEW e \in Emits,
                    emit[e].state = "done", Matches(emit[e].seq, s)
             PROVE  emit[e].seq \in Got(s)
  BY DEF NothingMissed, Got
<1>1. PICK i \in DOMAIN order : order[i] = s
  BY DEF DInv, Registered
<1> QED BY <1>1 DEF DInv, Told

\* Whatever subscribers do between the awaits, numbers are unique, and a live
\* subscriber of a stream without a history limit has got every event it asked for
\* whose emit() has returned.
THEOREM EventsAlwaysReach == Spec => []EventsReach
BY InitDInv, NextDInv, DInvReaches, PTL DEF Spec

-----------------------------------------------------------------------------
(***************************************************************************)
(* Order, when callers await each emit()                                   *)
(***************************************************************************)
\* One event at a time is under way, and it is the latest.
OneAtATime ==
  \A e, f \in Emits : emit[e].state = "running" =>
    emit[e].seq + 1 = nextSequence /\ (emit[f].state = "running" => e = f)

\* The history grows, and nobody has got what is not emitted.
Growing ==
  /\ \A j, k \in DOMAIN history : j < k => history[j] < history[k]
  /\ \A j \in DOMAIN history : history[j] < nextSequence
  /\ \A s \in Subs : \A i \in DOMAIN got[s] : got[s][i] < nextSequence

\* What a replay has not come to is no earlier than what it has delivered, also
\* when the history loses its beginning under it.
Ahead ==
  \A s \in Subs : sub[s].state = "replaying" =>
    \A i \in DOMAIN got[s] : \A j \in DOMAIN history :
      sub[s].at < j => got[s][i] <= history[j]

Sorted == \A s \in Subs : \A i, j \in DOMAIN got[s] : i < j => got[s][i] <= got[s][j]

OInv == DInv /\ (awaited => OneAtATime /\ Growing /\ Ahead /\ Sorted)

LEMMA AppendInOrder ==
  ASSUME NEW q \in Seq(Nat), NEW n \in Nat,
         \A i, j \in DOMAIN q : i < j => q[i] <= q[j],
         \A i \in DOMAIN q : q[i] <= n
  PROVE  /\ \A i, j \in DOMAIN Append(q, n) : i < j => Append(q, n)[i] <= Append(q, n)[j]
         /\ \A i \in DOMAIN Append(q, n) : Append(q, n)[i] <= n
<1>1. /\ DOMAIN q = 1 .. Len(q) /\ Len(q) \in Nat
      /\ DOMAIN Append(q, n) = 1 .. Len(q) + 1
      /\ \A i \in 1 .. Len(q) : Append(q, n)[i] = q[i] /\ q[i] \in Nat
      /\ Append(q, n)[Len(q) + 1] = n
  OBVIOUS
<1> QED BY <1>1

\* Delivering an event that is not earlier than what was got keeps the order.
LEMMA DeliverInOrder ==
  ASSUME TypeOK, Sorted, NEW n \in Nat, NEW s \in Subs, Deliver(n, s),
         \A i \in DOMAIN got[s] : got[s][i] <= n
  PROVE  /\ Sorted'
         /\ \A i \in DOMAIN got'[s] : got'[s][i] <= n
<1>1. /\ \A t \in Subs \ {s} : got'[t] = got[t]
      /\ got'[s] = Append(got[s], n)
      /\ got[s] \in Seq(Nat)
  BY DeliverFacts DEF TypeOK
<1>2. /\ \A i, j \in DOMAIN got'[s] : i < j => got'[s][i] <= got'[s][j]
      /\ \A i \in DOMAIN got'[s] : got'[s][i] <= n
  BY <1>1, AppendInOrder DEF Sorted
<1> QED BY <1>1, <1>2 DEF Sorted

\* What store() pushes is later than what is in the history.
LEMMA StoreGrows ==
  ASSUME TypeOK, Growing, NEW n \in Nat, n >= nextSequence, Store(n)
  PROVE  /\ \A j, k \in DOMAIN history' : j < k => history'[j] < history'[k]
         /\ \A j \in DOMAIN history' : history'[j] < n + 1
         /\ \A j \in DOMAIN history' :
              (j \in DOMAIN history /\ history'[j] >= history[j]) \/ history'[j] = n
<1> DEFINE all == Append(history, n)
<1>1. /\ Len(history) \in Nat /\ nextSequence \in Nat
      /\ DOMAIN history = 1 .. Len(history) /\ DOMAIN all = 1 .. Len(history) + 1
      /\ \A j \in 1 .. Len(history) : all[j] = history[j] /\ history[j] \in Nat
      /\ all[Len(history) + 1] = n
  BY DEF TypeOK
<1>2. \A j \in 1 .. Len(history) : history[j] < n
  BY <1>1 DEF Growing
<1>3. \A j, k \in 1 .. Len(history) : j < k => history[j] < history[k]
  BY <1>1 DEF Growing
<1>4. /\ \A j, k \in 1 .. Len(history) + 1 : j < k => all[j] < all[k]
      /\ \A j \in 1 .. Len(history) + 1 : all[j] <= n /\ all[j] \in Nat
  BY <1>1, <1>2, <1>3
<1> HIDE DEF all
<1>5. CASE history' = all
  BY <1>1, <1>4, <1>5
<1>6. ASSUME NEW d \in Nat \ {0}, d <= Len(history) + 1,
             Len(history') = Len(history) + 1 - d,
             \A i \in 1 .. Len(history') : history'[i] = all[d + i]
      PROVE  /\ \A j, k \in DOMAIN history' : j < k => history'[j] < history'[k]
             /\ \A j \in DOMAIN history' : history'[j] < n + 1
             /\ \A j \in DOMAIN history' :
                  (j \in DOMAIN history /\ history'[j] >= history[j]) \/ history'[j] = n
  <2>1. DOMAIN history' = 1 .. Len(history')
    BY StoreFacts
  <2>2. \A j \in 1 .. Len(history') : d + j \in 1 .. Len(history) + 1 /\ j \in 1 .. Len(history) /\ j < d + j
    BY <1>1, <1>6
  <2>3. \A j, k \in 1 .. Len(history') : j < k => history'[j] < history'[k]
    <3> SUFFICES ASSUME NEW j \in 1 .. Len(history'), NEW k \in 1 .. Len(history'), j < k
                 PROVE  all[d + j] < all[d + k]
      BY <1>6
    <3>1. d + j < d + k
      BY <2>2
    <3> QED BY <1>4, <2>2, <3>1
  <2>4. \A j \in 1 .. Len(history') : history'[j] < n + 1
    BY <1>4, <1>6, <2>2
  <2>5. \A j \in 1 .. Len(history') : all[j] < all[d + j] /\ all[j] = history[j]
    <3> SUFFICES ASSUME NEW j \in 1 .. Len(history')
                 PROVE  all[j] < all[d + j] /\ all[j] = history[j]
      OBVIOUS
    <3>1. j \in 1 .. Len(history) + 1
      BY <1>1, <2>2
    <3> QED BY <1>1, <1>4, <2>2, <3>1
  <2>6. \A j \in 1 .. Len(history') : j \in DOMAIN history /\ history'[j] >= history[j]
    BY <1>1, <1>4, <1>6, <2>2, <2>5
  <2> QED BY <2>1, <2>3, <2>4, <2>6
<1> QED BY <1>5, <1>6, StoreFacts DEF all

LEMMA VisitInOrder ==
  ASSUME OInv, awaited,
         NEW e \in Emits, ListenerSettles(e) \/ \E g \in GivenSequences : Emit(e, g)
  PROVE  (OneAtATime /\ Growing /\ Ahead /\ Sorted)'
<1>0. /\ TypeOK /\ TypeOK' /\ Registered /\ SequencesUnique
      /\ OneAtATime /\ Growing /\ Ahead /\ Sorted
  <2>1. [Next]_vars
    BY DEF Next
  <2> QED BY <2>1, NextTypeOK DEF OInv, DInv, NInv
<1>1. PICK n \in Nat, at \in Nat :
        /\ Visit(e, n, at)
        /\ nextSequence' = n + 1
        /\ \/ /\ n >= nextSequence /\ Store(n)
              /\ \A f \in Emits : emit[f].state # "running"
           \/ /\ emit[e].state = "running" /\ nextSequence = n + 1 /\ UNCHANGED history
              /\ \A f \in Emits \ {e} : emit[f].state # "running"
  <2>1. \A k \in Emits : emit[k].seq \in Nat
    BY <1>0 DEF TypeOK
  <2> QED BY <1>0, <2>1, VisitSteps DEF TypeOK, OneAtATime
<1>2. UNCHANGED sub
  BY <1>0, VisitSteps
<1>3. PICK st \in EmitStates \ {"idle"}, i \in Nat :
        /\ emit' = [emit EXCEPT ![e] = [state |-> st, seq |-> n, at |-> i]]
        /\ UNCHANGED got \/ (i \in DOMAIN order /\ Deliver(n, order[i]))
  BY <1>0, <1>1, VisitFacts
<1>4. /\ emit'[e] = [state |-> st, seq |-> n, at |-> i]
      /\ \A f \in Emits \ {e} : emit'[f] = emit[f]
  BY <1>0, <1>3 DEF TypeOK
<1>5. OneAtATime'
  BY <1>1, <1>4 DEF OneAtATime
<1>6. \A s \in Subs : \A k \in DOMAIN got[s] : got[s][k] \in Nat /\ got[s][k] <= n
  <2>1. /\ \A s \in Subs : \A k \in DOMAIN got[s] : got[s][k] \in Nat /\ got[s][k] < nextSequence
        /\ nextSequence \in Nat
    <3>1. \A s \in Subs : got[s] \in Seq(Nat)
      BY <1>0 DEF TypeOK
    <3>2. \A s \in Subs : \A k \in DOMAIN got[s] : got[s][k] \in Nat
      BY <3>1
    <3> QED BY <1>0, <3>2 DEF TypeOK, Growing
  <2> QED BY <1>1, <2>1
<1>7. /\ Sorted'
      /\ \A s \in Subs : \A k \in DOMAIN got'[s] : got'[s][k] < n + 1
      /\ \A s \in Subs : sub[s].state = "replaying" => got'[s] = got[s]
  <2>1. CASE UNCHANGED got
    BY <1>0, <1>6, <2>1 DEF Sorted
  <2>2. CASE i \in DOMAIN order /\ Deliver(n, order[i])
    <3>1. order[i] \in Subs /\ sub[order[i]].state = "open"
      BY <1>0, <2>2 DEF TypeOK, Registered
    <3>2. PICK r \in Subs : r = order[i] /\ Deliver(n, r) /\ sub[r].state = "open"
      BY <2>2, <3>1
    <3>3. Sorted' /\ \A k \in DOMAIN got'[r] : got'[r][k] <= n
      BY <1>0, <1>6, <3>2, DeliverInOrder
    <3>4. \A t \in Subs \ {r} : got'[t] = got[t]
      BY <1>0, <3>2, DeliverFacts
    <3>5. \A k \in DOMAIN got'[r] : got'[r][k] \in Nat
      BY <1>0 DEF TypeOK
    <3> QED BY <1>6, <3>2, <3>3, <3>4, <3>5
  <2> QED BY <1>3, <2>1, <2>2
<1>8. /\ \A j, k \in DOMAIN history' : j < k => history'[j] < history'[k]
      /\ \A j \in DOMAIN history' : history'[j] < n + 1
      /\ \A j \in DOMAIN history' :
           (j \in DOMAIN history /\ history'[j] >= history[j]) \/ history'[j] = n
  <2>1. CASE n >= nextSequence /\ Store(n)
    BY <1>0, <2>1, StoreGrows
  <2>2. CASE nextSequence = n + 1 /\ UNCHANGED history
    BY <1>0, <2>2 DEF Growing, TypeOK
  <2> QED BY <1>1, <2>1, <2>2
<1>9. Growing'
  BY <1>1, <1>7, <1>8 DEF Growing
<1>10. Ahead'
  <2> SUFFICES ASSUME NEW s \in Subs, sub[s].state = "replaying",
                      NEW k \in DOMAIN got[s], NEW j \in DOMAIN history', sub[s].at < j
               PROVE  got[s][k] <= history'[j]
    BY <1>2, <1>7 DEF Ahead
  <2>1. CASE history'[j] = n
    BY <1>6, <2>1
  <2>2. CASE j \in DOMAIN history /\ history'[j] >= history[j]
    <3>1. got[s][k] <= history[j] /\ got[s][k] \in Nat /\ history[j] \in Nat /\ history'[j] \in Nat
      <4>1. history \in Seq(Nat) /\ history' \in Seq(Nat)
        BY <1>0 DEF TypeOK
      <4>2. history[j] \in Nat /\ history'[j] \in Nat
        BY <2>2, <4>1
      <4> QED BY <1>0, <1>6, <2>2, <4>2 DEF Ahead
    <3> QED BY <2>2, <3>1
  <2> QED BY <1>8, <2>1, <2>2
<1> QED BY <1>5, <1>7, <1>9, <1>10

LEMMA ReplayInOrder ==
  ASSUME OInv, awaited,
         NEW s \in Subs, ReplaySettles(s) \/ \E f \in Froms : Subscribe(s, f)
  PROVE  (OneAtATime /\ Growing /\ Ahead /\ Sorted)'
<1>0. /\ TypeOK /\ Registered /\ OneAtATime /\ Growing /\ Ahead /\ Sorted
  BY DEF OInv, DInv, NInv
<1>1. UNCHANGED <<nextSequence, history, emit>>
  BY <1>0, ReplaySteps
<1>2. PICK from \in Nat, at \in Nat :
        /\ Replay(s, from, at)
        /\ sub[s].state = "idle" \/ (sub[s].state = "replaying" /\ at = sub[s].at)
  BY <1>0, ReplaySteps DEF TypeOK
<1>3. PICK st \in SubStates \ {"idle"}, i \in Nat :
        /\ sub' = [sub EXCEPT ![s] = [state |-> st, from |-> from, at |-> i]]
        /\ \/ st # "replaying" /\ UNCHANGED got
           \/ i \in DOMAIN history /\ at < i /\ Deliver(history[i], s)
  BY <1>0, <1>2, ReplayFacts DEF IsNext
<1>4. /\ sub'[s] = [state |-> st, from |-> from, at |-> i]
      /\ \A t \in Subs \ {s} : sub'[t] = sub[t]
  BY <1>0, <1>3 DEF TypeOK
<1>5. OneAtATime'
  BY <1>0, <1>1 DEF OneAtATime
<1>6. CASE st # "replaying" /\ UNCHANGED got
  BY <1>0, <1>1, <1>4, <1>5, <1>6 DEF Growing, Ahead, Sorted
<1>7. CASE i \in DOMAIN history /\ at < i /\ Deliver(history[i], s)
  <2>1. \A k \in DOMAIN got[s] : got[s][k] <= history[i]
    <3>1. CASE sub[s].state = "idle"
      BY <1>0, <3>1 DEF Registered
    <3>2. CASE sub[s].state = "replaying" /\ at = sub[s].at
      BY <1>0, <1>7, <3>2 DEF Ahead
    <3> QED BY <1>2, <3>1, <3>2
  <2>2. /\ DOMAIN history \subseteq Nat /\ nextSequence \in Nat
        /\ \A j \in DOMAIN history : history[j] \in Nat
    BY <1>0 DEF TypeOK
  <2>3. Sorted' /\ \A k \in DOMAIN got'[s] : got'[s][k] <= history[i]
    BY <1>0, <1>7, <2>1, <2>2, DeliverInOrder
  <2>4. /\ \A t \in Subs \ {s} : got'[t] = got[t]
        /\ \A k \in DOMAIN got'[s] : got'[s][k] \in Nat
    BY <1>0, <1>7, <2>2, DeliverFacts
  <2>5. \A j \in DOMAIN history : history[j] < nextSequence /\ (i < j => history[i] < history[j])
    BY <1>0, <1>7 DEF Growing
  <2>6. Growing'
    BY <1>0, <1>1, <1>7, <2>2, <2>3, <2>4, <2>5 DEF Growing
  <2>7. \A k \in DOMAIN got'[s], j \in DOMAIN history : i < j => got'[s][k] <= history[j]
    BY <1>7, <2>2, <2>3, <2>4, <2>5
  <2>8. Ahead'
    BY <1>0, <1>1, <1>4, <2>4, <2>7 DEF Ahead
  <2> QED BY <1>5, <2>3, <2>6, <2>8
<1> QED BY <1>3, <1>6, <1>7

LEMMA InitOInv == Init => OInv
BY InitDInv DEF Init, OInv, OneAtATime, Growing, Ahead, Sorted

LEMMA NextOInv == OInv /\ [Next]_vars => OInv'
<1> SUFFICES ASSUME OInv, [Next]_vars PROVE OInv'
  OBVIOUS
<1>1. DInv' /\ TypeOK
  BY NextDInv DEF OInv, DInv, NInv
<1>2. ASSUME NEW e \in Emits, ListenerSettles(e) \/ \E g \in GivenSequences : Emit(e, g)
      PROVE  OInv'
  BY <1>1, <1>2, VisitInOrder, VisitSteps DEF OInv, given
<1>3. ASSUME NEW s \in Subs, ReplaySettles(s) \/ \E f \in Froms : Subscribe(s, f)
      PROVE  OInv'
  BY <1>1, <1>3, ReplayInOrder, ReplaySteps DEF OInv, given
<1>4. ASSUME UNCHANGED <<awaited, nextSequence, history, emit, sub, got>>
      PROVE  OInv'
  BY <1>1, <1>4 DEF OInv, OneAtATime, Growing, Ahead, Sorted
<1>5. ASSUME NEW s \in Subs, Unsubscribe(s)
      PROVE  OInv'
  BY <1>4, <1>5 DEF Unsubscribe, given
<1>6. CASE Close
  BY <1>4, <1>6 DEF Close, given
<1>7. CASE UNCHANGED vars
  BY <1>4, <1>7 DEF vars, given
<1> QED BY <1>2, <1>3, <1>5, <1>6, <1>7 DEF Next

\* If callers await each emit(), nobody ever gets an event after a later one,
\* whatever replays run at the same time and however short the history is.
THEOREM AlwaysInOrder == Spec => []InOrderWhenAwaited
<1>1. OInv => InOrderWhenAwaited
  BY DEF OInv, Sorted, InOrderWhenAwaited
<1> QED BY <1>1, InitOInv, NextOInv, PTL DEF Spec
=============================================================================
