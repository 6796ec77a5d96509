----------------------------- MODULE HarnessProofs -----------------------------
(***************************************************************************)
(* Proofs about the agent harness.                                         *)
(*                                                                         *)
(* HarnessRun, for every number of parallel role sessions, of turns, of Pi *)
(* events and of artifacts, and for all that may throw: a session's part   *)
(* of the invariant (Sound) is about where its run stands: what its log    *)
(* may hold there, when its forwarder is drained and what is known of its  *)
(* turns.  Joined says how role sessions stand to the root: none before    *)
(* the root prompts, all at rest once it does no more.                     *)
(*                                                                         *)
(* HarnessRules, for every input that may be asked: filter() is a run of   *)
(* states (Keeps) after which each element kept has a place of its own in  *)
(* what was filtered, in order (Picks); the Codex queue is one too, with   *)
(* an invariant of each operation (FieldsHold).                            *)
(***************************************************************************)
EXTENDS HarnessRun, HarnessPromises, SequenceTheorems, FiniteSetTheorems, TLAPS

Phases == {"idle", "create", "submit", "prompting", "stop", "fail", "ended", "settled"}
Events == {"run.created", "session.created", "run.started", "session.started", "pi", "artifact.created"} \cup Ends
Results == {"none", "cancelled", "deadline_exceeded", "unstarted", "threw", "succeeded", "failed"}

TypeOK ==
  /\ pc \in [Sessions -> Phases]
  /\ mode \in Modes
  /\ aborted \in BOOLEAN
  /\ timer \in {"none", "unset", "elapsed", "armed", "fired", "cleared"}
  /\ log \in [Sessions -> Seq(Events)]
  /\ queued \in [Sessions -> Nat]
  /\ turn \in [Sessions -> Nat]
  /\ stop \in [Sessions -> {"none", "completed", "failed"}]
  /\ handoff \in [Handoffs -> {"none", "accepted", "completed", "failed"}]
  /\ written \in Nat
  /\ result \in [Sessions -> Results]

Completed(l) == "run.completed" \in {l[i] : i \in DOMAIN l}

Sound(s) ==
  /\ pc[s] \in {"idle", "create"} => log[s] = <<>>
  /\ pc[s] \notin {"prompting", "stop", "fail"} => queued[s] = 0
  /\ result[s] # "none" => pc[s] = "settled"
  /\ pc[s] \in {"prompting", "stop"} => turn[s] >= 1
  /\ pc[s] = "stop" => mode = "single-turn" \/ stop[s] # "none"
  /\ mode = "stop-tool-loop" => turn[s] <= MaxTurns
  /\ pc[s] \notin {"ended", "settled"} => EndsIn(log[s]) = {}
  /\ pc[s] = "ended" \/ result[s] \in {"succeeded", "failed"} => EndsIn(log[s]) # {}
  /\ EndsIn(log[s]) # {} => EndedOnce(log[s])
  /\ Completed(log[s]) => turn[s] >= 1 /\ (mode = "single-turn" \/ stop[s] = "completed")

\* Role sessions and their handoffs, seen from the root.
Joined(h) ==
  /\ pc[h] = "idle" <=> handoff[h] = "none"
  /\ handoff[h] = "accepted" /\ pc[h] = "settled" => result[h] = "threw" /\ log[h] = <<>>
  /\ handoff[h] \in {"completed", "failed"} =>
       pc[h] = "settled" /\ Outcome(h) = (IF handoff[h] = "completed" THEN "succeeded" ELSE "failed")
  /\ pc[Root] \in {"idle", "create", "submit"} => pc[h] = "idle"
  /\ pc[Root] \in {"stop", "fail", "ended", "settled"} => pc[h] \in {"idle", "settled"}

Timed == timer = "armed" => \/ pc[Root] \in {"create", "submit", "prompting", "stop", "fail"}
                            \/ pc[Root] = "settled" /\ result[Root] = "unstarted"

HInv == TypeOK /\ (\A s \in Sessions : Sound(s)) /\ (\A h \in Handoffs : Joined(h)) /\ Timed

-----------------------------------------------------------------------------
(***************************************************************************)
(* Logs                                                                    *)
(***************************************************************************)
LEMMA Concatenated ==
  ASSUME NEW l \in Seq(Events), NEW m \in Seq(Events)
  PROVE  /\ l \o m \in Seq(Events) /\ Len(l \o m) = Len(l) + Len(m)
         /\ Len(l) \in Nat /\ Len(m) \in Nat
         /\ DOMAIN l = 1 .. Len(l) /\ DOMAIN (l \o m) = 1 .. (Len(l) + Len(m))
         /\ \A i \in 1 .. Len(l) : (l \o m)[i] = l[i]
         /\ \A i \in 1 .. Len(m) : (l \o m)[Len(l) + i] = m[i]
<1> DEFINE n == l \o m
<1>1. /\ n \in Seq(Events) /\ Len(n) = Len(l) + Len(m)
      /\ \A i \in 1 .. Len(l) + Len(m) : n[i] = IF i <= Len(l) THEN l[i] ELSE m[i - Len(l)]
  BY ConcatProperties
<1>2. /\ Len(l) \in Nat /\ Len(m) \in Nat
      /\ DOMAIN l = 1 .. Len(l) /\ DOMAIN n = 1 .. Len(n)
  BY <1>1, LenProperties
<1> HIDE DEF n
<1>3. \A i \in 1 .. Len(l) : n[i] = l[i]
  BY <1>1, <1>2
<1>4. \A i \in 1 .. Len(m) : n[Len(l) + i] = m[i]
  BY <1>1, <1>2
<1> QED BY <1>1, <1>2, <1>3, <1>4 DEF n

\* Events that are no ends change nothing of what a log says about its end,
\* as long as it says nothing.
LEMMA NoEndAdded ==
  ASSUME NEW l \in Seq(Events), NEW m \in Seq(Events \ Ends), EndsIn(l) = {}
  PROVE  l \o m \in Seq(Events) /\ EndsIn(l \o m) = {} /\ ~ Completed(l \o m)
<1>1. m \in Seq(Events) /\ \A i \in 1 .. Len(m) : m[i] \notin Ends
  BY SeqMonotonic, ElementOfSeq
<1> DEFINE n == l \o m
<1>2. /\ n \in Seq(Events)
      /\ Len(l) \in Nat /\ Len(m) \in Nat /\ DOMAIN l = 1 .. Len(l) /\ DOMAIN n = 1 .. (Len(l) + Len(m))
      /\ \A i \in 1 .. Len(l) : n[i] = l[i]
      /\ \A i \in 1 .. Len(m) : n[Len(l) + i] = m[i]
  BY <1>1, Concatenated
<1> HIDE DEF n
<1>3. \A i \in DOMAIN n : n[i] \notin Ends
  <2> SUFFICES ASSUME NEW i \in DOMAIN n
               PROVE  n[i] \notin Ends
    OBVIOUS
  <2>1. CASE i <= Len(l)
    BY <1>2, <2>1 DEF EndsIn
  <2>2. CASE i > Len(l)
    <3>1. i - Len(l) \in 1 .. Len(m) /\ i = Len(l) + (i - Len(l))
      BY <1>2, <2>2
    <3> QED BY <1>1, <1>2, <3>1
  <2> QED BY <1>2, <2>1, <2>2
<1>4. EndsIn(n) = {} /\ ~ Completed(n)
  BY <1>3 DEF EndsIn, Completed, Ends
<1> QED BY <1>2, <1>4 DEF n

\* The two events of an end make a log that ended once.
LEMMA EndAdded ==
  ASSUME NEW l \in Seq(Events), EndsIn(l) = {}, NEW o \in {"completed", "failed"}
  PROVE  LET n == l \o SessionEnd(o)
         IN /\ n \in Seq(Events) /\ EndsIn(n) # {} /\ EndedOnce(n)
            /\ Completed(n) <=> o = "completed"
<1> DEFINE m == SessionEnd(o)
           n == l \o m
<1>0. PICK a \in Ends, b \in Ends : m = <<a, b>>
  <2>1. CASE o = "completed"
    BY <2>1 DEF SessionEnd, Ends
  <2>2. CASE o = "failed"
    BY <2>2 DEF SessionEnd, Ends
  <2> QED BY <2>1, <2>2
<1>1. m \in Seq(Events) /\ Len(m) = 2 /\ m[1] \in Ends /\ m[2] \in Ends
  <2>1. a \in Events /\ b \in Events
    BY DEF Events
  <2> HIDE DEF m
  <2> QED BY <1>0, <2>1
<1>2. /\ n \in Seq(Events)
      /\ Len(l) \in Nat /\ DOMAIN l = 1 .. Len(l) /\ DOMAIN n = 1 .. (Len(l) + 2)
      /\ \A i \in 1 .. Len(l) : n[i] = l[i]
      /\ n[Len(l) + 1] = m[1] /\ n[Len(l) + 2] = m[2]
  <2> HIDE DEF m
  <2>1. 1 \in 1 .. Len(m) /\ 2 \in 1 .. Len(m)
    BY <1>1
  <2> QED BY <1>1, <2>1, Concatenated
<1>3. /\ <<m[1], m[2]>> \in {SessionEnd("completed"), SessionEnd("failed")}
      /\ m[1] # "run.completed" /\ (m[2] = "run.completed" <=> o = "completed")
  BY DEF SessionEnd
<1> HIDE DEF n, m
<1>4. \A i \in 1 .. Len(l) : n[i] \notin Ends
  BY <1>2 DEF EndsIn
<1> DEFINE k == Len(l) + 2
<1>5. EndsIn(n) = {k - 1, k}
  <2>1. k - 1 \in EndsIn(n) /\ k \in EndsIn(n)
    BY <1>1, <1>2 DEF EndsIn
  <2>2. \A i \in EndsIn(n) : i \in {k - 1, k}
    BY <1>2, <1>4 DEF EndsIn
  <2> QED BY <2>1, <2>2
<1>6. EndedOnce(n)
  <2>1. <<n[k - 1], n[k]>> \in {SessionEnd("completed"), SessionEnd("failed")}
    BY <1>2, <1>3
  <2>2. \A i \in DOMAIN n : i > k => n[i] = "artifact.created"
    BY <1>2
  <2> QED BY <1>5, <2>1, <2>2 DEF EndedOnce
<1>7. Completed(n) <=> o = "completed"
  <2>1. \A i \in 1 .. Len(l) : n[i] # "run.completed"
    BY <1>4 DEF Ends
  <2> QED BY <1>2, <1>3, <2>1 DEF Completed
<1> QED BY <1>2, <1>5, <1>6, <1>7 DEF n, m

\* An artifact may be told afterwards.
LEMMA ArtifactAdded ==
  ASSUME NEW l \in Seq(Events), EndedOnce(l)
  PROVE  LET n == l \o <<"artifact.created">>
         IN /\ n \in Seq(Events) /\ EndsIn(n) # {} /\ EndedOnce(n)
            /\ Completed(n) <=> Completed(l)
<1> DEFINE m == <<"artifact.created">>
           n == l \o m
<1>1. m \in Seq(Events) /\ Len(m) = 1 /\ m[1] = "artifact.created"
  BY DEF Events
<1>2. /\ n \in Seq(Events)
      /\ Len(l) \in Nat /\ DOMAIN l = 1 .. Len(l) /\ DOMAIN n = 1 .. (Len(l) + 1)
      /\ \A i \in 1 .. Len(l) : n[i] = l[i]
      /\ n[Len(l) + 1] = "artifact.created"
  BY <1>1, Concatenated
<1> HIDE DEF n, m
<1>3. EndsIn(n) = EndsIn(l)
  <2>1. \A i \in EndsIn(n) : i \in EndsIn(l)
    BY <1>2 DEF EndsIn, Ends
  <2>2. \A i \in EndsIn(l) : i \in EndsIn(n)
    BY <1>2 DEF EndsIn
  <2> QED BY <2>1, <2>2
<1>4. PICK k \in EndsIn(l) : /\ EndsIn(l) = {k - 1, k}
                             /\ <<l[k - 1], l[k]>> \in {SessionEnd("completed"), SessionEnd("failed")}
                             /\ \A i \in DOMAIN l : i > k => l[i] = "artifact.created"
  BY DEF EndedOnce
<1>5. n[k - 1] = l[k - 1] /\ n[k] = l[k]
  BY <1>2, <1>4 DEF EndsIn
<1>6. \A i \in DOMAIN n : i > k => n[i] = "artifact.created"
  BY <1>2, <1>4
<1>7. EndedOnce(n)
  BY <1>3, <1>4, <1>5, <1>6 DEF EndedOnce
<1>8. Completed(n) <=> Completed(l)
  BY <1>2 DEF Completed
<1> QED BY <1>2, <1>3, <1>4, <1>7, <1>8 DEF n, m

-----------------------------------------------------------------------------
(***************************************************************************)
(* What a step leaves alone                                                *)
(***************************************************************************)
LEMMA RootIsNoHandoff == /\ Root \in Sessions /\ Root \notin Handoffs
                         /\ \A h \in Handoffs : h \in Sessions /\ h # Root
BY HarnessAssumption DEF Sessions

LEMMA NoEndsInEmpty == EndsIn(<<>>) = {} /\ ~ Completed(<<>>)
<1>1. DOMAIN <<>> = {}
  OBVIOUS
<1> QED BY <1>1 DEF EndsIn, Completed

LEMMA InitHInv == Init => HInv
<1> SUFFICES ASSUME Init PROVE HInv
  OBVIOUS
<1>1. <<>> \in Seq(Events)
  BY EmptySeq
<1>2. TypeOK
  BY <1>1 DEF Init, TypeOK, Phases, Results
<1>3. ASSUME NEW s \in Sessions
      PROVE  Sound(s)
  BY <1>3, NoEndsInEmpty, HarnessAssumption DEF Init, Sound
<1>4. ASSUME NEW h \in Handoffs
      PROVE  Joined(h)
  BY <1>4, RootIsNoHandoff DEF Init, Joined
<1>5. Timed
  BY DEF Init, Timed
<1> QED BY <1>2, <1>3, <1>4, <1>5 DEF HInv

Same(d) == /\ pc'[d] = pc[d] /\ log'[d] = log[d] /\ queued'[d] = queued[d]
           /\ turn'[d] = turn[d] /\ stop'[d] = stop[d] /\ result'[d] = result[d]

LEMMA SameSound ==
  ASSUME NEW d \in Sessions, Sound(d), Same(d), mode' = mode
  PROVE  Sound(d)'
BY DEF Sound, Same

Early == {"idle", "create", "submit"}
Late  == {"stop", "fail", "ended", "settled"}

LEMMA SameJoined ==
  ASSUME NEW h \in Handoffs, Joined(h), Same(h), handoff'[h] = handoff[h],
         pc'[Root] \in Early => pc[Root] \in Early,
         pc'[Root] \in Late => pc[Root] \in Early \cup Late \/ pc[h] \in {"idle", "settled"}
  PROVE  Joined(h)'
BY DEF Joined, Same, Early, Late, Outcome

\* A role session that is under way has been accepted, by a root that prompts.
LEMMA UnderWay ==
  ASSUME HInv, NEW h \in Handoffs, pc[h] \notin {"idle", "settled"}
  PROVE  handoff[h] = "accepted" /\ pc[Root] = "prompting"
<1>1. Joined(h) /\ handoff[h] \in {"none", "accepted", "completed", "failed"} /\ pc[Root] \in Phases
  BY RootIsNoHandoff DEF HInv, TypeOK
<1> QED BY <1>1 DEF Joined, Phases

\* A step of one session that neither accepts nor closes a handoff.
LEMMA SessionStep ==
  ASSUME HInv, TypeOK', Timed', mode' = mode, handoff' = handoff,
         NEW s \in Sessions, Sound(s)',
         \A d \in Sessions \ {s} : Same(d),
         s # Root => /\ pc[s] \notin {"idle", "settled"} /\ pc'[s] # "idle"
                     /\ pc'[s] = "settled" => result'[s] = "threw" /\ log'[s] = <<>>,
         s = Root => /\ pc'[Root] \in Early => pc[Root] \in Early
                     /\ pc'[Root] \in Late => pc[Root] \in Early \cup Late \/ InFlight = {}
  PROVE  HInv'
<1>1. ASSUME NEW d \in Sessions
      PROVE  Sound(d)'
  BY <1>1, SameSound DEF HInv
<1>2. ASSUME NEW h \in Handoffs
      PROVE  Joined(h)'
  <2>1. h \in Sessions /\ h # Root /\ Root \in Sessions /\ Joined(h)
    BY RootIsNoHandoff DEF HInv
  <2>2. CASE h # s
    <3>1. Same(h)
      BY <2>1, <2>2
    <3>2. CASE s = Root
      <4>1. InFlight = {} => pc[h] \in {"idle", "settled"}
        BY DEF InFlight
      <4> QED BY <2>1, <3>1, <3>2, <4>1, SameJoined
    <3>3. CASE s # Root
      <4>1. pc'[Root] = pc[Root]
        BY <2>1, <3>3 DEF Same
      <4> QED BY <2>1, <3>1, <4>1, SameJoined
    <3> QED BY <3>2, <3>3
  <2>3. CASE h = s
    <3>1. pc'[Root] = pc[Root]
      BY <2>1, <2>3 DEF Same
    <3>2. handoff[h] = "accepted" /\ pc[Root] = "prompting"
      BY <2>1, <2>3, UnderWay
    <3> QED BY <2>1, <2>3, <3>1, <3>2 DEF Joined
  <2> QED BY <2>2, <2>3
<1> QED BY <1>1, <1>2 DEF HInv

-----------------------------------------------------------------------------
(***************************************************************************)
(* The steps                                                               *)
(***************************************************************************)
LEMMA EmitFacts ==
  ASSUME TypeOK, NEW s \in Sessions, NEW es \in Seq(Events), Emit(s, es)
  PROVE  /\ log' \in [Sessions -> Seq(Events)]
         /\ log'[s] = log[s] \o es
         /\ \A d \in Sessions \ {s} : log'[d] = log[d]
<1>1. log[s] \in Seq(Events) /\ log[s] \o es \in Seq(Events)
  BY Concatenated DEF TypeOK
<1>2. log' = [log EXCEPT ![s] = log[s] \o es]
  BY DEF Emit
<1> QED BY <1>1, <1>2 DEF TypeOK

\* An end told when nothing is left to forward is a sound one.
LEMMA EndSound ==
  ASSUME HInv, NEW s \in Sessions, NEW o \in {"completed", "failed"}, End(s, o),
         pc[s] \in {"stop", "fail"}, queued[s] = 0,
         o = "completed" => turn[s] >= 1 /\ (mode = "single-turn" \/ stop[s] = "completed")
  PROVE  HInv'
<1>0. TypeOK /\ Sound(s)
  BY DEF HInv
<1>1. SessionEnd(o) \in Seq(Events)
  <2>1. SessionEnd("completed") \in Seq(Events) /\ SessionEnd("failed") \in Seq(Events)
    BY DEF SessionEnd, Events, Ends
  <2> QED BY <2>1
<1>2. EndsIn(log[s]) = {} /\ log[s] \in Seq(Events)
  BY <1>0 DEF Sound, TypeOK
<1>3. /\ log' \in [Sessions -> Seq(Events)] /\ log'[s] = log[s] \o SessionEnd(o)
      /\ \A d \in Sessions \ {s} : log'[d] = log[d]
  BY <1>0, <1>1, EmitFacts DEF End
<1>4. EndsIn(log'[s]) # {} /\ EndedOnce(log'[s]) /\ (Completed(log'[s]) <=> o = "completed")
  BY <1>2, <1>3, EndAdded
<1>5. /\ UNCHANGED <<mode, aborted, queued, turn, stop, handoff, written, result>>
      /\ pc' = [pc EXCEPT ![s] = "ended"]
      /\ timer' = IF s = Root /\ timer = "armed" THEN "cleared" ELSE timer
  BY DEF End, Goto, Cleanup
<1>6. TypeOK'
  BY <1>0, <1>3, <1>5 DEF TypeOK, Phases
<1>7. Timed'
  <2>1. s # Root => pc'[Root] = pc[Root]
    BY <1>5, RootIsNoHandoff, <1>0 DEF TypeOK
  <2> QED BY <1>5, <2>1 DEF HInv, Timed
<1>8. pc'[s] = "ended" /\ \A d \in Sessions \ {s} : Same(d)
  BY <1>0, <1>3, <1>5 DEF TypeOK, Same
<1>9. Sound(s)'
  BY <1>0, <1>4, <1>5, <1>8 DEF Sound
<1> QED BY <1>5, <1>6, <1>7, <1>8, <1>9, SessionStep DEF Early, Late

LEMMA StopHInv == ASSUME HInv, NEW s \in Sessions, Stop(s) PROVE HInv'
<1>0. TypeOK /\ Sound(s)
  BY DEF HInv
<1>1. CASE Goto(s, "fail") /\ UNCHANGED <<mode, aborted, timer, log, queued, turn, stop, handoff, written, result>>
  <2>1. /\ TypeOK' /\ pc'[s] = "fail" /\ pc[s] = "stop"
        /\ \A d \in Sessions \ {s} : Same(d)
    BY <1>0, <1>1 DEF Stop, Goto, TypeOK, Phases, Same
  <2>2. Sound(s)'
    BY <1>0, <1>1, <2>1 DEF Sound, Stop
  <2>3. Timed'
    BY <1>0, <1>1, <2>1, RootIsNoHandoff DEF HInv, Timed, TypeOK, Goto
  <2> QED BY <1>1, <2>1, <2>2, <2>3, SessionStep DEF Early, Late
<1>2. CASE End(s, IF stop[s] = "failed" THEN "failed" ELSE "completed")
  <2> DEFINE o == IF stop[s] = "failed" THEN "failed" ELSE "completed"
  <2>1. /\ o \in {"completed", "failed"} /\ End(s, o) /\ pc[s] = "stop" /\ queued[s] = 0
        /\ o = "completed" => stop[s] # "failed"
    BY <1>2 DEF Stop
  <2>2. stop[s] # "failed" => turn[s] >= 1 /\ (mode = "single-turn" \/ stop[s] = "completed")
    BY <1>0, <2>1 DEF Sound, TypeOK
  <2> HIDE DEF o
  <2> QED BY <2>1, <2>2, EndSound
<1> QED BY <1>1, <1>2 DEF Stop

LEMMA FailHInv == ASSUME HInv, NEW s \in Sessions, Fail(s) PROVE HInv'
BY EndSound DEF Fail

LEMMA CreateHInv == ASSUME HInv, NEW s \in Sessions, Create(s) PROVE HInv'
<1>0. TypeOK /\ Sound(s)
  BY DEF HInv
<1>1. /\ pc[s] = "create" /\ log[s] = <<>> /\ log[s] \in Seq(Events)
      /\ UNCHANGED <<mode, aborted, queued, turn, stop, handoff, written>>
  BY <1>0 DEF Create, Sound, TypeOK
<1>2. CASE /\ Settle(s, "threw") /\ UNCHANGED log
           /\ IF s = Root THEN Cleanup ELSE UNCHANGED timer
  <2>1. /\ TypeOK' /\ pc'[s] = "settled" /\ result'[s] = "threw"
        /\ \A d \in Sessions \ {s} : Same(d)
    BY <1>0, <1>1, <1>2 DEF Settle, Goto, Cleanup, TypeOK, Phases, Results, Same
  <2>2. Sound(s)'
    BY <1>0, <1>1, <1>2, <2>1, NoEndsInEmpty DEF Sound
  <2>3. Timed'
    BY <1>0, <1>2, <2>1, RootIsNoHandoff DEF HInv, Timed, TypeOK, Cleanup, Same
  <2> QED BY <1>1, <1>2, <2>1, <2>2, <2>3, SessionStep DEF Early, Late
<1>3. CASE /\ Emit(s, <<"run.created", "session.created", "run.started", "session.started">>)
           /\ Goto(s, "submit") /\ UNCHANGED <<timer, result>>
  <2> DEFINE es == <<"run.created", "session.created", "run.started", "session.started">>
  <2>1. es \in Seq(Events \ Ends)
    BY DEF Events, Ends
  <2>2. es \in Seq(Events) /\ Emit(s, es)
    BY <1>3, <2>1, SeqMonotonic
  <2> HIDE DEF es
  <2>3. /\ log' \in [Sessions -> Seq(Events)] /\ log'[s] = log[s] \o es
        /\ \A d \in Sessions \ {s} : log'[d] = log[d]
    BY <1>0, <2>2, EmitFacts
  <2>4. EndsIn(log'[s]) = {} /\ ~ Completed(log'[s])
    BY <1>1, <2>1, <2>3, NoEndsInEmpty, NoEndAdded
  <2>5. /\ TypeOK' /\ pc'[s] = "submit" /\ result' = result
        /\ \A d \in Sessions \ {s} : Same(d)
    BY <1>0, <1>1, <1>3, <2>3 DEF Goto, TypeOK, Phases, Same
  <2>6. Sound(s)'
    BY <1>0, <1>1, <2>4, <2>5 DEF Sound
  <2>7. Timed'
    BY <1>0, <1>3, <2>5, RootIsNoHandoff DEF HInv, Timed, TypeOK, Goto
  <2> QED BY <1>1, <2>5, <2>6, <2>7, SessionStep DEF Early, Late
<1> QED BY <1>2, <1>3 DEF Create

\* The loop of runStopToolLoop(), case by case.
LEMMA PromptReturnsFacts ==
  ASSUME TypeOK, NEW s \in Sessions, PromptReturns(s)
  PROVE  /\ pc[s] = "prompting" /\ (s = Root => InFlight = {})
         /\ UNCHANGED <<mode, aborted, timer, log, queued, stop, handoff, written, result>>
         /\ \/ /\ pc' = [pc EXCEPT ![s] = "stop"] /\ (mode = "single-turn" \/ stop[s] # "none")
               /\ UNCHANGED turn
            \/ pc' = pc /\ turn[s] < MaxTurns /\ turn' = [turn EXCEPT ![s] = turn[s] + 1]
            \/ pc' = [pc EXCEPT ![s] = "fail"] /\ UNCHANGED turn
<1>1. CASE mode = "single-turn" \/ stop[s] # "none"
  BY <1>1 DEF PromptReturns, Goto
<1>2. CASE mode # "single-turn" /\ stop[s] = "none" /\ turn[s] < MaxTurns
  <2>1. ~ (turn[s] >= MaxTurns)
    BY <1>2, HarnessAssumption DEF TypeOK
  <2> QED BY <1>2, <2>1 DEF PromptReturns
<1>3. CASE mode # "single-turn" /\ stop[s] = "none" /\ turn[s] >= MaxTurns
  <2>1. ~ (turn[s] < MaxTurns)
    BY <1>3, HarnessAssumption DEF TypeOK
  <2> QED BY <1>3, <2>1 DEF PromptReturns, Goto
<1> QED BY <1>1, <1>2, <1>3, HarnessAssumption DEF TypeOK

\* Steps of a session between its creation and its end that emit nothing.
LEMMA QuietStep ==
  ASSUME HInv, NEW s \in Sessions, Submit(s) \/ PiEvent(s) \/ CallStop(s) \/ PromptReturns(s) \/ PromptRejects(s)
  PROVE  HInv'
<1>0. TypeOK /\ Sound(s)
  BY DEF HInv
<1>1. /\ UNCHANGED <<mode, aborted, timer, log, handoff, written, result>>
      /\ pc[s] \in {"submit", "prompting"}
  BY DEF Submit, PiEvent, CallStop, PromptReturns, PromptRejects
<1>a. pc' = pc \/ \E p \in {"prompting", "stop", "fail"} : pc' = [pc EXCEPT ![s] = p]
  BY <1>0, PromptReturnsFacts DEF Submit, PiEvent, CallStop, PromptRejects, Goto
<1>b. \E n \in Nat : turn' = [turn EXCEPT ![s] = n]
  <2>1. turn[s] \in Nat /\ turn[s] + 1 \in Nat /\ turn = [turn EXCEPT ![s] = turn[s]]
    BY <1>0 DEF TypeOK
  <2>2. \/ turn' = turn \/ turn' = [turn EXCEPT ![s] = 1] \/ turn' = [turn EXCEPT ![s] = turn[s] + 1]
    BY <1>0, PromptReturnsFacts DEF Submit, PiEvent, CallStop, PromptRejects
  <2> QED BY <2>1, <2>2
<1>c. queued' = queued \/ (pc[s] = "prompting" /\ pc' = pc /\ queued' = [queued EXCEPT ![s] = queued[s] + 1])
  BY DEF Submit, PiEvent, CallStop, PromptReturns, PromptRejects
<1>d. stop' = stop \/ \E status \in {"completed", "failed"} : stop' = [stop EXCEPT ![s] = status]
  BY DEF Submit, PiEvent, CallStop, PromptReturns, PromptRejects
<1>2. TypeOK' /\ \A d \in Sessions \ {s} : Same(d)
  <2>1. /\ pc' \in [Sessions -> Phases] /\ \A d \in Sessions \ {s} : pc'[d] = pc[d]
        /\ turn' \in [Sessions -> Nat] /\ \A d \in Sessions \ {s} : turn'[d] = turn[d]
    <3>1. pc' \in [Sessions -> Phases] /\ \A d \in Sessions \ {s} : pc'[d] = pc[d]
      BY <1>0, <1>a DEF TypeOK, Phases
    <3>2. turn' \in [Sessions -> Nat] /\ \A d \in Sessions \ {s} : turn'[d] = turn[d]
      BY <1>0, <1>b DEF TypeOK
    <3> QED BY <3>1, <3>2
  <2>2. queued' \in [Sessions -> Nat] /\ \A d \in Sessions \ {s} : queued'[d] = queued[d]
    <3>1. queued[s] + 1 \in Nat
      BY <1>0 DEF TypeOK
    <3> QED BY <1>0, <1>c, <3>1 DEF TypeOK
  <2>3. /\ stop' \in [Sessions -> {"none", "completed", "failed"}]
        /\ \A d \in Sessions \ {s} : stop'[d] = stop[d]
    BY <1>0, <1>d DEF TypeOK
  <2> QED BY <1>0, <1>1, <2>1, <2>2, <2>3 DEF TypeOK, Same
<1>3. pc'[s] \in {"prompting", "stop", "fail"}
  <2>1. pc' = pc => pc[s] = "prompting"
    BY <1>0, PromptReturnsFacts DEF Submit, PiEvent, CallStop, PromptRejects, Goto, TypeOK
  <2> QED BY <1>0, <1>a, <2>1 DEF TypeOK
<1>4. EndsIn(log[s]) = {} /\ ~ Completed(log[s])
  <2>1. EndsIn(log[s]) = {}
    BY <1>0, <1>1 DEF Sound
  <2> QED BY <2>1 DEF EndsIn, Completed, Ends
<1>5. /\ pc'[s] \in {"prompting", "stop"} => turn'[s] >= 1
      /\ pc'[s] = "stop" => mode = "single-turn" \/ stop'[s] # "none"
      /\ mode = "stop-tool-loop" => turn'[s] <= MaxTurns
  <2> USE <1>0
  <2>1. CASE Submit(s)
    BY <2>1, HarnessAssumption DEF Submit, Goto, TypeOK, Sound
  <2>2. CASE PiEvent(s)
    BY <2>2 DEF PiEvent, Sound
  <2>3. CASE CallStop(s)
    BY <2>3 DEF CallStop, TypeOK, Sound
  <2>4. CASE PromptReturns(s)
    <3>1. MaxTurns \in Nat /\ turn[s] \in Nat /\ turn[s] >= 1 /\ pc[s] = "prompting"
      BY <2>4, HarnessAssumption DEF TypeOK, Sound, PromptReturns
    <3>2. CASE /\ pc' = [pc EXCEPT ![s] = "stop"] /\ (mode = "single-turn" \/ stop[s] # "none")
               /\ UNCHANGED <<turn, stop>>
      BY <3>1, <3>2 DEF TypeOK, Sound
    <3>3. CASE pc' = pc /\ turn[s] < MaxTurns /\ turn' = [turn EXCEPT ![s] = turn[s] + 1]
      <4>1. turn'[s] = turn[s] + 1
        BY <3>3 DEF TypeOK
      <4> QED BY <3>1, <3>3, <4>1
    <3>4. CASE pc' = [pc EXCEPT ![s] = "fail"] /\ UNCHANGED turn
      BY <3>1, <3>4 DEF TypeOK, Sound
    <3> QED BY <1>0, <2>4, <3>2, <3>3, <3>4, PromptReturnsFacts
  <2>5. CASE PromptRejects(s)
    BY <2>5 DEF PromptRejects, Goto, TypeOK, Sound
  <2> QED BY <2>1, <2>2, <2>3, <2>4, <2>5
<1>6. Sound(s)'
  BY <1>0, <1>1, <1>3, <1>4, <1>5 DEF Sound
<1>7. Timed'
  BY <1>1, <1>2, <1>3, RootIsNoHandoff DEF HInv, Timed, Same
<1>8. s = Root /\ pc'[Root] \in Late => pc[Root] \in Early \cup Late \/ InFlight = {}
  BY <1>0, <1>1, <1>3 DEF Submit, PiEvent, CallStop, PromptReturns, PromptRejects, TypeOK, Early, Late
<1> QED BY <1>1, <1>2, <1>3, <1>6, <1>7, <1>8, SessionStep DEF Early

LEMMA ForwardHInv == ASSUME HInv, NEW s \in Sessions, Forward(s) PROVE HInv'
<1>0. TypeOK /\ Sound(s)
  BY DEF HInv
<1>1. /\ UNCHANGED <<pc, mode, aborted, timer, turn, stop, handoff, written, result>>
      /\ pc[s] \in {"prompting", "stop", "fail"} /\ EndsIn(log[s]) = {} /\ log[s] \in Seq(Events)
      /\ queued' = [queued EXCEPT ![s] = @ - 1] /\ queued[s] > 0
  BY <1>0 DEF Forward, Sound, TypeOK
<1> DEFINE es == <<"pi">>
<1>2. es \in Seq(Events \ Ends)
  BY DEF Events, Ends
<1>3. es \in Seq(Events) /\ Emit(s, es)
  BY <1>2, SeqMonotonic DEF Forward
<1> HIDE DEF es
<1>4. /\ log' \in [Sessions -> Seq(Events)] /\ log'[s] = log[s] \o es
      /\ \A d \in Sessions \ {s} : log'[d] = log[d]
  BY <1>0, <1>3, EmitFacts
<1>5. EndsIn(log'[s]) = {} /\ ~ Completed(log'[s])
  BY <1>1, <1>2, <1>4, NoEndAdded
<1>6. TypeOK' /\ \A d \in Sessions \ {s} : Same(d)
  <2>1. queued[s] - 1 \in Nat
    BY <1>0, <1>1 DEF TypeOK
  <2>2. queued' \in [Sessions -> Nat] /\ \A d \in Sessions \ {s} : queued'[d] = queued[d]
    BY <1>0, <1>1, <2>1 DEF TypeOK
  <2> QED BY <1>0, <1>1, <1>4, <2>2 DEF TypeOK, Same
<1>7. Sound(s)'
  BY <1>0, <1>1, <1>5 DEF Sound
<1>8. Timed'
  BY <1>1 DEF HInv, Timed
<1> QED BY <1>1, <1>6, <1>7, <1>8, SessionStep DEF Early, Late

LEMMA BeginHInv == ASSUME HInv, Begin PROVE HInv'
<1>0. TypeOK /\ Root \in Sessions /\ Sound(Root) /\ pc[Root] = "idle" /\ timer # "armed"
  BY RootIsNoHandoff DEF HInv, Begin, Timed
<1>1. UNCHANGED <<mode, aborted, log, queued, turn, stop, handoff, written>>
  BY DEF Begin
<1>2. /\ pc' \in [Sessions -> Phases] /\ \A d \in Sessions \ {Root} : pc'[d] = pc[d]
      /\ result' \in [Sessions -> Results] /\ \A d \in Sessions \ {Root} : result'[d] = result[d]
      /\ timer' \in {"none", "unset", "elapsed", "armed", "fired", "cleared"}
      /\ \/ pc'[Root] = "create" /\ result' = result
         \/ pc'[Root] = "settled" /\ result'[Root] \in {"cancelled", "deadline_exceeded"} /\ timer' = timer
         \/ pc'[Root] = "settled" /\ result'[Root] = "unstarted"
  <2>1. CASE Goto(Root, "create") /\ UNCHANGED result
    BY <1>0, <2>1 DEF Begin, Goto, TypeOK, Phases
  <2>2. CASE Settle(Root, "cancelled") /\ UNCHANGED timer
    BY <1>0, <2>2 DEF Settle, Goto, TypeOK, Phases, Results
  <2>3. CASE Settle(Root, "deadline_exceeded") /\ UNCHANGED timer
    BY <1>0, <2>3 DEF Settle, Goto, TypeOK, Phases, Results
  <2>4. CASE Settle(Root, "unstarted") /\ timer' = IF timer = "unset" THEN "armed" ELSE timer
    BY <1>0, <2>4 DEF Settle, Goto, TypeOK, Phases, Results
  <2> QED BY <2>1, <2>2, <2>3, <2>4 DEF Begin
<1>3. TypeOK' /\ \A d \in Sessions \ {Root} : Same(d)
  BY <1>0, <1>1, <1>2 DEF TypeOK, Same
<1>4. log[Root] = <<>>
  BY <1>0 DEF Sound
<1>5. Sound(Root)'
  BY <1>0, <1>1, <1>2, <1>4, NoEndsInEmpty DEF Sound
<1>6. Timed'
  BY <1>0, <1>2 DEF Timed
<1>7. pc[Root] \in Early
  BY <1>0 DEF Early
<1> QED BY <1>0, <1>1, <1>3, <1>5, <1>6, <1>7, SessionStep

LEMMA SignalHInv == ASSUME HInv, ParentAbort \/ DeadlineElapses PROVE HInv'
<1>1. /\ UNCHANGED <<pc, mode, log, queued, turn, stop, handoff, written, result>>
      /\ aborted' = TRUE /\ timer' \in {timer, "fired"}
  BY DEF ParentAbort, DeadlineElapses
<1>2. TypeOK'
  BY <1>1 DEF HInv, TypeOK
<1>3. \A d \in Sessions : Same(d)
  BY <1>1 DEF Same
<1>4. Timed'
  BY <1>1 DEF HInv, Timed
<1>5. Sound(Root)'
  BY <1>1, <1>3, SameSound, RootIsNoHandoff DEF HInv
<1> QED BY <1>1, <1>2, <1>3, <1>4, <1>5, SessionStep, RootIsNoHandoff

LEMMA DelegateHInv == ASSUME HInv, NEW h \in Handoffs, Delegate(h) PROVE HInv'
<1>0. /\ TypeOK /\ h \in Sessions /\ h # Root /\ Root \in Sessions /\ Sound(h)
      /\ pc[Root] = "prompting" /\ pc[h] = "idle"
  BY RootIsNoHandoff DEF HInv, Delegate
<1>1. /\ UNCHANGED <<mode, aborted, timer, log, queued, turn, stop, written>>
      /\ handoff' = [handoff EXCEPT ![h] = "accepted"]
  BY DEF Delegate
<1>2. /\ pc' \in [Sessions -> Phases] /\ \A d \in Sessions \ {h} : pc'[d] = pc[d]
      /\ result' \in [Sessions -> Results] /\ \A d \in Sessions \ {h} : result'[d] = result[d]
      /\ \/ pc'[h] = "create" /\ result' = result
         \/ pc'[h] = "settled" /\ result'[h] = "threw"
  BY <1>0 DEF Delegate, Settle, Goto, TypeOK, Phases, Results
<1>3. TypeOK' /\ \A d \in Sessions \ {h} : Same(d)
  BY <1>0, <1>1, <1>2 DEF TypeOK, Same
<1>4. log[h] = <<>>
  BY <1>0 DEF Sound
<1>5. Sound(h)'
  BY <1>0, <1>1, <1>2, <1>4, NoEndsInEmpty DEF Sound
<1>6. \A d \in Sessions : Sound(d)'
  BY <1>1, <1>3, <1>5, SameSound DEF HInv
<1>7. handoff'[h] = "accepted" /\ \A g \in Handoffs \ {h} : handoff'[g] = handoff[g]
  BY <1>0, <1>1 DEF TypeOK
<1>8. Joined(h)'
  BY <1>0, <1>1, <1>2, <1>4, <1>7 DEF Joined
<1>9. \A g \in Handoffs \ {h} : Joined(g)'
  BY <1>0, <1>2, <1>3, <1>7, SameJoined, RootIsNoHandoff DEF HInv
<1>10. Timed'
  BY <1>0, <1>1, <1>2 DEF HInv, Timed
<1> QED BY <1>3, <1>6, <1>8, <1>9, <1>10 DEF HInv

LEMMA CloseHandoffHInv == ASSUME HInv, NEW h \in Handoffs, CloseHandoff(h) PROVE HInv'
<1>0. TypeOK /\ h \in Sessions /\ h # Root /\ Root \in Sessions /\ Sound(h) /\ pc[h] = "ended"
  BY RootIsNoHandoff DEF HInv, CloseHandoff
<1>1. /\ UNCHANGED <<mode, aborted, timer, log, queued, turn, stop, written>>
      /\ Outcome(h) \in {"succeeded", "failed"} /\ Outcome(h)' = Outcome(h)
  BY DEF CloseHandoff, Outcome
<1>2. /\ pc' = [pc EXCEPT ![h] = "settled"] /\ result' = [result EXCEPT ![h] = Outcome(h)]
      /\ handoff' = [handoff EXCEPT ![h] = IF Outcome(h) = "succeeded" THEN "completed" ELSE "failed"]
  BY DEF CloseHandoff, Settle, Goto
<1> DEFINE o == Outcome(h)
<1>3. o \in {"succeeded", "failed"}
  BY <1>1
<1> HIDE DEF o
<1>4. /\ pc' = [pc EXCEPT ![h] = "settled"] /\ result' = [result EXCEPT ![h] = o]
      /\ handoff' = [handoff EXCEPT ![h] = IF o = "succeeded" THEN "completed" ELSE "failed"]
  BY <1>2 DEF o
<1>5. TypeOK' /\ \A d \in Sessions \ {h} : Same(d)
  BY <1>0, <1>1, <1>3, <1>4 DEF TypeOK, Same, Phases, Results
<1>6. pc'[h] = "settled" /\ result'[h] = o
  BY <1>0, <1>4 DEF TypeOK
<1>7. Sound(h)'
  BY <1>0, <1>1, <1>6 DEF Sound
<1>8. \A d \in Sessions : Sound(d)'
  BY <1>1, <1>5, <1>7, SameSound DEF HInv
<1>9. /\ handoff'[h] = (IF o = "succeeded" THEN "completed" ELSE "failed")
      /\ \A g \in Handoffs \ {h} : handoff'[g] = handoff[g]
  BY <1>0, <1>4 DEF TypeOK
<1>10. pc'[Root] = pc[Root] /\ result'[Root] = result[Root]
  BY <1>0, <1>5 DEF Same
<1>11. pc[Root] = "prompting"
  BY <1>0, UnderWay
<1>12. Outcome(h)' = o
  BY <1>1 DEF o
<1>13. Joined(h)'
  BY <1>3, <1>6, <1>9, <1>10, <1>11, <1>12 DEF Joined
<1>14. \A g \in Handoffs \ {h} : Joined(g)'
  BY <1>5, <1>9, <1>10, SameJoined, RootIsNoHandoff DEF HInv
<1>15. Timed'
  BY <1>1, <1>10 DEF HInv, Timed
<1> QED BY <1>5, <1>8, <1>13, <1>14, <1>15 DEF HInv

LEMMA WriteArtifactHInv == ASSUME HInv, WriteArtifact PROVE HInv'
<1>0. TypeOK /\ Root \in Sessions /\ Sound(Root) /\ pc[Root] = "ended" /\ timer # "armed"
  BY RootIsNoHandoff DEF HInv, WriteArtifact, Timed
<1>1. UNCHANGED <<mode, aborted, timer, queued, turn, stop, handoff>>
  BY DEF WriteArtifact
<1>2. Timed'
  BY <1>0, <1>1 DEF Timed
<1>3. pc[Root] \in Late
  BY <1>0 DEF Late
<1>4. CASE Settle(Root, "threw") /\ UNCHANGED <<written, log>>
  <2>1. TypeOK' /\ (\A d \in Sessions \ {Root} : Same(d)) /\ pc'[Root] = "settled" /\ result'[Root] = "threw"
    BY <1>0, <1>1, <1>4 DEF Settle, Goto, TypeOK, Phases, Results, Same
  <2>2. Sound(Root)'
    BY <1>0, <1>1, <1>4, <2>1 DEF Sound
  <2> QED BY <1>0, <1>1, <1>2, <1>3, <2>1, <2>2, SessionStep DEF Early
<1>5. CASE written' = written + 1 /\ Emit(Root, <<"artifact.created">>) /\ UNCHANGED <<pc, result>>
  <2> DEFINE es == <<"artifact.created">>
  <2>1. es \in Seq(Events)
    BY DEF Events
  <2>2. log[Root] \in Seq(Events) /\ EndedOnce(log[Root])
    BY <1>0 DEF TypeOK, Sound
  <2>3. LET n == log[Root] \o es IN EndsIn(n) # {} /\ EndedOnce(n) /\ (Completed(n) <=> Completed(log[Root]))
    BY <2>2, ArtifactAdded
  <2>4. Emit(Root, es)
    BY <1>5
  <2> HIDE DEF es
  <2>5. /\ log' \in [Sessions -> Seq(Events)] /\ log'[Root] = log[Root] \o es
        /\ \A d \in Sessions \ {Root} : log'[d] = log[d]
    BY <1>0, <2>1, <2>4, EmitFacts
  <2>6. TypeOK' /\ \A d \in Sessions \ {Root} : Same(d)
    BY <1>0, <1>1, <1>5, <2>5 DEF TypeOK, Same
  <2>7. Sound(Root)'
    BY <1>0, <1>1, <1>5, <2>3, <2>5 DEF Sound
  <2> QED BY <1>0, <1>1, <1>2, <1>3, <1>5, <2>6, <2>7, SessionStep DEF Early
<1> QED BY <1>4, <1>5 DEF WriteArtifact

LEMMA ReturnHInv == ASSUME HInv, Return PROVE HInv'
<1>0. TypeOK /\ Root \in Sessions /\ Sound(Root) /\ pc[Root] = "ended" /\ timer # "armed"
  BY RootIsNoHandoff DEF HInv, Return, Timed
<1>1. UNCHANGED <<mode, aborted, timer, log, queued, turn, stop, handoff, written>>
  BY DEF Return
<1>2. PICK r \in {"succeeded", "failed"} : pc' = [pc EXCEPT ![Root] = "settled"] /\ result' = [result EXCEPT ![Root] = r]
  BY DEF Return, Settle, Goto
<1>3. TypeOK' /\ (\A d \in Sessions \ {Root} : Same(d)) /\ pc'[Root] = "settled" /\ result'[Root] = r
  BY <1>0, <1>1, <1>2 DEF TypeOK, Phases, Results, Same
<1>4. Sound(Root)'
  BY <1>0, <1>1, <1>3 DEF Sound
<1>5. Timed'
  BY <1>0, <1>1 DEF Timed
<1> QED BY <1>0, <1>1, <1>3, <1>4, <1>5, SessionStep DEF Early, Late

LEMMA NextHInv == HInv /\ [Next]_vars => HInv'
<1> SUFFICES ASSUME HInv, [Next]_vars
             PROVE  HInv'
  OBVIOUS
<1>1. CASE UNCHANGED vars
  <2>1. UNCHANGED <<pc, mode, aborted, timer, log, queued, turn, stop, handoff, written, result>>
    BY <1>1 DEF vars
  <2>2. \A d \in Sessions : Same(d)
    BY <2>1 DEF Same
  <2>3. TypeOK' /\ Timed'
    BY <2>1 DEF HInv, TypeOK, Timed
  <2>4. Sound(Root)'
    BY <2>1, <2>2, SameSound, RootIsNoHandoff DEF HInv
  <2> QED BY <2>1, <2>2, <2>3, <2>4, SessionStep, RootIsNoHandoff
<1>2. ASSUME NEW s \in Sessions, Step(s) \/ Pi(s) \/ PiEvent(s) \/ CallStop(s)
      PROVE  HInv'
  BY <1>2, CreateHInv, QuietStep, ForwardHInv, StopHInv, FailHInv DEF Step, Pi
<1> QED BY <1>1, <1>2, BeginHInv, SignalHInv, WriteArtifactHInv, ReturnHInv, DelegateHInv, CloseHandoffHInv DEF Next

-----------------------------------------------------------------------------
\* A session tells its end once and after all that it forwards, and the deadline
\* timer does not outlive a root session that the adapter tried to run.
THEOREM EndsAlwaysClean == Spec => []EndsClean
<1>1. HInv => EndsClean
  <2> SUFFICES ASSUME HInv
               PROVE  EndsOnce /\ TimerReleased
    BY DEF EndsClean
  <2>1. EndsOnce
    <3>1. ASSUME NEW s \in Sessions, EndsIn(log[s]) # {}
          PROVE  queued[s] = 0
      BY <3>1 DEF HInv, Sound
    <3> QED BY <3>1 DEF HInv, Sound, EndsOnce
  <2>2. TimerReleased
    BY DEF HInv, Timed, TimerReleased
  <2> QED BY <2>1, <2>2
<1> QED BY <1>1, InitHInv, NextHInv, PTL DEF Spec

\* A session completes only by the last word of its model, or in a single turn,
\* and within maxTurns prompts, whatever the signals and the hooks do.
THEOREM StopAlwaysDecides == Spec => []StopDecides
<1>1. HInv => StopDecides
  BY DEF HInv, Sound, StopDecides, Completed
<1> QED BY <1>1, InitHInv, NextHInv, PTL DEF Spec

\* When the root session ends, every handoff it accepted has been told to have
\* completed or failed, as the role session's own events say, or threw before
\* that session told anything.
THEOREM HandoffsAlwaysTold == Spec => []HandoffsTold
<1>1. HInv => HandoffsTold
  <2> SUFFICES ASSUME HInv, NEW h \in Handoffs
               PROVE  /\ handoff[h] \in {"completed", "failed"} =>
                           Outcome(h) = (IF handoff[h] = "completed" THEN "succeeded" ELSE "failed")
                      /\ pc[Root] \in {"stop", "fail", "ended"} /\ handoff[h] = "accepted" =>
                           result[h] = "threw" /\ log[h] = <<>>
    BY DEF HandoffsTold
  <2>1. Joined(h)
    BY DEF HInv
  <2> QED BY <2>1 DEF Joined
<1> QED BY <1>1, InitHInv, NextHInv, PTL DEF Spec

-----------------------------------------------------------------------------
\* filter()

OnlyStep(S, kept, e) == IF e \in S THEN Append(kept, e) ELSE kept
OnlyFold == INSTANCE Folding WITH Op <- OnlyStep

\* The states f that Only() goes through.
Keeps(s, S, f) ==
  /\ f[0] = <<>>
  /\ \A i \in 1..Len(s) : f[i] = OnlyStep(S, f[i - 1], s[i])
  /\ Only(s, S) = f[Len(s)]

LEMMA OnlyRuns == ASSUME NEW s, IsSeq(s), NEW S PROVE \E f : Keeps(s, S, f)
<1>1. Only(s, S) = OnlyFold!Fold(S, <<>>, s)
  BY DEF Only, OnlyFold!Fold, OnlyStep, FoldLeft, MapThenFoldSet, Max, OnlyFold!Max
<1>2. Len(s) \in Nat /\ DOMAIN s = 1..Len(s) BY DEF IsSeq
<1>3. PICK f : OnlyFold!Goes(S, <<>>, s, Len(s), f) BY <1>2, OnlyFold!FoldIsRun
<1> QED BY <1>1, <1>3 DEF OnlyFold!Goes, Keeps

\* t is what is in S of the first n elements of s, g where each of it comes from.
Picks(s, S, n, t, g) ==
  /\ t \in Seq({s[i] : i \in 1..n} \cap S)
  /\ g \in [1..Len(t) -> 1..n]
  /\ \A k \in 1..Len(t) : t[k] = s[g[k]]
  /\ \A i, j \in 1..Len(t) : i < j => g[i] < g[j]
  /\ \A i \in 1..n : s[i] \in S => \E k \in 1..Len(t) : g[k] = i

\* One more element.
LEMMA PicksNext ==
  ASSUME NEW s, NEW S, NEW n \in Nat, NEW t, NEW g, Picks(s, S, n, t, g)
  PROVE  \E h : Picks(s, S, n + 1, OnlyStep(S, t, s[n + 1]), h)
<1> DEFINE T == {s[i] : i \in 1..n} \cap S
           U == {s[i] : i \in 1..(n + 1)} \cap S
<1>1. t \in Seq(T) /\ t \in Seq(U) /\ Len(t) \in Nat
  <2>1. T \subseteq U OBVIOUS
  <2>2. t \in Seq(T) BY DEF Picks
  <2> HIDE DEF T, U
  <2> QED BY <2>1, <2>2, SeqMonotonic
<1>2. CASE s[n + 1] \in S
  <2> DEFINE e == s[n + 1]
             u == Append(t, e)
             h == [k \in 1..Len(t) + 1 |-> IF k <= Len(t) THEN g[k] ELSE n + 1]
  <2>1. e \in U BY <1>2
  <2>2. u \in Seq(U) /\ Len(u) = Len(t) + 1 /\ u[Len(t) + 1] = e /\ \A k \in 1..Len(t) : u[k] = t[k]
    <3> HIDE DEF T, U, e
    <3> QED BY <1>1, <2>1, AppendProperties
  <2> HIDE DEF U, u
  <2>3. h \in [1..Len(u) -> 1..(n + 1)] BY <1>1, <2>2 DEF Picks
  <2>4. \A k \in 1..Len(u) : u[k] = s[h[k]] BY <1>1, <2>2 DEF Picks
  <2>5. \A i, j \in 1..Len(u) : i < j => h[i] < h[j]
    <3> TAKE i, j \in 1..Len(u)
    <3> HAVE i < j
    <3>1. i <= Len(t) /\ g[i] \in 1..n BY <1>1, <2>2 DEF Picks
    <3>2. CASE j <= Len(t) BY <1>1, <2>2, <3>1, <3>2 DEF Picks
    <3>3. CASE j = Len(t) + 1 BY <1>1, <2>2, <3>1, <3>3
    <3> QED BY <1>1, <2>2, <3>2, <3>3
  <2>6. \A i \in 1..(n + 1) : s[i] \in S => \E k \in 1..Len(u) : h[k] = i
    <3> TAKE i \in 1..(n + 1)
    <3> HAVE s[i] \in S
    <3>1. CASE i = n + 1
      <4>1. Len(t) + 1 \in 1..Len(u) /\ h[Len(t) + 1] = n + 1 BY <1>1, <2>2
      <4> QED BY <3>1, <4>1
    <3>2. CASE i <= n
      <4>1. PICK k \in 1..Len(t) : g[k] = i BY <3>2 DEF Picks
      <4>2. k \in 1..Len(u) /\ h[k] = i BY <1>1, <2>2, <4>1
      <4> QED BY <4>2
    <3> QED BY <3>1, <3>2
  <2>7. OnlyStep(S, t, s[n + 1]) = u BY <1>2 DEF OnlyStep, u
  <2> HIDE DEF h
  <2>8. Picks(s, S, n + 1, u, h) BY <2>2, <2>3, <2>4, <2>5, <2>6 DEF Picks, U
  <2> QED BY <2>7, <2>8
<1>3. CASE s[n + 1] \notin S
  <2>1. OnlyStep(S, t, s[n + 1]) = t BY <1>3 DEF OnlyStep
  <2>2. g \in [1..Len(t) -> 1..(n + 1)] BY <1>1 DEF Picks
  <2>3. ASSUME NEW i \in 1..(n + 1), s[i] \in S PROVE \E k \in 1..Len(t) : g[k] = i
    <3>1. i # n + 1 /\ i \in 1..n BY <1>3, <2>3
    <3> QED BY <2>3, <3>1 DEF Picks
  <2>4. (\A k \in 1..Len(t) : t[k] = s[g[k]]) /\ \A i, j \in 1..Len(t) : i < j => g[i] < g[j] BY DEF Picks
  <2>5. Picks(s, S, n + 1, t, g) BY <1>1, <2>2, <2>3, <2>4 DEF Picks
  <2> QED BY <2>1, <2>5
<1> QED BY <1>2, <1>3

\* What filter() gives of a sequence.
LEMMA OnlyPicks == ASSUME NEW s, IsSeq(s), NEW S PROVE \E g : Picks(s, S, Len(s), Only(s, S), g)
<1>1. PICK f : Keeps(s, S, f) BY OnlyRuns
<1>2. Len(s) \in Nat BY DEF IsSeq
<1> DEFINE T == {k \in Nat : k <= Len(s) => \E g : Picks(s, S, k, f[k], g)}
<1>3. 0 \in T
  <2>1. <<>> \in Seq({s[i] : i \in 1..0} \cap S) /\ Len(<<>>) = 0 BY EmptySeq
  <2>2. Picks(s, S, 0, <<>>, [k \in 1..0 |-> 0]) BY <2>1 DEF Picks
  <2> QED BY <1>1, <2>2 DEF Keeps
<1>4. ASSUME NEW k \in Nat, k \in T PROVE k + 1 \in T
  <2> SUFFICES ASSUME k + 1 <= Len(s) PROVE \E g : Picks(s, S, k + 1, f[k + 1], g) OBVIOUS
  <2>1. PICK g : Picks(s, S, k, f[k], g) BY <1>2, <1>4
  <2>2. f[k + 1] = OnlyStep(S, f[k], s[k + 1])
    <3>1. k + 1 \in 1..Len(s) /\ k + 1 - 1 = k BY <1>2
    <3> QED BY <1>1, <3>1 DEF Keeps
  <2> QED BY <2>1, <2>2, PicksNext
<1>5. Nat \subseteq T
  <2> HIDE DEF T
  <2> QED BY <1>3, <1>4, OnlyFold!Induction
<1> QED BY <1>1, <1>2, <1>5 DEF Keeps

\* It is a sequence of the elements that are in S.
LEMMA OnlyOf ==
  ASSUME NEW s, IsSeq(s), NEW S
  PROVE  /\ Only(s, S) \in Seq(ToSet(s) \cap S)
         /\ ToSet(Only(s, S)) = ToSet(s) \cap S
<1> DEFINE t == Only(s, S)
           n == Len(s)
           T == {s[i] : i \in 1..n} \cap S
<1>1. PICK g : Picks(s, S, n, t, g) BY OnlyPicks
<1>2. ToSet(s) = {s[i] : i \in 1..n} /\ n \in Nat BY DEF IsSeq, ToSet
<1>3. t \in Seq(T) BY <1>1 DEF Picks
<1>4. DOMAIN t = 1..Len(t) /\ Len(t) \in Nat /\ \A k \in 1..Len(t) : t[k] \in T
  <2> HIDE DEF T
  <2> QED BY <1>3, LenProperties, ElementOfSeq
<1>5. \A e \in T : \E k \in 1..Len(t) : t[k] = e
  <2> TAKE e \in T
  <2>1. PICK i \in 1..n : s[i] = e /\ s[i] \in S OBVIOUS
  <2>2. PICK k \in 1..Len(t) : g[k] = i BY <1>1, <2>1 DEF Picks
  <2> QED BY <1>1, <2>1, <2>2 DEF Picks
<1>6. ToSet(t) = {t[k] : k \in 1..Len(t)} BY <1>4 DEF ToSet
<1>7. ToSet(t) = T
  <2> HIDE DEF T, t
  <2> QED BY <1>4, <1>5, <1>6
<1> QED BY <1>2, <1>3, <1>7

\* Its last element is the last one in S.
LEMMA OnlyLast ==
  ASSUME NEW s, IsSeq(s), NEW S, Only(s, S) # <<>>
  PROVE  /\ Len(Only(s, S)) \in Nat \ {0}
         /\ \E i \in 1..Len(s) : /\ s[i] \in S /\ Only(s, S)[Len(Only(s, S))] = s[i]
                                 /\ \A j \in 1..Len(s) : s[j] \in S => j <= i
<1> DEFINE t == Only(s, S)
           T == {s[i] : i \in 1..Len(s)} \cap S
           m == Len(t)
<1>1. PICK g : Picks(s, S, Len(s), t, g) BY OnlyPicks
<1>2. t \in Seq(T) BY <1>1 DEF Picks
<1>3. m \in Nat /\ m # 0
  <2> HIDE DEF T
  <2> QED BY <1>2, LenProperties, EmptySeq
<1>4. m \in 1..m BY <1>3
<1>5. t[m] \in T
  <2> HIDE DEF T, t, m
  <2> QED BY <1>2, <1>4, ElementOfSeq DEF m
<1>6. g[m] \in 1..Len(s) /\ t[m] = s[g[m]] BY <1>1, <1>4 DEF Picks
<1>7. \A j \in 1..Len(s) : s[j] \in S => j <= g[m]
  <2> TAKE j \in 1..Len(s)
  <2> HAVE s[j] \in S
  <2>1. PICK k \in 1..m : g[k] = j BY <1>1 DEF Picks
  <2>2. Len(s) \in Nat BY DEF IsSeq
  <2>3. CASE k = m BY <1>6, <2>1, <2>2, <2>3
  <2>4. CASE k < m
    <3>1. g[k] < g[m] BY <1>1, <1>4, <2>4 DEF Picks
    <3> QED BY <1>6, <2>1, <2>2, <3>1
  <2> QED BY <1>3, <2>3, <2>4
<1> QED BY <1>3, <1>5, <1>6, <1>7

-----------------------------------------------------------------------------
\* Sequences

\* A function on 1..n is a sequence of its values.
LEMMA FunctionSeq ==
  ASSUME NEW n \in Nat, NEW d, d = [i \in 1..n |-> d[i]], NEW S, \A i \in 1..n : d[i] \in S
  PROVE  d \in Seq(S) /\ Len(d) = n
<1>1. d \in [1..n -> S] OBVIOUS
<1>2. d \in Seq(S) BY <1>1, SeqDef
<1>3. DOMAIN d = 1..Len(d) /\ Len(d) \in Nat BY <1>2, LenProperties
<1> QED BY <1>1, <1>2, <1>3

\* What two sequences hold together.
LEMMA ConcatHolds ==
  ASSUME NEW S, NEW a \in Seq(S), NEW b \in Seq(S)
  PROVE  /\ a \o b \in Seq(S) /\ Len(a \o b) = Len(a) + Len(b)
         /\ ToSet(a \o b) = ToSet(a) \cup ToSet(b)
<1> DEFINE c == a \o b
<1>1. /\ c \in Seq(S) /\ Len(c) = Len(a) + Len(b)
      /\ \A i \in 1..(Len(a) + Len(b)) : c[i] = IF i <= Len(a) THEN a[i] ELSE b[i - Len(a)]
  BY ConcatProperties
<1>2. /\ Len(a) \in Nat /\ DOMAIN a = 1..Len(a) /\ Len(b) \in Nat /\ DOMAIN b = 1..Len(b) /\ DOMAIN c = 1..Len(c)
  BY <1>1, LenProperties
<1> HIDE DEF c
<1>3. ASSUME NEW i \in 1..Len(c) PROVE c[i] \in ToSet(a) \cup ToSet(b)
  <2>0. i \in 1..(Len(a) + Len(b)) BY <1>1
  <2>1. CASE i <= Len(a)
    <3>1. i \in DOMAIN a BY <1>2, <2>0, <2>1
    <3>2. c[i] = a[i] BY <1>1, <2>0, <2>1
    <3> QED BY <3>1, <3>2 DEF ToSet
  <2>2. CASE i > Len(a)
    <3>1. i - Len(a) \in DOMAIN b BY <1>2, <2>0, <2>2
    <3>2. c[i] = b[i - Len(a)] BY <1>1, <1>2, <2>0, <2>2
    <3> QED BY <3>1, <3>2 DEF ToSet
  <2> QED BY <1>2, <2>1, <2>2
<1>4. ASSUME NEW i \in 1..Len(a) PROVE a[i] \in ToSet(c)
  <2>1. i \in 1..Len(c) /\ c[i] = a[i] BY <1>1, <1>2
  <2> QED BY <1>2, <2>1 DEF ToSet
<1>5. ASSUME NEW i \in 1..Len(b) PROVE b[i] \in ToSet(c)
  <2>1. Len(a) + i \in 1..Len(c) /\ ~ (Len(a) + i <= Len(a)) /\ Len(a) + i - Len(a) = i BY <1>1, <1>2
  <2>2. c[Len(a) + i] = b[i] BY <1>1, <2>1
  <2> QED BY <1>2, <2>1, <2>2 DEF ToSet
<1>6. ToSet(c) = ToSet(a) \cup ToSet(b)
  <2>1. ToSet(c) \subseteq ToSet(a) \cup ToSet(b) BY <1>2, <1>3 DEF ToSet
  <2>2. ToSet(a) \subseteq ToSet(c) BY <1>2, <1>4 DEF ToSet
  <2>3. ToSet(b) \subseteq ToSet(c) BY <1>2, <1>5 DEF ToSet
  <2> QED BY <2>1, <2>2, <2>3
<1> QED BY <1>1, <1>6 DEF c

\* SetToSeq() has each element once.
LEMMA SetInSeq ==
  ASSUME NEW S, IsFiniteSet(S)
  PROVE  /\ SetToSeq(S) \in [1..Cardinality(S) -> S] /\ Cardinality(S) \in Nat
         /\ ToSet(SetToSeq(S)) = S
<1> DEFINE n == Cardinality(S)
           q == SetToSeq(S)
<1>1. n \in Nat /\ \E f : f \in Bijection(1..n, S) BY FS_CardinalityType DEF ExistsBijection
<1>2. \E f \in [1..n -> S] : IsInjective(f) BY <1>1 DEF Bijection, Injection
<1>3. q \in [1..n -> S] /\ IsInjective(q) BY <1>2 DEF SetToSeq
<1>4. q \in Injection(1..n, S) BY <1>3 DEF Injection
<1>5. IsFiniteSet(1..n) /\ Cardinality(1..n) = n BY <1>1, FS_Interval
<1>6. q \in Surjection(1..n, S)
  <2> HIDE DEF q, n
  <2>1. Cardinality(1..n) = Cardinality(S) BY <1>5 DEF n
  <2> QED BY <1>4, <2>1, FS_Injection
<1>7. \A e \in S : \E i \in 1..n : q[i] = e BY <1>6 DEF Surjection
<1> HIDE DEF q, n
<1>8. ToSet(q) = S BY <1>3, <1>7 DEF ToSet
<1> QED BY <1>1, <1>3, <1>8 DEF q, n

-----------------------------------------------------------------------------
\* Names

\* The elements of m come from different places of n.
Drawn(S, m, n) ==
  /\ m \in Seq(S) /\ n \in Seq(S)
  /\ \E h \in [1..Len(m) -> 1..Len(n)] : /\ \A i \in 1..Len(m) : m[i] = n[h[i]]
                                         /\ \A i, j \in 1..Len(m) : h[i] = h[j] => i = j

LEMMA DrawnConcat ==
  ASSUME NEW S, NEW m1, NEW n1, NEW m2, NEW n2, Drawn(S, m1, n1), Drawn(S, m2, n2)
  PROVE  Drawn(S, m1 \o m2, n1 \o n2)
<1> DEFINE m == m1 \o m2
           n == n1 \o n2
           a == Len(m1)
           b == Len(m2)
           c == Len(n1)
           d == Len(n2)
<1>1. /\ m \in Seq(S) /\ Len(m) = a + b
      /\ \A i \in 1..(a + b) : m[i] = IF i <= a THEN m1[i] ELSE m2[i - a]
  BY ConcatProperties DEF Drawn
<1>2. /\ n \in Seq(S) /\ Len(n) = c + d
      /\ \A i \in 1..(c + d) : n[i] = IF i <= c THEN n1[i] ELSE n2[i - c]
  BY ConcatProperties DEF Drawn
<1>3. a \in Nat /\ b \in Nat /\ c \in Nat /\ d \in Nat BY LenProperties DEF Drawn
<1>4. PICK g \in [1..a -> 1..c] : /\ \A i \in 1..a : m1[i] = n1[g[i]]
                                  /\ \A i, j \in 1..a : g[i] = g[j] => i = j
  BY DEF Drawn
<1>5. PICK h \in [1..b -> 1..d] : /\ \A i \in 1..b : m2[i] = n2[h[i]]
                                  /\ \A i, j \in 1..b : h[i] = h[j] => i = j
  BY DEF Drawn
<1> DEFINE k == [i \in 1..(a + b) |-> IF i <= a THEN g[i] ELSE c + h[i - a]]
<1> HIDE DEF m, n, a, b, c, d
<1>6. ASSUME NEW i \in 1..(a + b)
      PROVE  /\ k[i] \in 1..(c + d) /\ m[i] = n[k[i]]
             /\ i <= a => k[i] <= c /\ k[i] = g[i]
             /\ i > a => k[i] > c /\ k[i] - c = h[i - a] /\ i - a \in 1..b
  <2>1. CASE i <= a
    <3>1. i \in 1..a /\ g[i] \in 1..c /\ k[i] = g[i] BY <1>3, <1>4, <2>1
    <3>2. k[i] \in 1..(c + d) /\ k[i] <= c BY <1>3, <3>1
    <3>3. m[i] = m1[i] BY <1>1, <2>1
    <3>4. n[k[i]] = n1[g[i]] BY <1>2, <3>1, <3>2
    <3> QED BY <1>3, <1>4, <2>1, <3>1, <3>2, <3>3, <3>4
  <2>2. CASE i > a
    <3>1. i - a \in 1..b /\ h[i - a] \in 1..d /\ k[i] = c + h[i - a] BY <1>3, <1>5, <2>2
    <3>2. k[i] \in 1..(c + d) /\ k[i] > c /\ k[i] - c = h[i - a] BY <1>3, <3>1
    <3>3. m[i] = m2[i - a] BY <1>1, <1>3, <2>2
    <3>4. n[k[i]] = n2[h[i - a]] BY <1>2, <1>3, <3>1, <3>2
    <3>5. m2[i - a] = n2[h[i - a]] BY <1>5, <3>1
    <3>6. ~ (i <= a) BY <1>3, <2>2
    <3> QED BY <3>1, <3>2, <3>3, <3>4, <3>5, <3>6
  <2> QED BY <1>3, <2>1, <2>2
<1>7. ASSUME NEW i \in 1..(a + b), NEW j \in 1..(a + b), k[i] = k[j] PROVE i = j
  <2>1. CASE i <= a
    <3>1. k[j] <= c BY <1>6, <1>7, <2>1
    <3>2. j <= a BY <1>3, <1>6, <3>1
    <3>3. i \in 1..a /\ j \in 1..a /\ g[i] = g[j] BY <1>3, <1>6, <1>7, <2>1, <3>2
    <3> QED BY <1>4, <3>3
  <2>2. CASE i > a
    <3>1. k[j] > c BY <1>6, <1>7, <2>2
    <3>2. j > a BY <1>3, <1>6, <3>1
    <3>3. i - a \in 1..b /\ j - a \in 1..b /\ h[i - a] = h[j - a] BY <1>6, <1>7, <2>2, <3>2
    <3>4. i - a = j - a BY <1>5, <3>3
    <3> QED BY <1>3, <3>4
  <2> QED BY <1>3, <2>1, <2>2
<1>8. k \in [1..(a + b) -> 1..(c + d)] BY <1>6
<1> HIDE DEF k
<1>9. /\ k \in [1..Len(m) -> 1..Len(n)]
      /\ \A i \in 1..Len(m) : m[i] = n[k[i]]
      /\ \A i, j \in 1..Len(m) : k[i] = k[j] => i = j
  BY <1>1, <1>2, <1>6, <1>7, <1>8
<1>10. Drawn(S, m, n) BY <1>1, <1>2, <1>9 DEF Drawn
<1> QED BY <1>10 DEF m, n

\* What is drawn from different names are different names.
LEMMA DrawnUnique ==
  ASSUME NEW S, NEW m, NEW n, Drawn(S, m, n), NamesUnique(n)
  PROVE  NamesUnique(m)
<1>1. /\ DOMAIN m = 1..Len(m) /\ DOMAIN n = 1..Len(n) BY LenProperties DEF Drawn
<1>2. PICK h \in [1..Len(m) -> 1..Len(n)] : /\ \A i \in 1..Len(m) : m[i] = n[h[i]]
                                            /\ \A i, j \in 1..Len(m) : h[i] = h[j] => i = j
  BY DEF Drawn
<1>0. "" \notin ToSet(n) /\ \A x, y \in 1..Len(n) : n[x] = n[y] => x = y
  BY <1>1 DEF NamesUnique, IsInjective
<1>3. "" \notin ToSet(m)
  <2>1. \A i \in 1..Len(m) : h[i] \in 1..Len(n) BY <1>2
  <2>2. ASSUME NEW i \in 1..Len(m) PROVE m[i] # ""
    <3>1. n[h[i]] \in ToSet(n) BY <1>1, <2>1 DEF ToSet
    <3> QED BY <1>0, <1>2, <3>1
  <2> QED BY <1>1, <2>2 DEF ToSet
<1>4. IsInjective(m)
  <2> SUFFICES ASSUME NEW i \in 1..Len(m), NEW j \in 1..Len(m), m[i] = m[j] PROVE i = j BY <1>1 DEF IsInjective
  <2>0. h[i] \in 1..Len(n) /\ h[j] \in 1..Len(n) BY <1>2
  <2>1. h[i] = h[j] BY <1>0, <1>2, <2>0
  <2> QED BY <1>2, <2>1
<1> QED BY <1>3, <1>4 DEF NamesUnique

-----------------------------------------------------------------------------
\* Which tools a role gets

IsCaps(c) ==
  /\ c = [terminal |-> c.terminal, file |-> c.file, custom |-> c.custom, services |-> c.services]
  /\ IsSeq(c.terminal) /\ IsSeq(c.file) /\ IsSeq(c.custom)
  /\ c.services \subseteq {"mcp", "messaging", "memory"}

\* applyRolePolicy() binds what it may.
LEMMA RolePolicyBinds ==
  ASSUME NEW c, NEW role, NEW denied, NEW agrees
  PROVE  LET bound == ApplyRolePolicy(c, role, denied, agrees).caps
         IN /\ bound.terminal = Only(c.terminal, BoundTools(c.terminal, role, "terminal", denied, agrees))
            /\ bound.file = Only(c.file, BoundTools(c.file, role, "file", denied, agrees))
            /\ bound.custom = Only(c.custom, BoundTools(c.custom, role, "custom", denied, agrees))
            /\ bound.services = {s \in c.services : BindsCapability(s, role, denied, agrees)}
BY DEF ApplyRolePolicy, FilterTools

\* A tool that is bound has effects that the role has and nothing denies.
LEMMA BoundTool ==
  ASSUME NEW tools, NEW role, NEW category, NEW denied, NEW agrees,
         NEW t \in BoundTools(tools, role, category, denied, agrees)
  PROVE  /\ t \in ToSet(tools) /\ t.name \in agrees
         /\ t.effects \subseteq AllowedEffects(role, category) /\ t.effects \cap denied = {}
BY DEF BoundTools, DeniedEffects

\* So is a capability.
LEMMA BoundCapability ==
  ASSUME NEW s, NEW role, NEW denied, NEW agrees, BindsCapability(s, role, denied, agrees)
  PROVE  /\ s \in agrees
         /\ CapabilityEffects[s] \subseteq AllowedEffects(role, "all") /\ CapabilityEffects[s] \cap denied = {}
BY DEF BindsCapability, AllowsAll

\* What is bound of a kind is what may be.
LEMMA BoundOfKind ==
  ASSUME NEW c, IsCaps(c), NEW role, NEW denied, NEW agrees, NEW k \in ToolKinds
  PROVE  ToSet(ApplyRolePolicy(c, role, denied, agrees).caps[k]) = BoundTools(c[k], role, k, denied, agrees)
<1> DEFINE bound == ApplyRolePolicy(c, role, denied, agrees).caps
           B == BoundTools(c[k], role, k, denied, agrees)
<1>1. IsSeq(c[k]) BY DEF IsCaps, ToolKinds
<1>2. bound[k] = Only(c[k], B) BY RolePolicyBinds DEF ToolKinds
<1>3. ToSet(c[k]) \cap B = B BY DEF BoundTools
<1> HIDE DEF bound, B
<1>4. ToSet(Only(c[k], B)) = ToSet(c[k]) \cap B BY <1>1, OnlyOf
<1>5. ToSet(bound[k]) = B BY <1>2, <1>3, <1>4
<1> QED BY <1>5 DEF bound, B

\* The effects of what is bound.
LEMMA EffectsBound ==
  ASSUME NEW c, IsCaps(c), NEW role, NEW denied, NEW agrees,
         NEW e \in BoundEffects(ApplyRolePolicy(c, role, denied, agrees).caps)
  PROVE  /\ e \notin denied
         /\ \/ e \in AllowedEffects(role, "all") \/ e \in AllowedEffects(role, "file") \/ e \in AllowedEffects(role, "custom")
            \/ e \in AllowedEffects(role, "terminal") /\ ToSet(ApplyRolePolicy(c, role, denied, agrees).caps.terminal) # {}
<1> DEFINE bound == ApplyRolePolicy(c, role, denied, agrees).caps
<1>1. CASE \E s \in bound.services : e \in CapabilityEffects[s]
  <2>1. PICK s \in bound.services : e \in CapabilityEffects[s] BY <1>1
  <2>2. BindsCapability(s, role, denied, agrees) BY <2>1, RolePolicyBinds
  <2> QED BY <2>1, <2>2, BoundCapability
<1>2. CASE \E k \in ToolKinds : \E t \in ToSet(bound[k]) : e \in t.effects
  <2>1. PICK k \in ToolKinds : \E t \in ToSet(bound[k]) : e \in t.effects BY <1>2
  <2>2. PICK t \in ToSet(bound[k]) : e \in t.effects BY <2>1
  <2>3. t \in BoundTools(c[k], role, k, denied, agrees) BY <2>2, BoundOfKind
  <2>4. e \in AllowedEffects(role, k) /\ e \notin denied BY <2>2, <2>3, BoundTool
  <2> HIDE DEF bound
  <2>5. k \in {"terminal", "file", "custom"} BY DEF ToolKinds
  <2>6. k = "terminal" => bound.terminal = bound[k] OBVIOUS
  <2>7. k = "terminal" => ToSet(bound.terminal) # {} BY <2>2, <2>6
  <2> QED BY <2>4, <2>5, <2>7 DEF bound
<1>3. e \in BoundEffects(bound) OBVIOUS
<1> HIDE DEF bound
<1>4. \/ \E s \in bound.services : e \in CapabilityEffects[s]
      \/ \E k \in ToolKinds : \E t \in ToSet(bound[k]) : e \in t.effects
  BY <1>3 DEF BoundEffects
<1> QED BY <1>1, <1>2, <1>4

\* What is bound is agreed to.
LEMMA NamesBound ==
  ASSUME NEW c, IsCaps(c), NEW role, NEW denied, NEW agrees
  PROVE  BoundNames(ApplyRolePolicy(c, role, denied, agrees).caps) \subseteq agrees
<1> DEFINE bound == ApplyRolePolicy(c, role, denied, agrees).caps
<1>1. \A s \in bound.services : s \in agrees BY RolePolicyBinds, BoundCapability
<1>2. ASSUME NEW k \in ToolKinds, NEW t \in ToSet(bound[k]) PROVE t.name \in agrees
  <2>1. t \in BoundTools(c[k], role, k, denied, agrees) BY <1>2, BoundOfKind
  <2> QED BY <2>1, BoundTool
<1> HIDE DEF bound
<1>3. BoundNames(bound) \subseteq agrees BY <1>1, <1>2 DEF BoundNames
<1> QED BY <1>3 DEF bound

\* A role reads, unless it is told to do more; one that verifies changes nothing
\* without a terminal.
LEMMA RoleKept ==
  ASSUME NEW c, IsCaps(c), NEW kind, NEW denied, NEW agrees
  PROVE  RoleKeeps(kind, ApplyRolePolicy(c, PolicyForRole(kind, FALSE), denied, agrees).caps)
<1> DEFINE role == PolicyForRole(kind, FALSE)
           bound == ApplyRolePolicy(c, role, denied, agrees).caps
<1>1. ASSUME NEW e \in BoundEffects(bound)
      PROVE  \/ e \in AllowedEffects(role, "all") \/ e \in AllowedEffects(role, "file") \/ e \in AllowedEffects(role, "custom")
             \/ e \in AllowedEffects(role, "terminal") /\ ToSet(bound.terminal) # {}
  <2> HIDE DEF role
  <2> QED BY <1>1, EffectsBound
<1>2. ASSUME kind \notin {"root", "builder", "verifier"} PROVE BoundEffects(bound) \subseteq ReadEffects
  <2>1. role = "read-only" BY <1>2 DEF PolicyForRole
  <2>2. \A k : AllowedEffects(role, k) = ReadEffects BY <2>1 DEF AllowedEffects
  <2> HIDE DEF bound, role
  <2> QED BY <1>1, <2>2
<1>3. ASSUME kind = "verifier", bound.terminal = <<>> PROVE BoundEffects(bound) \cap MutatingEffects = {}
  <2>1. role = "verify" BY <1>3 DEF PolicyForRole
  <2>2. \A k : k # "terminal" => AllowedEffects(role, k) = ReadEffects \cup {"artifact.write"} BY <2>1 DEF AllowedEffects
  <2>3. ToSet(bound.terminal) = {}
    <3> HIDE DEF bound
    <3> QED BY <1>3 DEF ToSet
  <2> HIDE DEF bound, role
  <2>4. \A e \in BoundEffects(bound) : e \in ReadEffects \cup {"artifact.write"} BY <1>1, <2>2, <2>3
  <2>5. (ReadEffects \cup {"artifact.write"}) \cap MutatingEffects = {} BY DEF ReadEffects, MutatingEffects
  <2> QED BY <2>4, <2>5
<1> HIDE DEF bound
<1>4. RoleKeeps(kind, bound) BY <1>2, <1>3 DEF RoleKeeps
<1> QED BY <1>4 DEF bound

\* What is recorded as denied is.
LEMMA RecordKept ==
  ASSUME NEW c, IsCaps(c), NEW role, NEW profile, NEW network, NEW mcp, NEW agrees
  PROVE  RecordedKeeps(ProfileDecisions(profile, network, mcp), ApplyRolePolicy(c, role, ProfileDenied(profile, network, mcp), agrees).caps)
<1> DEFINE denied == ProfileDenied(profile, network, mcp)
           bound == ApplyRolePolicy(c, role, denied, agrees).caps
           told == ProfileDecisions(profile, network, mcp)
<1>1. BoundEffects(bound) \cap denied = {}
  <2> HIDE DEF denied
  <2> QED BY EffectsBound
<1>2. ~ told.network => "network.egress" \in denied BY DEF ProfileDecisions, ProfileDenied
<1>3. ~ told.mcp => {"mcp.launch", "secret.read"} \subseteq denied BY DEF ProfileDecisions, ProfileDenied
<1>4. ~ told.sandbox => {"sandbox.create", "network.egress", "secret.read"} \subseteq denied BY DEF ProfileDecisions, ProfileDenied
<1> HIDE DEF denied, bound, told
<1>5. RecordedKeeps(told, bound) BY <1>1, <1>2, <1>3, <1>4 DEF RecordedKeeps
<1> QED BY <1>5 DEF denied, bound, told

\* What the tools of a kind are told, each whether it is bound.
KindVerdicts(tools, role, category, denied, agrees) ==
  {Told(t.name, t \in BoundTools(tools, role, category, denied, agrees)) : t \in ToSet(tools)}

LEMMA DecisionsOfKind ==
  ASSUME NEW tools, IsSeq(tools), NEW role, NEW category, NEW denied, NEW agrees, NEW S,
         KindVerdicts(tools, role, category, denied, agrees) \subseteq S
  PROVE  LET d == FilterTools(tools, role, category, denied, agrees).decisions
         IN /\ d \in Seq(S) /\ Len(d) = Len(tools)
            /\ ToSet(d) = KindVerdicts(tools, role, category, denied, agrees)
<1> DEFINE B == BoundTools(tools, role, category, denied, agrees)
           d == FilterTools(tools, role, category, denied, agrees).decisions
           n == Len(tools)
<1>1. n \in Nat /\ DOMAIN tools = 1..n BY DEF IsSeq
<1>2. d = [i \in 1..n |-> Told(tools[i].name, tools[i] \in B)] BY <1>1 DEF FilterTools
<1>3. KindVerdicts(tools, role, category, denied, agrees) = {Told(t.name, t \in B) : t \in ToSet(tools)} BY DEF KindVerdicts
<1> HIDE DEF B, d, n
<1>4. d = [i \in 1..n |-> d[i]] BY <1>2
<1>5. ToSet(d) = {Told(t.name, t \in B) : t \in ToSet(tools)} BY <1>1, <1>2 DEF ToSet
<1>6. \A i \in 1..n : d[i] \in S
  <2>1. DOMAIN d = 1..n BY <1>2
  <2>2. \A i \in 1..n : d[i] \in ToSet(d) BY <2>1 DEF ToSet
  <2> QED BY <1>3, <1>5, <2>2
<1>7. d \in Seq(S) /\ Len(d) = n BY <1>1, <1>4, <1>6, FunctionSeq
<1> QED BY <1>3, <1>5, <1>7 DEF d, n

\* What four sequences hold together.
LEMMA FourHold ==
  ASSUME NEW S, NEW a \in Seq(S), NEW b \in Seq(S), NEW c \in Seq(S), NEW d \in Seq(S)
  PROVE  /\ Len(a \o b \o c \o d) = Len(a) + Len(b) + Len(c) + Len(d)
         /\ ToSet(a \o b \o c \o d) = ToSet(a) \cup ToSet(b) \cup ToSet(c) \cup ToSet(d)
<1>1. a \o b \in Seq(S) /\ Len(a \o b) = Len(a) + Len(b) /\ ToSet(a \o b) = ToSet(a) \cup ToSet(b) BY ConcatHolds
<1>2. PICK ab \in Seq(S) : ab = a \o b BY <1>1
<1>3. ab \o c \in Seq(S) /\ Len(ab \o c) = Len(ab) + Len(c) /\ ToSet(ab \o c) = ToSet(ab) \cup ToSet(c) BY ConcatHolds
<1>4. PICK abc \in Seq(S) : abc = ab \o c BY <1>3
<1>5. Len(abc \o d) = Len(abc) + Len(d) /\ ToSet(abc \o d) = ToSet(abc) \cup ToSet(d) BY ConcatHolds
<1>6. abc \o d = a \o b \o c \o d BY <1>2, <1>4
<1>7. Len(abc \o d) = Len(a) + Len(b) + Len(c) + Len(d) BY <1>1, <1>2, <1>3, <1>4, <1>5
<1>8. ToSet(abc \o d) = ToSet(a) \cup ToSet(b) \cup ToSet(c) \cup ToSet(d) BY <1>1, <1>2, <1>3, <1>4, <1>5
<1> QED BY <1>6, <1>7, <1>8

\* What is bound of the services is told of each.
LEMMA DecisionsOfServices ==
  ASSUME NEW asked, asked \subseteq {"mcp", "messaging", "memory"}, NEW bound, NEW S,
         {Told(s, s \in bound) : s \in asked} \subseteq S
  PROVE  LET q == SetToSeq(asked)
             d == [i \in DOMAIN q |-> Told(q[i], q[i] \in bound)]
         IN d \in Seq(S) /\ Len(d) = Cardinality(asked) /\ ToSet(d) = {Told(s, s \in bound) : s \in asked}
<1> DEFINE n == Cardinality(asked)
           q == SetToSeq(asked)
           d == [i \in DOMAIN q |-> Told(q[i], q[i] \in bound)]
           V == {Told(s, s \in bound) : s \in asked}
<1>1. IsFiniteSet(asked)
  <2>1. IsFiniteSet({}) BY FS_EmptySet
  <2>2. IsFiniteSet({} \cup {"mcp"}) BY <2>1, FS_AddElement
  <2>3. IsFiniteSet({} \cup {"mcp"} \cup {"messaging"}) BY <2>2, FS_AddElement
  <2>4. IsFiniteSet({} \cup {"mcp"} \cup {"messaging"} \cup {"memory"}) BY <2>3, FS_AddElement
  <2>5. asked \in SUBSET ({} \cup {"mcp"} \cup {"messaging"} \cup {"memory"}) OBVIOUS
  <2> QED BY <2>4, <2>5, FS_Subset
<1>2. q \in [1..n -> asked] /\ n \in Nat /\ ToSet(q) = asked BY <1>1, SetInSeq
<1>0. V \subseteq S OBVIOUS
<1> HIDE DEF q, n
<1>3. d = [i \in 1..n |-> Told(q[i], q[i] \in bound)] BY <1>2
<1>4. d = [i \in 1..n |-> d[i]] BY <1>3
<1>5. ToSet(d) = V BY <1>2, <1>3 DEF ToSet
<1>6. \A i \in 1..n : d[i] \in S
  <2>1. \A i \in 1..n : d[i] \in ToSet(d) BY <1>3 DEF ToSet
  <2> QED BY <1>0, <1>5, <2>1
<1> HIDE DEF d, V
<1>7. d \in Seq(S) /\ Len(d) = n BY <1>2, <1>4, <1>6, FunctionSeq
<1> QED BY <1>5, <1>7 DEF n, d, q, V

\* What is offered is told once.
LEMMA Decided ==
  ASSUME NEW c, IsCaps(c), NEW role, NEW denied, NEW agrees
  PROVE  DecidedOnce(c, ApplyRolePolicy(c, role, denied, agrees))
<1> DEFINE answer == ApplyRolePolicy(c, role, denied, agrees)
           services == {s \in c.services : BindsCapability(s, role, denied, agrees)}
           q == SetToSeq(c.services)
           V(k) == KindVerdicts(c[k], role, k, denied, agrees)
           v1 == KindVerdicts(c.terminal, role, "terminal", denied, agrees)
           v2 == KindVerdicts(c.file, role, "file", denied, agrees)
           v3 == KindVerdicts(c.custom, role, "custom", denied, agrees)
           v4 == {Told(s, s \in services) : s \in c.services}
           S == v1 \cup v2 \cup v3 \cup v4
           d1 == FilterTools(c.terminal, role, "terminal", denied, agrees).decisions
           d2 == FilterTools(c.file, role, "file", denied, agrees).decisions
           d3 == FilterTools(c.custom, role, "custom", denied, agrees).decisions
           d4 == [i \in DOMAIN q |-> Told(q[i], q[i] \in services)]
<1>1. answer.decisions = d1 \o d2 \o d3 \o d4 BY DEF ApplyRolePolicy
<1>2. v1 \subseteq S /\ v2 \subseteq S /\ v3 \subseteq S /\ v4 \subseteq S OBVIOUS
<1>3. d1 \in Seq(S) /\ Len(d1) = Len(c.terminal) /\ ToSet(d1) = v1
  <2> HIDE DEF S
  <2> QED BY <1>2, DecisionsOfKind DEF IsCaps
<1>4. d2 \in Seq(S) /\ Len(d2) = Len(c.file) /\ ToSet(d2) = v2
  <2> HIDE DEF S
  <2> QED BY <1>2, DecisionsOfKind DEF IsCaps
<1>5. d3 \in Seq(S) /\ Len(d3) = Len(c.custom) /\ ToSet(d3) = v3
  <2> HIDE DEF S
  <2> QED BY <1>2, DecisionsOfKind DEF IsCaps
<1>6. d4 \in Seq(S) /\ Len(d4) = Cardinality(c.services) /\ ToSet(d4) = v4
  <2> HIDE DEF S, services
  <2> QED BY <1>2, DecisionsOfServices DEF IsCaps
<1>7. Verdicts(c, answer.caps) = S
  <2>1. answer.caps.services = services BY RolePolicyBinds
  <2>2. ASSUME NEW k \in ToolKinds PROVE {Told(t.name, t \in ToSet(answer.caps[k])) : t \in ToSet(c[k])} = V(k)
    <3>1. ToSet(answer.caps[k]) = BoundTools(c[k], role, k, denied, agrees) BY BoundOfKind
    <3> QED BY <3>1 DEF KindVerdicts
  <2>3. V("terminal") = v1 /\ V("file") = v2 /\ V("custom") = v3 OBVIOUS
  <2> DEFINE W == [k \in ToolKinds |-> V(k)]
  <2>4. Verdicts(c, answer.caps) = (UNION {W[k] : k \in ToolKinds}) \cup v4
    <3> HIDE DEF V, answer, services
    <3> QED BY <2>1, <2>2 DEF Verdicts
  <2>5. W["terminal"] = v1 /\ W["file"] = v2 /\ W["custom"] = v3 BY <2>3 DEF ToolKinds
  <2> HIDE DEF W, V, v1, v2, v3, v4
  <2>6. UNION {W[k] : k \in ToolKinds} = v1 \cup v2 \cup v3 BY <2>5 DEF ToolKinds
  <2>7. (UNION {W[k] : k \in ToolKinds}) \cup v4 = S BY <2>6 DEF S
  <2> QED BY <2>4, <2>7
<1> HIDE DEF d1, d2, d3, d4, v1, v2, v3, v4, answer
<1>8. /\ Len(d1 \o d2 \o d3 \o d4) = Len(d1) + Len(d2) + Len(d3) + Len(d4)
      /\ ToSet(d1 \o d2 \o d3 \o d4) = ToSet(d1) \cup ToSet(d2) \cup ToSet(d3) \cup ToSet(d4)
  <2> HIDE DEF S
  <2>1. d1 \in Seq(S) /\ d2 \in Seq(S) /\ d3 \in Seq(S) /\ d4 \in Seq(S) BY <1>3, <1>4, <1>5, <1>6
  <2> QED BY <2>1, FourHold
<1>9. DecidedOnce(c, answer) BY <1>1, <1>3, <1>4, <1>5, <1>6, <1>7, <1>8 DEF DecidedOnce
<1> QED BY <1>9 DEF answer

\* The names of the tools that are kept are drawn from those of all.
NamesOf(tools) == [i \in DOMAIN tools |-> tools[i].name]

LEMMA DrawnNames ==
  ASSUME NEW tools, IsSeq(tools), NEW B, NEW S, \A t \in ToSet(tools) : t.name \in S
  PROVE  Drawn(S, NamesOf(Only(tools, B)), NamesOf(tools))
<1> DEFINE t == Only(tools, B)
           m == NamesOf(t)
           n == NamesOf(tools)
<1>1. PICK g : Picks(tools, B, Len(tools), t, g) BY OnlyPicks
<1>2. Len(tools) \in Nat /\ DOMAIN tools = 1..Len(tools) BY DEF IsSeq
<1>3. t \in Seq(ToSet(tools) \cap B) BY OnlyOf
<1>4. Len(t) \in Nat /\ DOMAIN t = 1..Len(t) BY <1>3, LenProperties
<1>5. g \in [1..Len(t) -> 1..Len(tools)] /\ \A k \in 1..Len(t) : t[k] = tools[g[k]] BY <1>1 DEF Picks
<1>6. \A i, j \in 1..Len(t) : g[i] = g[j] => i = j
  <2> SUFFICES ASSUME NEW i \in 1..Len(t), NEW j \in 1..Len(t), i < j PROVE g[i] # g[j] BY <1>4
  <2>1. g[i] < g[j] BY <1>1 DEF Picks
  <2>2. g[i] \in Nat /\ g[j] \in Nat BY <1>2, <1>5
  <2> QED BY <2>1, <2>2
<1> HIDE DEF t
<1>7. m = [i \in 1..Len(t) |-> m[i]] /\ \A i \in 1..Len(t) : m[i] = t[i].name BY <1>4 DEF NamesOf
<1>8. n = [i \in 1..Len(tools) |-> n[i]] /\ \A i \in 1..Len(tools) : n[i] = tools[i].name BY <1>2 DEF NamesOf
<1> HIDE DEF m, n
<1>9. \A i \in 1..Len(tools) : n[i] \in S BY <1>2, <1>8 DEF ToSet
<1>10. n \in Seq(S) /\ Len(n) = Len(tools) BY <1>2, <1>8, <1>9, FunctionSeq
<1>11. \A i \in 1..Len(t) : m[i] = n[g[i]] BY <1>5, <1>7, <1>8
<1>12. \A i \in 1..Len(t) : m[i] \in S BY <1>5, <1>9, <1>11
<1>13. m \in Seq(S) /\ Len(m) = Len(t) BY <1>4, <1>7, <1>12, FunctionSeq
<1>14. Drawn(S, m, n) BY <1>5, <1>6, <1>10, <1>11, <1>13 DEF Drawn
<1> QED BY <1>14 DEF m, n, t

\* The tools of fewer services are drawn from those of more.
ServiceNames(services) ==
  LET q == Only(<<"mcp", "messaging", "memory">>, services) IN [i \in DOMAIN q |-> ServiceTool[q[i]]]

LEMMA DrawnServices ==
  ASSUME NEW A, NEW B, A \subseteq B, NEW S, \A x \in {"mcp", "messaging", "memory"} : ServiceTool[x] \in S
  PROVE  Drawn(S, ServiceNames(A), ServiceNames(B))
<1> DEFINE all == <<"mcp", "messaging", "memory">>
           a == Only(all, A)
           b == Only(all, B)
           m == ServiceNames(A)
           n == ServiceNames(B)
<1>1. IsSeq(all) /\ Len(all) = 3 /\ ToSet(all) = {"mcp", "messaging", "memory"} BY DEF IsSeq, ToSet
<1> HIDE DEF all
<1>2. PICK g : Picks(all, A, 3, a, g) BY <1>1, OnlyPicks
<1>3. PICK h : Picks(all, B, 3, b, h) BY <1>1, OnlyPicks
<1>4. a \in Seq(ToSet(all) \cap A) /\ b \in Seq(ToSet(all) \cap B) BY <1>1, OnlyOf
<1>5. Len(a) \in Nat /\ DOMAIN a = 1..Len(a) /\ Len(b) \in Nat /\ DOMAIN b = 1..Len(b)
  BY <1>4, LenProperties
<1>6. (\A i \in 1..Len(a) : a[i] \in ToSet(all) \cap A) /\ \A i \in 1..Len(b) : b[i] \in ToSet(all) \cap B
  BY <1>4, ElementOfSeq
<1> HIDE DEF a, b
<1>7. \A i \in 1..Len(a) : \E j \in 1..Len(b) : h[j] = g[i]
  <2> TAKE i \in 1..Len(a)
  <2>1. g[i] \in 1..3 /\ all[g[i]] = a[i] BY <1>2 DEF Picks
  <2>2. all[g[i]] \in B BY <1>6, <2>1
  <2> QED BY <1>3, <2>1, <2>2 DEF Picks
<1> DEFINE f == [i \in 1..Len(a) |-> CHOOSE j \in 1..Len(b) : h[j] = g[i]]
<1>8. \A i \in 1..Len(a) : f[i] \in 1..Len(b) /\ h[f[i]] = g[i] BY <1>7
<1>9. f \in [1..Len(a) -> 1..Len(b)] BY <1>8
<1> HIDE DEF f
<1>10. \A i \in 1..Len(a) : a[i] = b[f[i]] BY <1>2, <1>3, <1>8 DEF Picks
<1>11. \A i, j \in 1..Len(a) : f[i] = f[j] => i = j
  <2> SUFFICES ASSUME NEW i \in 1..Len(a), NEW j \in 1..Len(a), i < j PROVE f[i] # f[j] BY <1>5
  <2>1. g[i] < g[j] /\ g[i] \in 1..3 /\ g[j] \in 1..3 BY <1>2 DEF Picks
  <2>2. g[i] # g[j] BY <2>1
  <2> QED BY <1>8, <2>2
<1>12. m = [i \in 1..Len(a) |-> m[i]] /\ \A i \in 1..Len(a) : m[i] = ServiceTool[a[i]]
  BY <1>5 DEF ServiceNames, a, all
<1>13. n = [i \in 1..Len(b) |-> n[i]] /\ \A i \in 1..Len(b) : n[i] = ServiceTool[b[i]]
  BY <1>5 DEF ServiceNames, b, all
<1> HIDE DEF m, n
<1>14. m \in Seq(S) /\ Len(m) = Len(a)
  <2>1. \A i \in 1..Len(a) : m[i] \in S BY <1>1, <1>6, <1>12
  <2> QED BY <1>5, <1>12, <2>1, FunctionSeq
<1>15. n \in Seq(S) /\ Len(n) = Len(b)
  <2>1. \A i \in 1..Len(b) : n[i] \in S BY <1>1, <1>6, <1>13
  <2> QED BY <1>5, <1>13, <2>1, FunctionSeq
<1>16. \A i \in 1..Len(a) : m[i] = n[f[i]] BY <1>8, <1>10, <1>12, <1>13
<1>17. Drawn(S, m, n) BY <1>9, <1>11, <1>14, <1>15, <1>16 DEF Drawn
<1> QED BY <1>17 DEF m, n

\* What is bound of what has names of its own has.
LEMMA NamesStayUnique ==
  ASSUME NEW c, IsCaps(c), NEW role, NEW denied, NEW agrees, NamesUnique(ToolNames(c))
  PROVE  NamesUnique(ToolNames(ApplyRolePolicy(c, role, denied, agrees).caps))
<1> DEFINE bound == ApplyRolePolicy(c, role, denied, agrees).caps
           S == {t.name : t \in ToSet(c.terminal) \cup ToSet(c.file) \cup ToSet(c.custom)}
                \cup {ServiceTool[x] : x \in {"mcp", "messaging", "memory"}}
           m1 == NamesOf(bound.terminal)
           m2 == NamesOf(bound.file)
           m3 == NamesOf(bound.custom)
           m4 == ServiceNames(bound.services)
           n1 == NamesOf(c.terminal)
           n2 == NamesOf(c.file)
           n3 == NamesOf(c.custom)
           n4 == ServiceNames(c.services)
<1>1. Drawn(S, m1, n1)
  <2>1. \A t \in ToSet(c.terminal) : t.name \in S OBVIOUS
  <2> HIDE DEF S
  <2> QED BY <2>1, DrawnNames, RolePolicyBinds DEF IsCaps
<1>2. Drawn(S, m2, n2)
  <2>1. \A t \in ToSet(c.file) : t.name \in S OBVIOUS
  <2> HIDE DEF S
  <2> QED BY <2>1, DrawnNames, RolePolicyBinds DEF IsCaps
<1>3. Drawn(S, m3, n3)
  <2>1. \A t \in ToSet(c.custom) : t.name \in S OBVIOUS
  <2> HIDE DEF S
  <2> QED BY <2>1, DrawnNames, RolePolicyBinds DEF IsCaps
<1>4. Drawn(S, m4, n4)
  <2>1. \A x \in {"mcp", "messaging", "memory"} : ServiceTool[x] \in S OBVIOUS
  <2>2. bound.services \subseteq c.services BY RolePolicyBinds
  <2> HIDE DEF S, bound
  <2> QED BY <2>1, <2>2, DrawnServices
<1>5. ToolNames(bound) = m1 \o m2 \o m3 \o m4 BY DEF ToolNames, NamesOf, ServiceNames
<1>6. ToolNames(c) = n1 \o n2 \o n3 \o n4 BY DEF ToolNames, NamesOf, ServiceNames
<1> HIDE DEF S, m1, m2, m3, m4, n1, n2, n3, n4, bound
<1>7. Drawn(S, m1 \o m2, n1 \o n2) BY <1>1, <1>2, DrawnConcat
<1>8. Drawn(S, m1 \o m2 \o m3, n1 \o n2 \o n3) BY <1>3, <1>7, DrawnConcat
<1>9. Drawn(S, m1 \o m2 \o m3 \o m4, n1 \o n2 \o n3 \o n4) BY <1>4, <1>8, DrawnConcat
<1>10. NamesUnique(ToolNames(bound)) BY <1>5, <1>6, <1>9, DrawnUnique
<1> QED BY <1>10 DEF bound

\* For any tools, profile, role and evaluator: no tool is bound that one of them
\* refuses, what the run records as denied is, each offer is decided once, and
\* names stay different (applyRolePolicy, filterToolsByEffect, profileDeniedEffects).
THEOREM PolicyAlwaysBinds ==
  ASSUME NEW caps, IsCaps(caps), NEW profile, NEW kind, NEW network, NEW mcp, NEW agrees
  PROVE  PolicyBinds(caps, profile, kind, network, mcp, agrees)
<1> DEFINE c == ApplyProfile(caps, profile, mcp)
<1>1. IsCaps(c)
  <2>1. /\ c = [terminal |-> caps.terminal, file |-> caps.file, custom |-> caps.custom, services |-> c.services]
        /\ c.services \subseteq caps.services
    BY DEF ApplyProfile, IsCaps
  <2> HIDE DEF c
  <2>2. c.terminal = caps.terminal /\ c.file = caps.file /\ c.custom = caps.custom BY <2>1
  <2>3. c.services \subseteq {"mcp", "messaging", "memory"} BY <2>1 DEF IsCaps
  <2>4. c = [terminal |-> c.terminal, file |-> c.file, custom |-> c.custom, services |-> c.services] BY <2>1, <2>2
  <2> QED BY <2>2, <2>3, <2>4 DEF IsCaps
<1> HIDE DEF c
<1> DEFINE role == PolicyForRole(kind, FALSE)
           denied == ProfileDenied(profile, network, mcp)
           answer == ApplyRolePolicy(c, role, denied, agrees)
<1>2. BoundNames(answer.caps) \subseteq agrees
  <2> HIDE DEF role, denied
  <2> QED BY <1>1, NamesBound
<1>3. RoleKeeps(kind, answer.caps)
  <2> HIDE DEF denied
  <2> QED BY <1>1, RoleKept
<1>4. RecordedKeeps(ProfileDecisions(profile, network, mcp), answer.caps)
  <2> HIDE DEF role
  <2> QED BY <1>1, RecordKept
<1>5. DecidedOnce(c, answer)
  <2> HIDE DEF role, denied
  <2> QED BY <1>1, Decided
<1>6. NamesUnique(ToolNames(c)) => NamesUnique(ToolNames(answer.caps))
  <2> HIDE DEF role, denied
  <2> QED BY <1>1, NamesStayUnique
<1> HIDE DEF answer
<1> QED BY <1>2, <1>3, <1>4, <1>5, <1>6 DEF PolicyBinds, answer, role, denied, c

-----------------------------------------------------------------------------
\* Lifecycle hooks

IsMode(m)   == m \in {"fail-open", "fail-closed"}
IsModed(r)  == "failureMode" \in DOMAIN r => IsMode(r.failureMode)
BeforeTool(tool) == [event |-> "PreToolUse", toolName |-> tool]
Matching(hooks, context) == {h \in ToSet(hooks) : MatchesHook(h, context)}

\* A hook guards a tool when it matches the call.
LEMMA GuardMatches ==
  ASSUME NEW h, IsHook(h), NEW tool
  PROVE  MatchesHook(h, BeforeTool(tool)) <=> Guards(h, tool)
BY DEF MatchesHook, BeforeTool, Guards, IsHook

\* What refuses, blocks.
LEMMA RefusalBlocks ==
  ASSUME NEW h, IsHook(h), NEW defaults, IsModed(defaults), Refuses(h, defaults)
  PROVE  RunHook(defaults, h, "PreToolUse").decision = "block"
<1>1. CASE HookFails(h) /\ Default(h, "failureMode", Default(defaults, "failureMode", "fail-closed")) # "fail-open"
  <2>1. IsMode(Default(defaults, "failureMode", "fail-closed")) BY DEF Default, IsModed, IsMode
  <2>2. IsMode(Default(h, "failureMode", Default(defaults, "failureMode", "fail-closed")))
    BY <2>1 DEF Default, IsHook, IsMode
  <2>3. FailureMode(defaults, h, "PreToolUse") = "fail-closed" BY <1>1, <2>2 DEF FailureMode, IsMode
  <2> QED BY <1>1, <2>3 DEF RunHook
<1>2. CASE h.type = "command" /\ ~ h.run.timedOut /\ h.run.exit = 2 /\ h.run.stdout.decision = "none"
  <2>1. ~ HookFails(h) BY <1>2 DEF HookFails, CommandFails
  <2>2. CommandOutput(h.run).decision = "block" BY <1>2 DEF CommandOutput, IsHook
  <2> QED BY <1>2, <2>1, <2>2 DEF RunHook
<1>3. CASE h.type = "in-process" /\ ~ h.run.throws /\ h.run.stdout.decision = "block"
  <2>1. ~ HookFails(h) BY <1>3 DEF HookFails
  <2> QED BY <1>3, <2>1 DEF RunHook
<1> QED BY <1>1, <1>2, <1>3 DEF Refuses

\* What rewrites the input tells it, and nothing else does.
LEMMA RewriteTold ==
  ASSUME NEW h, IsHook(h), NEW defaults, NEW event
  PROVE  /\ "input" \in DOMAIN RunHook(defaults, h, event) <=> Rewrites(h)
         /\ Rewrites(h) => RunHook(defaults, h, event).input = h.run.stdout.input
<1> DEFINE r == RunHook(defaults, h, event)
<1>1. CASE HookFails(h)
  <2>1. DOMAIN r = {"decision"} BY <1>1 DEF RunHook
  <2> QED BY <1>1, <2>1 DEF Rewrites
<1>2. CASE ~ HookFails(h) /\ h.type = "command"
  <2>1. r = CommandOutput(h.run) BY <1>2 DEF RunHook
  <2>2. DOMAIN CommandOutput(h.run) = DOMAIN h.run.stdout BY DEF CommandOutput
  <2>3. "input" \in DOMAIN h.run.stdout => CommandOutput(h.run).input = h.run.stdout.input BY DEF CommandOutput
  <2> QED BY <1>2, <2>1, <2>2, <2>3 DEF Rewrites
<1>3. CASE ~ HookFails(h) /\ h.type = "in-process"
  <2>1. r = h.run.stdout BY <1>3 DEF RunHook
  <2> QED BY <1>3, <2>1 DEF Rewrites
<1>4. CASE ~ HookFails(h) /\ h.type \notin {"command", "in-process"}
  <2>1. DOMAIN r = {"decision"} BY <1>4 DEF RunHook
  <2> QED BY <1>4, <2>1 DEF Rewrites
<1> QED BY <1>1, <1>2, <1>3, <1>4

\* The records of the matching hooks, in the order of the hooks.
Recorded(defaults, hooks, context) ==
  LET matching == Only(hooks, Matching(hooks, context))
  IN [i \in DOMAIN matching |-> RunHook(defaults, matching[i], context.event)]
Rewritten(records) == {r \in ToSet(records) : "input" \in DOMAIN r}

\* g says which hook each record is of.
Records(defaults, hooks, context, g) ==
  LET records == Recorded(defaults, hooks, context)
  IN /\ IsSeq(records)
     /\ \A k \in 1..Len(records) :
          /\ g[k] \in 1..Len(hooks) /\ MatchesHook(hooks[g[k]], context)
          /\ records[k] = RunHook(defaults, hooks[g[k]], context.event)
     /\ \A k, m \in 1..Len(records) : k < m => g[k] < g[m]
     /\ \A i \in 1..Len(hooks) : MatchesHook(hooks[i], context) => \E k \in 1..Len(records) : g[k] = i

LEMMA SomeRecords ==
  ASSUME NEW hooks, IsSeq(hooks), NEW defaults, NEW context
  PROVE  \E g : Records(defaults, hooks, context, g)
<1> DEFINE M == Matching(hooks, context)
           t == Only(hooks, M)
           r == Recorded(defaults, hooks, context)
<1>1. PICK g : Picks(hooks, M, Len(hooks), t, g) BY OnlyPicks
<1>2. t \in Seq(ToSet(hooks) \cap M) BY OnlyOf
<1>3. DOMAIN t = 1..Len(t) /\ Len(t) \in Nat
  <2> HIDE DEF t, M
  <2> QED BY <1>2, LenProperties
<1>4. r = [i \in 1..Len(t) |-> RunHook(defaults, t[i], context.event)] BY <1>3 DEF Recorded
<1>5. \A i \in 1..Len(hooks) : hooks[i] \in M <=> MatchesHook(hooks[i], context) BY DEF Matching, ToSet, IsSeq
<1> HIDE DEF t, M
<1>6. \A k \in 1..Len(t) : g[k] \in 1..Len(hooks) /\ t[k] = hooks[g[k]] /\ t[k] \in M
  <2> TAKE k \in 1..Len(t)
  <2>1. t[k] \in ToSet(hooks) \cap M BY <1>2, ElementOfSeq
  <2> QED BY <1>1, <2>1 DEF Picks
<1>7. (\A k, m \in 1..Len(t) : k < m => g[k] < g[m])
      /\ \A i \in 1..Len(hooks) : hooks[i] \in M => \E k \in 1..Len(t) : g[k] = i
  BY <1>1 DEF Picks
<1>8. r = [i \in 1..Len(t) |-> r[i]] /\ \A i \in 1..Len(t) : r[i] = RunHook(defaults, t[i], context.event) BY <1>4
<1> HIDE DEF r
<1>9. Len(r) = Len(t) /\ IsSeq(r)
  <2>1. \A i \in 1..Len(t) : r[i] \in ToSet(r) BY <1>8 DEF ToSet
  <2>2. Len(r) = Len(t) BY <1>3, <1>8, <2>1, FunctionSeq
  <2> QED BY <1>3, <1>8, <2>2 DEF IsSeq
<1>10. \A k \in 1..Len(r) : /\ g[k] \in 1..Len(hooks) /\ MatchesHook(hooks[g[k]], context)
                            /\ r[k] = RunHook(defaults, hooks[g[k]], context.event)
  BY <1>5, <1>6, <1>8, <1>9
<1>11. Records(defaults, hooks, context, g) BY <1>5, <1>7, <1>9, <1>10 DEF Records, r
<1> QED BY <1>11

\* The last of the rewrites is the one of the last hook that rewrites.
LEMMA LastRewrite ==
  ASSUME NEW hooks, IsSeq(hooks), \A i \in DOMAIN hooks : IsHook(hooks[i]), NEW defaults, NEW tool
  PROVE  LET rewrites == RunHooks(defaults, hooks, BeforeTool(tool)).rewrites
         IN /\ rewrites # <<>> => \E i \in DOMAIN hooks : Guards(hooks[i], tool) /\ Rewrites(hooks[i])
            /\ \A i \in DOMAIN hooks :
                 (/\ Guards(hooks[i], tool) /\ Rewrites(hooks[i])
                  /\ \A j \in DOMAIN hooks : Guards(hooks[j], tool) /\ Rewrites(hooks[j]) => j <= i)
                 => rewrites # <<>> /\ rewrites[Len(rewrites)].input = hooks[i].run.stdout.input
<1> DEFINE context == BeforeTool(tool)
           records == Recorded(defaults, hooks, context)
           W == Rewritten(records)
           rewrites == Only(records, W)
<1>1. RunHooks(defaults, hooks, context).rewrites = rewrites BY DEF RunHooks, Recorded, Rewritten, Matching
<1>2. PICK g : Records(defaults, hooks, context, g) BY SomeRecords
<1>3. DOMAIN hooks = 1..Len(hooks) /\ Len(hooks) \in Nat BY DEF IsSeq
<1>4. IsSeq(records) BY <1>2 DEF Records
<1>5. DOMAIN records = 1..Len(records) /\ Len(records) \in Nat BY <1>4 DEF IsSeq
<1>6. context.event = "PreToolUse" BY DEF BeforeTool
<1> HIDE DEF context
<1>7. \A k \in 1..Len(records) : /\ g[k] \in 1..Len(hooks) /\ MatchesHook(hooks[g[k]], context)
                                 /\ records[k] = RunHook(defaults, hooks[g[k]], "PreToolUse")
  BY <1>2, <1>6 DEF Records
<1>8. (\A k, m \in 1..Len(records) : k < m => g[k] < g[m])
      /\ \A i \in 1..Len(hooks) : MatchesHook(hooks[i], context) => \E k \in 1..Len(records) : g[k] = i
  BY <1>2 DEF Records
<1>9. \A i \in 1..Len(hooks) : MatchesHook(hooks[i], context) <=> Guards(hooks[i], tool)
  BY <1>3, GuardMatches DEF context
<1>10. \A k \in 1..Len(records) : records[k] \in W <=> "input" \in DOMAIN records[k]
  BY <1>5 DEF Rewritten, ToSet
<1> HIDE DEF records, W
<1>11. \A k \in 1..Len(records) : records[k] \in W <=> Rewrites(hooks[g[k]])
  <2> TAKE k \in 1..Len(records)
  <2>1. IsHook(hooks[g[k]]) BY <1>3, <1>7
  <2>2. "input" \in DOMAIN RunHook(defaults, hooks[g[k]], "PreToolUse") <=> Rewrites(hooks[g[k]]) BY <2>1, RewriteTold
  <2> QED BY <1>7, <1>10, <2>2
<1>12. ASSUME rewrites # <<>>
       PROVE  \E m \in 1..Len(records) : /\ records[m] \in W /\ rewrites[Len(rewrites)] = records[m]
                                         /\ \A j \in 1..Len(records) : records[j] \in W => j <= m
  BY <1>4, <1>12, OnlyLast
<1>13. ToSet(rewrites) = ToSet(records) \cap W BY <1>4, OnlyOf
<1>14. ASSUME NEW k \in 1..Len(records), records[k] \in W PROVE rewrites # <<>>
  <2>1. records[k] \in ToSet(rewrites) BY <1>5, <1>13, <1>14 DEF ToSet
  <2>2. ToSet(<<>>) = {} BY DEF ToSet
  <2> QED BY <2>1, <2>2
<1> HIDE DEF rewrites
<1>15. ASSUME rewrites # <<>> PROVE \E i \in DOMAIN hooks : Guards(hooks[i], tool) /\ Rewrites(hooks[i])
  <2>1. PICK m \in 1..Len(records) : records[m] \in W BY <1>12, <1>15
  <2> QED BY <1>3, <1>7, <1>9, <1>11, <2>1
<1>16. ASSUME NEW i \in DOMAIN hooks, Guards(hooks[i], tool), Rewrites(hooks[i]),
              \A j \in DOMAIN hooks : Guards(hooks[j], tool) /\ Rewrites(hooks[j]) => j <= i
       PROVE  rewrites # <<>> /\ rewrites[Len(rewrites)].input = hooks[i].run.stdout.input
  <2>1. PICK k \in 1..Len(records) : g[k] = i BY <1>3, <1>8, <1>9, <1>16
  <2>2. records[k] \in W BY <1>11, <1>16, <2>1
  <2>3. rewrites # <<>> BY <1>14, <2>2
  <2>4. PICK m \in 1..Len(records) : /\ records[m] \in W /\ rewrites[Len(rewrites)] = records[m]
                                     /\ \A j \in 1..Len(records) : records[j] \in W => j <= m
    BY <1>12, <2>3
  <2>5. g[m] \in DOMAIN hooks /\ Guards(hooks[g[m]], tool) /\ Rewrites(hooks[g[m]]) BY <1>3, <1>7, <1>9, <1>11, <2>4
  <2>6. k <= m /\ g[m] <= i BY <1>16, <2>2, <2>4, <2>5
  <2>7. k = m
    <3>1. ~ (k < m)
      <4>1. k < m => g[k] < g[m] BY <1>8
      <4>2. g[m] \in Int /\ i \in Int BY <1>3, <2>5
      <4> QED BY <2>1, <2>6, <4>1, <4>2
    <3> QED BY <1>5, <2>6, <3>1
  <2>8. rewrites[Len(rewrites)] = RunHook(defaults, hooks[i], "PreToolUse") BY <1>7, <2>1, <2>4, <2>7
  <2>9. RunHook(defaults, hooks[i], "PreToolUse").input = hooks[i].run.stdout.input
    <3>1. IsHook(hooks[i]) OBVIOUS
    <3> QED BY <1>16, <3>1, RewriteTold
  <2> QED BY <2>3, <2>8, <2>9
<1> QED BY <1>1, <1>15, <1>16 DEF context

\* A hook that refuses blocks the call.
LEMMA RefusalStops ==
  ASSUME NEW hooks, IsSeq(hooks), \A i \in DOMAIN hooks : IsHook(hooks[i]), NEW defaults, IsModed(defaults), NEW tool,
         NEW i \in DOMAIN hooks, Guards(hooks[i], tool), Refuses(hooks[i], defaults)
  PROVE  RunHooks(defaults, hooks, BeforeTool(tool)).blocked
<1> DEFINE context == BeforeTool(tool)
           records == Recorded(defaults, hooks, context)
<1>1. RunHooks(defaults, hooks, context).blocked = \E k \in DOMAIN records : records[k].decision = "block"
  BY DEF RunHooks, Recorded, Matching
<1>2. PICK g : Records(defaults, hooks, context, g) BY SomeRecords
<1>3. i \in 1..Len(hooks) /\ IsHook(hooks[i]) BY DEF IsSeq
<1>4. MatchesHook(hooks[i], context) BY <1>3, GuardMatches
<1>5. context.event = "PreToolUse" BY DEF BeforeTool
<1> HIDE DEF context
<1>6. PICK k \in 1..Len(records) : g[k] = i BY <1>2, <1>3, <1>4 DEF Records
<1>7. k \in DOMAIN records /\ records[k] = RunHook(defaults, hooks[i], "PreToolUse") BY <1>2, <1>5, <1>6 DEF Records, IsSeq
<1>8. RunHook(defaults, hooks[i], "PreToolUse").decision = "block" BY <1>3, RefusalBlocks
<1> HIDE DEF records
<1> QED BY <1>1, <1>7, <1>8 DEF context

\* For any sequence of hooks and any defaults: one that refuses keeps the tool from
\* running, a tool that ran is shown to PostToolUse, and what it got is what the
\* last hook that rewrites its input said (wrapToolWithLifecycleHooks).
THEOREM HooksAlwaysGuard ==
  ASSUME NEW hooks, IsSeq(hooks), \A i \in DOMAIN hooks : IsHook(hooks[i]),
         NEW defaults, IsModed(defaults), NEW tool, NEW input0, NEW throws \in BOOLEAN
  PROVE  HooksGuard(defaults, hooks, tool, input0, throws)
<1> DEFINE pre == RunHooks(defaults, hooks, BeforeTool(tool))
           post == RunHooks(defaults, hooks, [event |-> "PostToolUse", toolName |-> tool])
           given == IF pre.rewrites = <<>> THEN input0 ELSE pre.rewrites[Len(pre.rewrites)].input
           call == WrappedCall(defaults, hooks, tool, input0, throws)
           rewriters == {i \in DOMAIN hooks : Guards(hooks[i], tool) /\ Rewrites(hooks[i])}
<1>1. call = IF pre.blocked THEN [ran |-> FALSE, posts |-> 0, threw |-> TRUE]
             ELSE [ran |-> TRUE, given |-> given, posts |-> IF ~ throws /\ post.blocked THEN 2 ELSE 1,
                   threw |-> throws \/ post.blocked]
  BY DEF WrappedCall, BeforeTool
<1>2. (\E i \in DOMAIN hooks : Guards(hooks[i], tool) /\ Refuses(hooks[i], defaults)) => pre.blocked BY RefusalStops
<1>3. /\ pre.rewrites # <<>> => rewriters # {}
      /\ \A i \in rewriters : (\A j \in rewriters : j <= i)
           => pre.rewrites # <<>> /\ pre.rewrites[Len(pre.rewrites)].input = hooks[i].run.stdout.input
  BY LastRewrite
<1>4. SessionContinues(defaults, hooks, "SessionStart") BY DEF SessionContinues
<1> HIDE DEF pre, post, rewriters, call
<1>5. pre.blocked => ~ call.ran /\ call.threw /\ ~ call.posts >= 1 BY <1>1
<1>6. ~ pre.blocked => call.ran /\ call.given = given /\ call.posts >= 1 /\ (throws => call.threw) BY <1>1
<1>7. rewriters = {} => given = input0 BY <1>3
<1>8. \A i \in rewriters : (\A j \in rewriters : j <= i) => given = hooks[i].run.stdout.input BY <1>3
<1> HIDE DEF given
<1> QED BY <1>2, <1>4, <1>5, <1>6, <1>7, <1>8 DEF HooksGuard, call, rewriters

-----------------------------------------------------------------------------
\* The tools of a capability and the events of Pi

\* For any servers and skills: no value of an environment is told, and a skill of
\* the snapshot replaces those of its name only (createMcpRegistryTool,
\* createSkillsOverride).
THEOREM ToolsAlwaysAnswer ==
  ASSUME NEW base, IsSeq(base), NEW snapshot, snapshot \in Seq(ToSet(snapshot)),
         NEW servers, \A s \in servers : "env" \in DOMAIN s, NEW action, NEW id
  PROVE  ToolsAnswer(servers, action, id, base, snapshot)
<1> DEFINE answer == McpTool(servers, action, id)
           told == {t.name : t \in ToSet(snapshot)}
           K == {s \in ToSet(base) : s.name \notin told}
           kept == Only(base, K)
           merged == MergeSkills(base, snapshot)
<1>1. ASSUME answer # Rejected, NEW s \in answer, NEW k \in DOMAIN s.env PROVE s.env[k] = "[REDACTED]"
  <2>1. answer \in {{Redact(x) : x \in servers}, {Redact(x) : x \in {t \in servers : t.id = id}}}
    BY <1>1 DEF McpTool
  <2>2. PICK x \in servers : s = Redact(x) BY <1>1, <2>1
  <2>3. s.env = [j \in DOMAIN x.env |-> "[REDACTED]"] BY <2>2 DEF Redact
  <2> QED BY <1>1, <2>3
<1>2. kept \in Seq(ToSet(base) \cap K) /\ ToSet(kept) = ToSet(base) \cap K BY OnlyOf
<1>3. ToSet(merged) = K \cup ToSet(snapshot)
  <2> DEFINE S == ToSet(base) \cup ToSet(snapshot)
  <2>1. ToSet(base) \cap K = K /\ K \subseteq S OBVIOUS
  <2>2. merged = kept \o snapshot BY DEF MergeSkills
  <2>3. snapshot \in Seq(S)
    <3>1. ToSet(snapshot) \subseteq S OBVIOUS
    <3> HIDE DEF S
    <3> QED BY <3>1, SeqMonotonic
  <2> HIDE DEF K, kept, S, merged
  <2>4. kept \in Seq(S) BY <1>2, <2>1, SeqMonotonic
  <2> QED BY <1>2, <2>1, <2>2, <2>3, <2>4, ConcatHolds
<1> HIDE DEF merged, answer
<1>4. {s.name : s \in ToSet(merged)} = {s.name : s \in ToSet(base)} \cup told BY <1>3
<1>5. \A s \in ToSet(merged) : s.name \in told => s \in ToSet(snapshot) BY <1>3
<1> QED BY <1>1, <1>4, <1>5 DEF ToolsAnswer, merged, answer

\* What the stream tells of the end of a tool call is what Pi said of it
\* (serializePiSessionEvent, projectEventType).
THEOREM ProjectionAlwaysTells ==
  ASSUME NEW event, {"type", "toolName", "isError"} \subseteq DOMAIN event \/ event.type # "tool_execution_end"
  PROVE  ProjectionTells(event)
<1> SUFFICES ASSUME event.type = "tool_execution_end", {"type", "toolName", "isError"} \subseteq DOMAIN event
             PROVE  ProjectionTells(event)
  BY DEF ProjectionTells
<1> DEFINE data == Serialize(event)
<1>1. KeptFields(event.type) = {"type", "toolCallId", "toolName", "isError"} BY DEF KeptFields
<1>2. /\ {"type", "toolName", "isError"} \subseteq DOMAIN data
      /\ data.type = event.type /\ data.toolName = event.toolName /\ data.isError = event.isError
  BY <1>1 DEF Serialize
<1> HIDE DEF data
<1>3. /\ Default(data, "type", "none") = "tool_execution_end" /\ Default(data, "isError", FALSE) = event.isError
      /\ Default(data, "toolName", "") = event.toolName
  BY <1>2 DEF Default
<1>4. "plugin.pi" \notin Projected BY DEF Projected
<1>5. CASE event.toolName \in {"bash", "terminal", "shell"}
  <2>1. IsTerminalTool(data) BY <1>3, <1>5 DEF IsTerminalTool
  <2>2. ProjectType("plugin.pi", data) = IF event.isError THEN "terminal.command.failed" ELSE "terminal.command.completed"
    BY <1>3, <1>4, <2>1 DEF ProjectType
  <2> QED BY <1>5, <2>2 DEF ProjectionTells, data
<1>6. CASE event.toolName \notin {"bash", "terminal", "shell"}
  <2>1. ~ IsTerminalTool(data) BY <1>3, <1>6 DEF IsTerminalTool
  <2>2. ProjectType("plugin.pi", data) = IF event.isError THEN "tool.call.failed" ELSE "tool.call.completed"
    BY <1>3, <1>4, <2>1 DEF ProjectType
  <2> QED BY <1>6, <2>2 DEF ProjectionTells, data
<1> QED BY <1>5, <1>6

-----------------------------------------------------------------------------
\* The stream of the Codex runtime

\* filter() of a longer sequence.
LEMMA OnlyAppend ==
  ASSUME NEW U, NEW s \in Seq(U), NEW e \in U, NEW S
  PROVE  Only(Append(s, e), S) = OnlyStep(S, Only(s, S), e)
<1> DEFINE n == Len(s)
           u == Append(s, e)
<1>1. n \in Nat /\ IsSeq(s) BY LenProperties DEF IsSeq
<1>2. u \in Seq(U) /\ Len(u) = n + 1 /\ u[n + 1] = e /\ \A i \in 1..n : u[i] = s[i] BY AppendProperties
<1> HIDE DEF u
<1>3. IsSeq(u) BY <1>2, LenProperties DEF IsSeq
<1>4. PICK f : Keeps(s, S, f) BY <1>1, OnlyRuns
<1>5. PICK g : Keeps(u, S, g) BY <1>3, OnlyRuns
<1> DEFINE T == {k \in Nat : k <= n => f[k] = g[k]}
<1>6. 0 \in T BY <1>4, <1>5 DEF Keeps
<1>7. ASSUME NEW k \in Nat, k \in T PROVE k + 1 \in T
  <2> SUFFICES ASSUME k + 1 <= n PROVE f[k + 1] = g[k + 1] OBVIOUS
  <2>1. k + 1 \in 1..n /\ k + 1 \in 1..Len(u) /\ k + 1 - 1 = k BY <1>1, <1>2
  <2>2. f[k + 1] = OnlyStep(S, f[k], s[k + 1]) BY <1>4, <2>1 DEF Keeps
  <2>3. g[k + 1] = OnlyStep(S, g[k], u[k + 1]) BY <1>5, <2>1 DEF Keeps
  <2> QED BY <1>1, <1>2, <1>7, <2>1, <2>2, <2>3
<1>8. Nat \subseteq T
  <2> HIDE DEF T
  <2> QED BY <1>6, <1>7, OnlyFold!Induction
<1>9. f[n] = g[n] BY <1>1, <1>8
<1>10. g[n + 1] = OnlyStep(S, g[n], e)
  <2>1. n + 1 \in 1..Len(u) /\ n + 1 - 1 = n BY <1>1, <1>2
  <2> QED BY <1>2, <1>5, <2>1 DEF Keeps
<1>11. Only(s, S) = f[n] /\ Only(u, S) = g[n + 1] BY <1>2, <1>4, <1>5 DEF Keeps
<1> QED BY <1>9, <1>10, <1>11 DEF u

LEMMA OnlyNone == ASSUME NEW S PROVE Only(<<>>, S) = <<>>
<1>1. IsSeq(<<>>) /\ Len(<<>>) = 0 BY EmptySeq DEF IsSeq
<1>2. PICK f : Keeps(<<>>, S, f) BY <1>1, OnlyRuns
<1> QED BY <1>1, <1>2 DEF Keeps

Dones(n) == [i \in 1..n |-> "done"]

\* What is not in S does not show.
LEMMA OnlyDone ==
  ASSUME NEW U, NEW s \in Seq(U), "done" \in U, NEW S, "done" \notin S, NEW n \in Nat
  PROVE  /\ s \o Dones(n) \in Seq(U) /\ Len(s \o Dones(n)) = Len(s) + n
         /\ Only(s \o Dones(n), S) = Only(s, S)
<1>1. ASSUME NEW k \in Nat
      PROVE  /\ s \o Dones(k) \in Seq(U) /\ Len(s \o Dones(k)) = Len(s) + k
             /\ \A i \in 1..(Len(s) + k) : (s \o Dones(k))[i] = IF i <= Len(s) THEN s[i] ELSE "done"
  <2>1. /\ Dones(k) = [i \in 1..k |-> Dones(k)[i]] /\ \A i \in 1..k : Dones(k)[i] = "done" BY DEF Dones
  <2> DEFINE d == Dones(k)
  <2> HIDE DEF d
  <2>2. d = [i \in 1..k |-> d[i]] /\ \A i \in 1..k : d[i] = "done" BY <2>1 DEF d
  <2>3. d \in Seq(U) /\ Len(d) = k BY <2>2, FunctionSeq
  <2>4. /\ s \o d \in Seq(U) /\ Len(s \o d) = Len(s) + k
        /\ \A i \in 1..(Len(s) + k) : (s \o d)[i] = IF i <= Len(s) THEN s[i] ELSE d[i - Len(s)]
    BY <2>3, ConcatProperties
  <2>5. \A i \in 1..(Len(s) + k) : ~ (i <= Len(s)) => i - Len(s) \in 1..k BY LenProperties
  <2>6. \A i \in 1..(Len(s) + k) : (s \o d)[i] = IF i <= Len(s) THEN s[i] ELSE "done" BY <2>2, <2>4, <2>5
  <2> QED BY <2>4, <2>6 DEF d
<1> DEFINE T == {k \in Nat : Only(s \o Dones(k), S) = Only(s, S)}
<1>2. 0 \in T
  <2>1. s \o Dones(0) = s
    <3>1. s \o Dones(0) \in Seq(U) /\ Len(s \o Dones(0)) = Len(s) /\ \A i \in 1..Len(s) : (s \o Dones(0))[i] = s[i]
      <4>1. Len(s) \in Nat BY LenProperties
      <4> QED BY <1>1, <4>1
    <3> DEFINE u == s \o Dones(0)
    <3> HIDE DEF u
    <3> QED BY <3>1, SeqEqual DEF u
  <2> QED BY <2>1
<1>3. ASSUME NEW k \in Nat, k \in T PROVE k + 1 \in T
  <2> DEFINE a == s \o Dones(k)
             b == s \o Dones(k + 1)
             n0 == Len(s)
  <2>0. n0 \in Nat BY LenProperties
  <2>1. a \in Seq(U) /\ Len(a) = n0 + k /\ \A i \in 1..(n0 + k) : a[i] = IF i <= n0 THEN s[i] ELSE "done" BY <1>1
  <2>2. b \in Seq(U) /\ Len(b) = n0 + (k + 1) /\ \A i \in 1..(n0 + (k + 1)) : b[i] = IF i <= n0 THEN s[i] ELSE "done"
    <3>1. k + 1 \in Nat OBVIOUS
    <3> QED BY <1>1, <3>1
  <2>6. Only(a, S) = Only(s, S) BY <1>3
  <2> HIDE DEF a, b, n0
  <2>3. /\ Append(a, "done") \in Seq(U) /\ Len(Append(a, "done")) = n0 + k + 1
        /\ \A i \in 1..(n0 + k) : Append(a, "done")[i] = a[i]
        /\ Append(a, "done")[n0 + k + 1] = "done"
    BY <2>1, AppendProperties
  <2>4. b = Append(a, "done")
    <3> DEFINE c == Append(a, "done")
    <3> HIDE DEF c
    <3>1. c \in Seq(U) /\ Len(c) = n0 + k + 1 /\ (\A i \in 1..(n0 + k) : c[i] = a[i]) /\ c[n0 + k + 1] = "done"
      BY <2>3 DEF c
    <3>2. ASSUME NEW i \in 1..Len(b) PROVE b[i] = c[i]
      <4>1. CASE i <= n0 + k
        <5>1. i \in 1..(n0 + k) /\ i \in 1..(n0 + (k + 1)) BY <2>0, <2>2, <4>1
        <5> QED BY <2>1, <2>2, <3>1, <5>1
      <4>2. CASE i = n0 + k + 1 BY <2>0, <2>2, <3>1, <4>2
      <4> QED BY <2>0, <2>2, <4>1, <4>2
    <3>3. Len(b) = Len(c) BY <2>0, <2>2, <3>1
    <3> QED BY <2>2, <3>1, <3>2, <3>3, SeqEqual DEF c
  <2>5. Only(Append(a, "done"), S) = OnlyStep(S, Only(a, S), "done") BY <2>1, OnlyAppend
  <2>7. Only(b, S) = Only(s, S) BY <2>4, <2>5, <2>6 DEF OnlyStep
  <2> QED BY <2>7 DEF b
<1>4. Nat \subseteq T
  <2> HIDE DEF T
  <2> QED BY <1>2, <1>3, OnlyFold!Induction
<1> QED BY <1>1, <1>4

\* Moving the first element over, and adding one behind, keep the order.
LEMMA Moved ==
  ASSUME NEW V, NEW a \in Seq(V), NEW b \in Seq(V), b # <<>>
  PROVE  Append(a, Head(b)) \o Tail(b) = a \o b
<1> DEFINE h == Head(b)
           t == Tail(b)
           u == Append(a, h)
<1>1. h \in V /\ t \in Seq(V) /\ Len(t) = Len(b) - 1 /\ \A i \in 1..Len(t) : t[i] = b[i + 1] BY HeadTailProperties
<1>2. h = b[1] OBVIOUS
<1> HIDE DEF h, t
<1>3. u \in Seq(V) /\ Len(u) = Len(a) + 1 /\ u[Len(a) + 1] = h /\ \A i \in 1..Len(a) : u[i] = a[i] BY <1>1, AppendProperties
<1>4. Len(a) \in Nat /\ Len(b) \in Nat /\ Len(b) >= 1
  <2>1. Len(b) \in Nat /\ Len(a) \in Nat /\ Len(b) # 0 BY LenProperties, EmptySeq
  <2> QED BY <2>1
<1> HIDE DEF u
<1> DEFINE x == u \o t
           y == a \o b
<1>5. x \in Seq(V) /\ Len(x) = Len(u) + Len(t)
      /\ \A i \in 1..(Len(u) + Len(t)) : x[i] = IF i <= Len(u) THEN u[i] ELSE t[i - Len(u)]
  BY <1>1, <1>3, ConcatProperties
<1>6. y \in Seq(V) /\ Len(y) = Len(a) + Len(b)
      /\ \A i \in 1..(Len(a) + Len(b)) : y[i] = IF i <= Len(a) THEN a[i] ELSE b[i - Len(a)]
  BY ConcatProperties
<1> HIDE DEF x, y
<1>7. Len(x) = Len(y) BY <1>1, <1>3, <1>4, <1>5, <1>6
<1>8. ASSUME NEW i \in 1..Len(x) PROVE x[i] = y[i]
  <2>1. CASE i <= Len(a)
    <3>1. x[i] = u[i] BY <1>1, <1>3, <1>4, <1>5, <2>1
    <3>2. y[i] = a[i] BY <1>4, <1>6, <1>7, <2>1
    <3> QED BY <1>3, <2>1, <3>1, <3>2
  <2>2. CASE i = Len(a) + 1
    <3>1. x[i] = u[i] BY <1>1, <1>3, <1>4, <1>5, <2>2
    <3>2. y[i] = b[1]
      <4>1. ~ (i <= Len(a)) /\ i - Len(a) = 1 BY <1>4, <2>2
      <4> QED BY <1>6, <1>7, <4>1
    <3> QED BY <1>2, <1>3, <2>2, <3>1, <3>2
  <2>3. CASE i > Len(a) + 1
    <3>1. /\ ~ (i <= Len(u)) /\ ~ (i <= Len(a)) /\ i - Len(u) \in 1..Len(t) /\ i - Len(a) = i - Len(u) + 1
      BY <1>1, <1>3, <1>4, <1>5, <2>3
    <3>2. x[i] = t[i - Len(u)] BY <1>5, <3>1
    <3>3. y[i] = b[i - Len(a)] BY <1>6, <1>7, <3>1
    <3> QED BY <1>1, <3>1, <3>2, <3>3
  <2> QED BY <1>4, <2>1, <2>2, <2>3
<1>9. x = y BY <1>5, <1>6, <1>7, <1>8, SeqEqual
<1> QED BY <1>9 DEF x, y, u, h, t

LEMMA AddedBehind ==
  ASSUME NEW V, NEW a \in Seq(V), NEW b \in Seq(V), NEW e \in V
  PROVE  a \o Append(b, e) = Append(a \o b, e)
<1>1. <<e>> \in Seq(V) OBVIOUS
<1>2. Append(b, e) = b \o <<e>> BY AppendIsConcat
<1>3. a \o b \in Seq(V) BY ConcatProperties
<1>4. Append(a \o b, e) = (a \o b) \o <<e>> BY <1>3, AppendIsConcat
<1> QED BY <1>1, <1>2, <1>4, ConcatAssociative

QueueStep(c, q, op) == QueueOp(q, op)
QueueFold == INSTANCE Folding WITH Op <- QueueStep
EmptyQueue == [values |-> <<>>, waiting |-> 0, closed |-> FALSE, got |-> <<>>]

\* The states f that the queue goes through.
QueueGoes(ops, f) ==
  /\ f[0] = EmptyQueue
  /\ \A i \in 1..Len(ops) : f[i] = QueueOp(f[i - 1], ops[i])
  /\ RunQueue(ops) = f[Len(ops)]

LEMMA QueueRuns == ASSUME NEW ops, IsSeq(ops) PROVE \E f : QueueGoes(ops, f)
<1>1. RunQueue(ops) = QueueFold!Fold({}, EmptyQueue, ops)
  BY DEF RunQueue, EmptyQueue, QueueFold!Fold, QueueStep, FoldLeft, MapThenFoldSet, Max, QueueFold!Max
<1>2. Len(ops) \in Nat /\ DOMAIN ops = 1..Len(ops) BY DEF IsSeq
<1>3. PICK f : QueueFold!Goes({}, EmptyQueue, ops, Len(ops), f) BY <1>2, QueueFold!FoldIsRun
<1> QED BY <1>1, <1>3 DEF QueueFold!Goes, QueueStep, QueueGoes

-----------------------------------------------------------------------------
\* What holds after each operation: p is what was pushed before the close, r the
\* reads.  What readers got and what is buffered is what was pushed; who waits
\* finds nothing buffered; every read was answered or waits; and until the queue
\* is closed and empty, readers got values only.
FieldsHold(V, values, waiting, shut, got, p, r) ==
  /\ values \in Seq(V) /\ got \in Seq(V \cup {"done"}) /\ waiting \in Nat
  /\ p \in Seq(V) /\ r \in Seq({"next"})
  /\ Only(got, V) \in Seq(V) /\ Only(got, V) \o values = p
  /\ shut => waiting = 0
  /\ waiting > 0 => values = <<>>
  /\ Len(got) + waiting = Len(r)
  /\ ~ shut \/ values # <<>> => Only(got, V) = got

QueueHolds(V, q, shut, p, r) ==
  \E values, waiting, got :
    /\ q = [values |-> values, waiting |-> waiting, closed |-> shut, got |-> got]
    /\ FieldsHold(V, values, waiting, shut, got, p, r)

\* A value that is got.
LEMMA GotValue ==
  ASSUME NEW V, NEW got \in Seq(V \cup {"done"}), NEW v \in V, Only(got, V) \in Seq(V)
  PROVE  /\ Append(got, v) \in Seq(V \cup {"done"}) /\ Len(Append(got, v)) = Len(got) + 1
         /\ Only(Append(got, v), V) = Append(Only(got, V), v)
         /\ Only(Append(got, v), V) \in Seq(V)
<1>1. v \in V \cup {"done"} OBVIOUS
<1>2. Append(got, v) \in Seq(V \cup {"done"}) /\ Len(Append(got, v)) = Len(got) + 1 BY <1>1, AppendProperties
<1>3. Only(Append(got, v), V) = OnlyStep(V, Only(got, V), v) BY <1>1, OnlyAppend
<1>4. Only(Append(got, v), V) = Append(Only(got, V), v) BY <1>3 DEF OnlyStep
<1>5. Append(Only(got, V), v) \in Seq(V) BY AppendProperties
<1> QED BY <1>2, <1>4, <1>5

LEMMA QueueCloses ==
  ASSUME NEW V, "done" \notin V, NEW q, NEW shut \in BOOLEAN, NEW p, NEW r, QueueHolds(V, q, shut, p, r)
  PROVE  QueueHolds(V, QueueOp(q, "close"), TRUE, p, r)
<1>1. PICK values, waiting, got :
        /\ q = [values |-> values, waiting |-> waiting, closed |-> shut, got |-> got]
        /\ FieldsHold(V, values, waiting, shut, got, p, r)
  BY DEF QueueHolds
<1> DEFINE u == got \o Dones(waiting)
<1>2. QueueOp(q, "close") = [values |-> values, waiting |-> 0, closed |-> TRUE, got |-> u]
  BY <1>1 DEF QueueOp, CloseQueue, Dones
<1>3. /\ u \in Seq(V \cup {"done"}) /\ Len(u) = Len(got) + waiting /\ Only(u, V) = Only(got, V)
  <2>1. "done" \in V \cup {"done"} OBVIOUS
  <2> QED BY <1>1, <2>1, OnlyDone DEF FieldsHold
<1>4. ASSUME values # <<>> PROVE Only(u, V) = u
  <2>1. waiting = 0 BY <1>1, <1>4 DEF FieldsHold
  <2>2. u = got
    <3>1. Dones(0) = <<>> BY DEF Dones
    <3> QED BY <1>1, <2>1, <3>1, ConcatEmptySeq DEF FieldsHold
  <2> QED BY <1>1, <1>4, <2>2 DEF FieldsHold
<1> HIDE DEF u
<1>5. Len(u) \in Nat BY <1>3, LenProperties
<1>6. FieldsHold(V, values, 0, TRUE, u, p, r) BY <1>1, <1>3, <1>4, <1>5 DEF FieldsHold
<1> QED BY <1>2, <1>6 DEF QueueHolds

LEMMA QueueReads ==
  ASSUME NEW V, "done" \notin V, NEW q, NEW shut \in BOOLEAN, NEW p, NEW r, QueueHolds(V, q, shut, p, r)
  PROVE  QueueHolds(V, QueueOp(q, "next"), shut, p, Append(r, "next"))
<1>1. PICK values, waiting, got :
        /\ q = [values |-> values, waiting |-> waiting, closed |-> shut, got |-> got]
        /\ FieldsHold(V, values, waiting, shut, got, p, r)
  BY DEF QueueHolds
<1>2. /\ q.values = values /\ q.waiting = waiting /\ q.got = got /\ q.closed = shut BY <1>1
<1>3. /\ Append(r, "next") \in Seq({"next"}) /\ Len(Append(r, "next")) = Len(r) + 1
      /\ Len(r) \in Nat /\ Len(got) \in Nat /\ got \in Seq(V \cup {"done"})
  <2>1. r \in Seq({"next"}) /\ got \in Seq(V \cup {"done"}) BY <1>1 DEF FieldsHold
  <2> QED BY <2>1, AppendProperties, LenProperties
<1>4. QueueOp(q, "next") = Read(q) BY DEF QueueOp
<1> DEFINE reads == Append(r, "next")
<1>5. CASE values # <<>>
  <2> DEFINE v == Head(values)
             u == Append(got, v)
             t == Tail(values)
  <2>1. Read(q) = [values |-> t, waiting |-> waiting, closed |-> shut, got |-> u] BY <1>1, <1>5 DEF Read
  <2>2. v \in V /\ t \in Seq(V) BY <1>1, <1>5, HeadTailProperties DEF FieldsHold
  <2>3. Append(Only(got, V), v) \o t = p BY <1>1, <1>5, Moved DEF FieldsHold
  <2> HIDE DEF v, t
  <2>4. /\ u \in Seq(V \cup {"done"}) /\ Len(u) = Len(got) + 1
        /\ Only(u, V) = Append(Only(got, V), v) /\ Only(u, V) \in Seq(V)
    BY <1>1, <2>2, GotValue DEF FieldsHold
  <2>5. Only(u, V) = u BY <1>1, <1>5, <2>4 DEF FieldsHold
  <2>6. waiting = 0 BY <1>1, <1>5 DEF FieldsHold
  <2>8. Only(u, V) \o t = p BY <2>3, <2>4
  <2>9. Len(u) + waiting = Len(reads)
    <3>1. Len(got) + waiting = Len(r) BY <1>1 DEF FieldsHold
    <3> QED BY <1>3, <2>4, <2>6, <3>1
  <2> HIDE DEF u
  <2>10. p \in Seq(V) /\ reads \in Seq({"next"}) BY <1>1, <1>3 DEF FieldsHold
  <2> HIDE DEF reads
  <2>7. FieldsHold(V, t, waiting, shut, u, p, reads)
    BY <2>2, <2>4, <2>5, <2>6, <2>8, <2>9, <2>10 DEF FieldsHold
  <2> QED BY <1>4, <2>1, <2>7 DEF QueueHolds, reads
<1>6. CASE values = <<>> /\ shut
  <2> DEFINE u == Append(got, "done")
  <2>1. Read(q) = [values |-> <<>>, waiting |-> waiting, closed |-> shut, got |-> u] BY <1>1, <1>6 DEF Read
  <2>2. "done" \in V \cup {"done"} OBVIOUS
  <2>3. u \in Seq(V \cup {"done"}) /\ Len(u) = Len(got) + 1 BY <1>3, <2>2, AppendProperties
  <2>4. Only(u, V) = Only(got, V) BY <1>3, <2>2, OnlyAppend DEF OnlyStep
  <2> HIDE DEF u, reads
  <2>5. FieldsHold(V, <<>>, waiting, shut, u, p, reads) BY <1>1, <1>3, <1>6, <2>3, <2>4 DEF FieldsHold, reads
  <2> QED BY <1>4, <2>1, <2>5 DEF QueueHolds, reads
<1>7. CASE values = <<>> /\ ~ shut
  <2>1. Read(q) = [values |-> <<>>, waiting |-> waiting + 1, closed |-> shut, got |-> got] BY <1>1, <1>7 DEF Read
  <2> HIDE DEF reads
  <2>2. FieldsHold(V, <<>>, waiting + 1, shut, got, p, reads) BY <1>1, <1>3, <1>7 DEF FieldsHold, reads
  <2> QED BY <1>4, <2>1, <2>2 DEF QueueHolds, reads
<1> QED BY <1>5, <1>6, <1>7

LEMMA QueueTakes ==
  ASSUME NEW V, "done" \notin V, NEW q, NEW shut \in BOOLEAN, NEW p, NEW r, QueueHolds(V, q, shut, p, r),
         NEW v \in V, v \notin {"close", "next"}
  PROVE  QueueHolds(V, QueueOp(q, v), shut, IF shut THEN p ELSE Append(p, v), r)
<1>1. PICK values, waiting, got :
        /\ q = [values |-> values, waiting |-> waiting, closed |-> shut, got |-> got]
        /\ FieldsHold(V, values, waiting, shut, got, p, r)
  BY DEF QueueHolds
<1>2. QueueOp(q, v) = Push(q, v) BY DEF QueueOp
<1>3. CASE shut
  <2>1. q.closed = TRUE BY <1>1, <1>3
  <2>2. Push(q, v) = q BY <2>1 DEF Push
  <2> QED BY <1>2, <1>3, <2>2
<1>4. CASE ~ shut /\ waiting > 0
  <2> DEFINE u == Append(got, v)
  <2>1. values = <<>> /\ values \in Seq(V) /\ got \in Seq(V \cup {"done"}) /\ Only(got, V) \in Seq(V) /\ p \in Seq(V)
    BY <1>1, <1>4 DEF FieldsHold
  <2>2. Push(q, v) = [values |-> <<>>, waiting |-> waiting - 1, closed |-> shut, got |-> u] 
    <3>1. waiting \in Nat BY <1>1 DEF FieldsHold
    <3>2. q.closed = FALSE /\ q.waiting = waiting /\ waiting > 0 /\ waiting # 0 BY <1>1, <1>4, <3>1
    <3>3. Push(q, v) = [q EXCEPT !.waiting = @ - 1, !.got = Append(@, v)] BY <3>2 DEF Push
    <3> QED BY <1>1, <2>1, <3>3
  <2>3. /\ u \in Seq(V \cup {"done"}) /\ Len(u) = Len(got) + 1
        /\ Only(u, V) = Append(Only(got, V), v) /\ Only(u, V) \in Seq(V)
    BY <2>1, GotValue
  <2>4. Only(got, V) = p
    <3>1. Only(got, V) \o <<>> = p BY <1>1, <2>1 DEF FieldsHold
    <3> QED BY <2>1, <3>1, ConcatEmptySeq
  <2>5. Only(u, V) = Append(p, v) /\ Append(p, v) \in Seq(V) BY <2>3, <2>4
  <2>6. Only(u, V) \o <<>> = Append(p, v) BY <2>5, ConcatEmptySeq
  <2>7. Only(u, V) = u BY <1>1, <1>4, <2>3 DEF FieldsHold
  <2>8. Len(got) \in Nat BY <2>1, LenProperties
  <2> HIDE DEF u
  <2>9. FieldsHold(V, <<>>, waiting - 1, shut, u, Append(p, v), r)
    BY <1>1, <1>4, <2>1, <2>3, <2>5, <2>6, <2>7, <2>8 DEF FieldsHold
  <2> QED BY <1>2, <1>4, <2>2, <2>9 DEF QueueHolds
<1>5. CASE ~ shut /\ waiting = 0
  <2> DEFINE b == Append(values, v)
  <2>1. values \in Seq(V) /\ Only(got, V) \in Seq(V) /\ p \in Seq(V) BY <1>1 DEF FieldsHold
  <2>2. Push(q, v) = [values |-> b, waiting |-> waiting, closed |-> shut, got |-> got] BY <1>1, <1>5 DEF Push
  <2>3. b \in Seq(V) BY <2>1, AppendProperties
  <2>4. Only(got, V) \o b = Append(p, v)
    <3>1. Only(got, V) \o values = p BY <1>1 DEF FieldsHold
    <3> QED BY <2>1, <3>1, AddedBehind
  <2>5. Append(p, v) \in Seq(V) BY <2>1, AppendProperties
  <2> HIDE DEF b
  <2>6. FieldsHold(V, b, waiting, shut, got, Append(p, v), r) BY <1>1, <1>5, <2>3, <2>4, <2>5 DEF FieldsHold
  <2> QED BY <1>2, <1>5, <2>2, <2>6 DEF QueueHolds
<1>6. shut \/ waiting > 0 \/ waiting = 0 BY <1>1 DEF FieldsHold
<1> QED BY <1>3, <1>4, <1>5, <1>6

\* Whether the queue was closed in the first k operations.
Shut(closes, k) == \E c \in closes : c <= k

\* For any operations: readers get what was pushed before the close, in order and
\* once, then the end, and no read that can be answered waits
\* (createAsyncEventQueue).
THEOREM QueueAlwaysDelivers ==
  ASSUME NEW ops, IsSeq(ops), "done" \notin ToSet(ops)
  PROVE  QueueDelivers(ops)
<1> DEFINE closes == {i \in DOMAIN ops : ops[i] = "close"}
           V == ToSet(ops) \ {"close", "next"}
           told == [i \in DOMAIN ops |-> IF \E c \in closes : c < i THEN "next" ELSE ops[i]]
           n == Len(ops)
<1>0. n \in Nat /\ DOMAIN ops = 1..n BY DEF IsSeq
<1>1. "done" \notin V /\ "next" \notin V /\ "close" \notin V OBVIOUS
<1>2. \A i \in 1..n : ops[i] \in V \/ ops[i] \in {"close", "next"} BY <1>0 DEF ToSet
<1>3. IsSeq(told) /\ Len(told) = n
  <2> DEFINE U == ToSet(ops) \cup {"next"}
  <2>1. told = [i \in 1..n |-> told[i]] BY <1>0
  <2>2. \A i \in 1..n : told[i] \in U BY <1>0 DEF ToSet
  <2> HIDE DEF told, U
  <2>3. told \in Seq(U) /\ Len(told) = n BY <1>0, <2>1, <2>2, FunctionSeq
  <2> QED BY <1>0, <2>3, LenProperties DEF IsSeq
<1>4. \A i \in 1..n : told[i] = IF \E c \in closes : c < i THEN "next" ELSE ops[i] BY <1>0
<1>5. \A c \in closes : c \in 1..n /\ ops[c] = "close" BY <1>0
<1>6. \A i \in 1..n : ops[i] = "close" => i \in closes BY <1>0
<1>7. closes # {} => Shut(closes, n) BY <1>0 DEF Shut
<1>8. \A k : Shut(closes, k) \in BOOLEAN BY DEF Shut
<1> HIDE DEF closes, V, told, n
<1>9. PICK f : QueueGoes(ops, f) BY QueueRuns
<1>10. PICK p : Keeps(told, V, p) BY <1>3, OnlyRuns
<1>11. PICK r : Keeps(ops, {"next"}, r) BY OnlyRuns
<1> DEFINE T == {k \in Nat : k <= n => QueueHolds(V, f[k], Shut(closes, k), p[k], r[k])}
<1>12. 0 \in T
  <2>1. f[0] = EmptyQueue /\ p[0] = <<>> /\ r[0] = <<>> BY <1>9, <1>10, <1>11 DEF QueueGoes, Keeps
  <2>2. ~ Shut(closes, 0) BY <1>0, <1>5 DEF Shut
  <2>3. Only(<<>>, V) = <<>> BY OnlyNone
  <2>4. <<>> \in Seq(V) /\ <<>> \in Seq(V \cup {"done"}) /\ <<>> \in Seq({"next"}) /\ Len(<<>>) = 0 /\ <<>> \o <<>> = <<>>
    <3>1. <<>> \in Seq(V) /\ <<>> \in Seq(V \cup {"done"}) /\ <<>> \in Seq({"next"}) /\ Len(<<>>) = 0 BY EmptySeq
    <3> QED BY <3>1, ConcatEmptySeq
  <2>5. QueueHolds(V, EmptyQueue, FALSE, <<>>, <<>>)
    <3>0. Only(<<>>, V) \in Seq(V) /\ Only(<<>>, V) \o <<>> = <<>> BY <2>3, <2>4
    <3>1. FieldsHold(V, <<>>, 0, FALSE, <<>>, <<>>, <<>>) BY <2>3, <2>4, <3>0 DEF FieldsHold
    <3> QED BY <3>1 DEF QueueHolds, EmptyQueue
  <2>6. Shut(closes, 0) = FALSE BY <1>8, <2>2
  <2> QED BY <2>1, <2>5, <2>6
<1>13. ASSUME NEW k \in Nat, k \in T PROVE k + 1 \in T
  <2> SUFFICES ASSUME k + 1 <= n PROVE QueueHolds(V, f[k + 1], Shut(closes, k + 1), p[k + 1], r[k + 1]) OBVIOUS
  <2>1. QueueHolds(V, f[k], Shut(closes, k), p[k], r[k]) BY <1>0, <1>13
  <2>2. k + 1 \in 1..n /\ k + 1 - 1 = k BY <1>0
  <2>3. f[k + 1] = QueueOp(f[k], ops[k + 1]) BY <1>9, <2>2 DEF QueueGoes, n
  <2>4. p[k + 1] = OnlyStep(V, p[k], told[k + 1]) BY <1>3, <1>10, <2>2 DEF Keeps
  <2>5. r[k + 1] = OnlyStep({"next"}, r[k], ops[k + 1]) BY <1>11, <2>2 DEF Keeps, n
  <2>6. (\E c \in closes : c < k + 1) <=> Shut(closes, k) BY <1>0, <1>5 DEF Shut
  <2>7. CASE ops[k + 1] = "close"
    <3>1. Shut(closes, k + 1) = TRUE BY <1>6, <1>8, <2>2, <2>7 DEF Shut
    <3>2. told[k + 1] \in {"next", "close"} BY <1>4, <2>2, <2>7
    <3>3. p[k + 1] = p[k] BY <1>1, <2>4, <3>2 DEF OnlyStep
    <3>4. r[k + 1] = r[k] BY <2>5, <2>7 DEF OnlyStep
    <3>5. QueueHolds(V, QueueOp(f[k], "close"), TRUE, p[k], r[k])
      <4> QED BY <1>1, <1>8, <2>1, QueueCloses
    <3> QED BY <2>3, <2>7, <3>1, <3>3, <3>4, <3>5
  <2>8. CASE ops[k + 1] # "close"
    <3>1. Shut(closes, k + 1) = Shut(closes, k)
      <4>1. \A c \in closes : c <= k + 1 => c <= k BY <1>0, <1>5, <2>8
      <4>2. \A c \in closes : c <= k => c <= k + 1 BY <1>0, <1>5
      <4> QED BY <1>8, <4>1, <4>2 DEF Shut
    <3>2. CASE ops[k + 1] = "next"
      <4>1. told[k + 1] = "next" BY <1>4, <2>2, <3>2
      <4>2. p[k + 1] = p[k] BY <1>1, <2>4, <4>1 DEF OnlyStep
      <4>3. r[k + 1] = Append(r[k], "next") BY <2>5, <3>2 DEF OnlyStep
      <4>4. QueueHolds(V, QueueOp(f[k], "next"), Shut(closes, k), p[k], Append(r[k], "next"))
        <5> QED BY <1>1, <1>8, <2>1, QueueReads
      <4> QED BY <2>3, <3>1, <3>2, <4>2, <4>3, <4>4
    <3>3. CASE ops[k + 1] # "next"
      <4>1. ops[k + 1] \in V BY <1>2, <2>2, <2>8, <3>3
      <4>2. r[k + 1] = r[k] BY <2>5, <3>3 DEF OnlyStep
      <4>3. p[k + 1] = IF Shut(closes, k) THEN p[k] ELSE Append(p[k], ops[k + 1])
        <5>1. CASE Shut(closes, k)
          <6>1. told[k + 1] = "next" BY <1>4, <2>2, <2>6, <5>1
          <6>2. p[k + 1] = p[k] BY <1>1, <2>4, <6>1 DEF OnlyStep
          <6> QED BY <5>1, <6>2
        <5>2. CASE ~ Shut(closes, k)
          <6>1. told[k + 1] = ops[k + 1] BY <1>4, <2>2, <2>6, <5>2
          <6>2. p[k + 1] = Append(p[k], ops[k + 1]) BY <2>4, <4>1, <6>1 DEF OnlyStep
          <6> QED BY <5>2, <6>2
        <5> QED BY <5>1, <5>2
      <4>4. QueueHolds(V, QueueOp(f[k], ops[k + 1]), Shut(closes, k), IF Shut(closes, k) THEN p[k] ELSE Append(p[k], ops[k + 1]), r[k])
        <5> QED BY <1>1, <1>8, <2>1, <2>8, <3>3, <4>1, QueueTakes
      <4> QED BY <2>3, <3>1, <4>2, <4>3, <4>4
    <3> QED BY <3>2, <3>3
  <2> QED BY <2>7, <2>8
<1>14. Nat \subseteq T
  <2> HIDE DEF T
  <2> QED BY <1>12, <1>13, QueueFold!Induction
<1> DEFINE q == f[n]
<1>15. QueueHolds(V, q, Shut(closes, n), p[n], r[n]) BY <1>0, <1>14
<1>16. RunQueue(ops) = q /\ Only(told, V) = p[n] /\ Only(ops, {"next"}) = r[n]
  BY <1>3, <1>9, <1>10, <1>11 DEF QueueGoes, Keeps, n
<1> HIDE DEF q, T
<1>17. PICK values, waiting, got :
         /\ q = [values |-> values, waiting |-> waiting, closed |-> Shut(closes, n), got |-> got]
         /\ FieldsHold(V, values, waiting, Shut(closes, n), got, p[n], r[n])
  BY <1>15 DEF QueueHolds
<1>23. q.got = got BY <1>17
<1> DEFINE given == Only(got, V)
<1>24. /\ given \in Seq(V) /\ values \in Seq(V) /\ given \o values = p[n] /\ got \in Seq(V \cup {"done"})
       /\ waiting \in Nat
  BY <1>17 DEF FieldsHold
<1>18. /\ Len(given) \in Nat /\ Len(values) \in Nat /\ Len(p[n]) = Len(given) + Len(values)
       /\ Len(got) \in Nat /\ DOMAIN got = 1..Len(got)
  BY <1>24, LenProperties, ConcatProperties
<1>19. given = SubSeq(p[n], 1, Len(given))
  <2> HIDE DEF given
  <2>1. CASE Len(given) = 0
    <3>1. SubSeq(p[n], 1, 0) = <<>> BY SubSeqEmpty
    <3>2. given = <<>> BY <1>24, <2>1, EmptySeq
    <3> QED BY <2>1, <3>1, <3>2
  <2>2. CASE Len(given) # 0
    <3>1. 1 \in 1..Len(given) /\ Len(given) \in 1..Len(given) BY <1>18, <2>2
    <3>2. SubSeq(given \o values, 1, Len(given)) = SubSeq(given, 1, Len(given)) BY <1>24, <3>1, SubSeqOfConcat1
    <3> QED BY <1>24, <3>2, SubSeqFull
  <2> QED BY <2>1, <2>2
<1>20. ToSet(got) \subseteq V \cup {"done"} BY <1>24, <1>18, ElementOfSeq DEF ToSet
<1>21. Len(got) <= Len(r[n]) /\ (closes # {} => Len(got) = Len(r[n]))
  <2>1. Len(got) + waiting = Len(r[n]) /\ (Shut(closes, n) => waiting = 0) BY <1>17 DEF FieldsHold
  <2> QED BY <1>7, <1>24, <1>18, <2>1
<1>22. ASSUME Len(r[n]) >= Len(p[n]) PROVE Len(given) = Len(p[n])
  <2>1. CASE values = <<>>
    <3>1. Len(values) = 0 BY <2>1, EmptySeq
    <3> QED BY <1>18, <3>1
  <2>2. CASE values # <<>>
    <3>1. given = got /\ waiting = 0 /\ Len(got) + waiting = Len(r[n]) BY <1>17, <2>2 DEF FieldsHold
    <3>2. Len(values) # 0 BY <1>24, <2>2, EmptySeq
    <3>3. Len(given) = Len(got) /\ Len(got) = Len(r[n]) BY <1>18, <3>1
    <3> HIDE DEF given
    <3> QED BY <1>18, <1>22, <3>2, <3>3
  <2> QED BY <2>1, <2>2
<1> HIDE DEF given
<1> QED BY <1>16, <1>23, <1>19, <1>20, <1>21, <1>22 DEF QueueDelivers, closes, V, told, given

-----------------------------------------------------------------------------
\* Whatever is legally asked of the harness's functions, they keep what they
\* promise.
THEOREM HarnessRulesAlwaysAgree == ASSUME LegalHarness PROVE HarnessRulesAgree
<1>1. ASSUME Rule("policy") PROVE PolicyBinds(input[2], input[3], input[4], input[5], input[6], input[7])
  <2>1. IsCaps(input[2])
    <3>1. DOMAIN CapabilityEffects = {"mcp", "messaging", "memory"} BY DEF CapabilityEffects
    <3> QED BY <1>1, <3>1 DEF LegalHarness, IsCaps, ToolKinds
  <2> QED BY <2>1, PolicyAlwaysBinds
<1>2. ASSUME Rule("hooks") PROVE HooksGuard(input[2], input[3], "bash", "input", input[4])
  <2>1. IsModed(input[2]) /\ IsSeq(input[3]) /\ (\A i \in DOMAIN input[3] : IsHook(input[3][i])) /\ input[4] \in BOOLEAN
    BY <1>2 DEF LegalHarness, IsModed, IsMode
  <2> QED BY <2>1, HooksAlwaysGuard
<1>3. ASSUME Rule("tools") PROVE ToolsAnswer(input[2], input[3], input[4], input[5], input[6])
  BY <1>3, ToolsAlwaysAnswer DEF LegalHarness
<1>4. ASSUME Rule("event") PROVE ProjectionTells(input[2])
  BY <1>4, ProjectionAlwaysTells DEF LegalHarness
<1>5. ASSUME Rule("queue") PROVE QueueDelivers(input[2])
  BY <1>5, QueueAlwaysDelivers DEF LegalHarness
<1> QED BY <1>1, <1>2, <1>3, <1>4, <1>5 DEF HarnessRulesAgree

\* The same of every behaviour that asks what is legal.
THEOREM HarnessKeeps == HarnessSpec => []HarnessRulesAgree
<1>1. input = <<>> => LegalHarness BY DEF LegalHarness, Rule
<1>2. LegalHarness /\ [LegalHarness']_input => LegalHarness'
  <2>1. ASSUME LegalHarness, UNCHANGED input PROVE LegalHarness' BY <2>1 DEF LegalHarness, Rule
  <2> QED BY <2>1
<1>3. LegalHarness => HarnessRulesAgree BY HarnessRulesAlwaysAgree
<1> QED BY <1>1, <1>2, <1>3, PTL DEF HarnessSpec
================================================================================
