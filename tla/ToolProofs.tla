------------------------------ MODULE ToolProofs -------------------------------
(***************************************************************************)
(* Proofs about the tools that reach out of the workspace: the sessions of *)
(* the sandbox, for every number of calls and session ids, every set of    *)
(* requests and every point of failure; and the functions of the sandbox   *)
(* and of the web tools, for all inputs.                                   *)
(*                                                                         *)
(* Known says what the Map, a release and an exec() may refer to: sessions *)
(* that were registered under the id in question and are not created any   *)
(* more.  Owned says which calls hold the network of their id; in allowlist*)
(* mode that network is what keeps two sessions of one id apart.           *)
(*                                                                         *)
(* What a function computes by a fold is a run of states (Folding): an     *)
(* archive is read entry by entry (Read), paths are pruned one after       *)
(* another (Kept), files copied (Copied) and paths staged (StagedTo), a    *)
(* fetch goes from host to host (FollowOf), a text is read in chunks       *)
(* (ReadOf) and a search looks at one hit after another (LooksOf).         *)
(***************************************************************************)
EXTENDS SandboxSessions, ToolPromises, SequenceTheorems, FiniteSetTheorems, TLAPS

ExecPhases == {"usage", "running", "inspect", "sync", "stat", "read", "finish", "ending"}
BoxStates == {"none", "running", "stopped", "removed"}

TypeOK ==
  /\ pc \in [Calls -> {"idle", "settled", "releasing"} \cup CreatePhases \cup ExecPhases]
  /\ op \in [Calls -> Requests \cup {None}]
  /\ sessions \in [Ids -> Calls \cup {None}]
  /\ box \in [Calls -> BoxStates] /\ proxy \in [Calls -> BoxStates]
  /\ net \in [Ids -> Calls \cup {None}]
  /\ release \in [Calls -> {"none", "stop", "remove", "rest", "done"}]
  /\ active \in [Calls -> Calls \cup {None}]
  /\ cut \in SUBSET Calls
  /\ result \in [Calls -> {"none", "returned", "rejected"}]
  /\ log \in [Calls -> [size : Nat, offset : Nat, reported : SUBSET Nat]]
  /\ chunk \in [Calls -> SUBSET Nat]

\* A session that was registered once.
Made(t) ==
  /\ op[t] \in Requests /\ op[t].kind \in {"create", "run"}
  /\ pc[t] \notin CreatePhases \cup {"idle"}

Known ==
  /\ \A c \in Calls : pc[c] # "idle" => op[c] \in Requests
  /\ \A c \in Calls : InCreation(c) => op[c].kind \in {"create", "run"}
  /\ \A c \in Calls : pc[c] \in ExecPhases => op[c].kind \in {"exec", "run"} /\ active[c] # None
  /\ \A c \in Calls : pc[c] = "idle" => c \notin cut /\ result[c] = "none"
  /\ \A k \in Ids : sessions[k] # None => Made(sessions[k]) /\ op[sessions[k]].id = k
  /\ \A t \in Calls : release[t] # "none" => Made(t) /\ ~ Registered(t)
  /\ \A c \in Calls : active[c] # None =>
       /\ pc[c] # "idle"
       /\ Made(active[c]) /\ op[active[c]].id = op[c].id

\* What an exec() reads of a log is an interval of its lines.
Reading ==
  \A c \in Calls : pc[c] = "read" => \E a, b \in Nat : 1 <= a /\ a <= b /\ chunk[c] = a .. b

KInv == TypeOK /\ Known /\ Reading

-----------------------------------------------------------------------------
LEMMA IdsAreNamed == \A r \in Requests : r.kind # "destroyAll" => r.id \in Ids
BY SandboxAssumption

\* What is taken from the Map is released, and nothing else changes.
LEMMA TakeFacts ==
  ASSUME TypeOK, NEW c \in Calls, NEW keys \in SUBSET Ids, Take(c, keys)
  PROVE  /\ sessions' \in [Ids -> Calls \cup {None}]
         /\ \A k \in Ids : sessions'[k] = IF k \in keys THEN None ELSE sessions[k]
         /\ release' \in [Calls -> {"none", "stop", "remove", "rest", "done"}]
         /\ \A t \in Calls : release'[t] = IF \E k \in keys : sessions[k] = t THEN "stop" ELSE release[t]
<1> DEFINE taken == {sessions[k] : k \in keys} \ {None}
<1>1. /\ sessions' = [k \in Ids |-> IF k \in keys THEN None ELSE sessions[k]]
      /\ release' = [t \in Calls |-> IF t \in taken THEN "stop" ELSE release[t]]
  BY DEF Take
<1>2. \A t \in Calls : t \in taken <=> \E k \in keys : sessions[k] = t
  BY SandboxAssumption
<1> HIDE DEF taken
<1> QED BY <1>1, <1>2 DEF TypeOK

\* How an exec() settles: at once, or by way of the clean-up of run().
LEMMA LeaveFacts ==
  ASSUME TypeOK, NEW c \in Calls, op[c] \in Requests, op[c].kind \in {"exec", "run"},
         NEW r \in {"returned", "rejected"}, Leave(c, r)
  PROVE  \E keys \in SUBSET Ids, p \in {"settled", "releasing"} :
           /\ pc' = [pc EXCEPT ![c] = p]
           /\ result' = [result EXCEPT ![c] = r]
           /\ \/ Take(c, keys)
              \/ UNCHANGED <<sessions, release>>
<1>1. CASE op[c].kind = "run"
  <2>1. op[c].id \in Ids
    BY <1>1, IdsAreNamed
  <2>2. {Key(c)} \in SUBSET Ids
    BY <2>1 DEF Key
  <2> QED BY <1>1, <2>2 DEF Leave, Goto
<1>2. CASE op[c].kind # "run"
  <2>1. {} \in SUBSET Ids
    OBVIOUS
  <2> QED BY <1>2, <2>1 DEF Leave, Settle, Goto
<1> QED BY <1>1, <1>2


Marked(f, t, m, lines) == [f EXCEPT ![t].offset = m, ![t].reported = @ \cup lines]

LEMMA MarkedFacts ==
  ASSUME NEW f \in [Calls -> [size : Nat, offset : Nat, reported : SUBSET Nat]],
         NEW t \in Calls, NEW m \in Nat, NEW lines \in SUBSET Nat
  PROVE  /\ Marked(f, t, m, lines) \in [Calls -> [size : Nat, offset : Nat, reported : SUBSET Nat]]
         /\ Marked(f, t, m, lines)[t].offset = m
         /\ Marked(f, t, m, lines)[t].reported = f[t].reported \cup lines
         /\ \A d \in Calls \ {t} : Marked(f, t, m, lines)[d] = f[d]
<1> DEFINE g == Marked(f, t, m, lines)
<1>1. f[t] \in [size : Nat, offset : Nat, reported : SUBSET Nat]
  OBVIOUS
<1>2. g[t] = [[f[t] EXCEPT !.offset = m] EXCEPT !.reported = @ \cup lines]
  BY DEF Marked
<1>3. /\ g[t] \in [size : Nat, offset : Nat, reported : SUBSET Nat]
      /\ g[t].offset = m /\ g[t].reported = f[t].reported \cup lines
  BY <1>1, <1>2
<1>4. \A d \in Calls \ {t} : g[d] = f[d]
  BY DEF Marked
<1>5. g = [d \in Calls |-> g[d]]
  BY DEF Marked
<1> HIDE DEF g
<1>6. g \in [Calls -> [size : Nat, offset : Nat, reported : SUBSET Nat]]
  BY <1>3, <1>4, <1>5
<1> QED BY <1>3, <1>4, <1>6 DEF g

LEMMA InitKInv == Init => KInv
<1> SUFFICES ASSUME Init PROVE KInv
  OBVIOUS
<1>1. log \in [Calls -> [size : Nat, offset : Nat, reported : SUBSET Nat]]
  BY DEF Init
<1>2. TypeOK
  BY <1>1 DEF Init, TypeOK, BoxStates
<1>3. Known
  BY DEF Init, Known, InCreation, CreatePhases, ExecPhases
<1>4. Reading
  BY DEF Init, Reading
<1> QED BY <1>2, <1>3, <1>4 DEF KInv

\* An exec() has a session that was registered under its id.
LEMMA ActiveFacts ==
  ASSUME KInv, NEW c \in Calls, pc[c] \in ExecPhases
  PROVE  /\ op[c] \in Requests /\ op[c].kind \in {"exec", "run"} /\ op[c].id \in Ids
         /\ active[c] \in Calls /\ Made(active[c]) /\ op[active[c]].id = op[c].id
<1>1. pc[c] # "idle"
  BY DEF ExecPhases
<1>2. op[c] \in Requests /\ op[c].kind \in {"exec", "run"} /\ active[c] # None
  BY <1>1 DEF KInv, Known
<1>3. op[c].id \in Ids
  BY <1>2, IdsAreNamed
<1>4. active[c] \in Calls
  BY <1>2 DEF KInv, TypeOK
<1> QED BY <1>2, <1>3, <1>4 DEF KInv, Known

LEMMA MaxOfInterval ==
  ASSUME NEW a \in Nat, NEW b \in Nat, a <= b
  PROVE  Max(a .. b) = b
<1>1. b \in a .. b /\ \A y \in a .. b : b >= y
  OBVIOUS
<1>2. \A x \in a .. b : (\A y \in a .. b : x >= y) => x = b
  BY <1>1
<1> QED BY <1>1, <1>2 DEF Max

LEMMA NextTypeOK == KInv /\ [Next]_vars => TypeOK'
<1> SUFFICES ASSUME KInv, [Next]_vars
             PROVE  TypeOK'
  OBVIOUS
<1> USE DEF KInv, TypeOK
<1>1. CASE UNCHANGED vars
  BY <1>1 DEF vars, docker, execs
<1>2. ASSUME NEW c \in Calls, NEW r \in Requests, Create(c, r)
      PROVE  TypeOK'
  <2>1. \A d \in Calls : d \in Calls
    OBVIOUS
  <2> QED BY <1>2 DEF Create, GiveUp, Settle, Goto, CreatePhases, execs
<1>3. ASSUME NEW c \in Calls, NEW r \in Requests, Exec(c, r)
      PROVE  TypeOK'
  <2>1. r.kind = "exec" /\ r.id \in Ids
    BY <1>3, IdsAreNamed DEF Exec
  <2> QED BY <1>3, <2>1 DEF Exec, Settle, Goto, ExecPhases, docker
<1>4. ASSUME NEW c \in Calls, NEW r \in Requests, Destroy(c, r)
      PROVE  TypeOK'
  <2>1. DestroyKeys(r) \in SUBSET Ids
    BY <1>4, IdsAreNamed DEF Destroy, DestroyKeys
  <2>2. /\ sessions' \in [Ids -> Calls \cup {None}]
        /\ release' \in [Calls -> {"none", "stop", "remove", "rest", "done"}]
    BY <1>4, <2>1, TakeFacts DEF Destroy
  <2> QED BY <1>4, <2>2 DEF Destroy, Goto, docker, execs
<1>5. ASSUME NEW c \in Calls, Creating(c)
      PROVE  TypeOK'
  <2>1. pc[c] \in CreatePhases => op[c].id \in Ids
    BY IdsAreNamed DEF Known, InCreation, CreatePhases
  <2>2. CASE CreateNetwork(c)
    BY <2>1, <2>2 DEF CreateNetwork, GiveUp, Settle, Goto, CreatePhases, execs
  <2>3. CASE StartProxy(c)
    <3>1. proxy' \in [Calls -> BoxStates]
      BY <2>3 DEF StartProxy, BoxStates
    <3>2. pc' \in [Calls -> {"idle", "settled", "releasing"} \cup CreatePhases \cup ExecPhases]
      BY <2>3 DEF StartProxy, Goto, CreatePhases
    <3> QED BY <2>3, <3>1, <3>2 DEF StartProxy, execs
  <2>4. CASE UndoProxy(c)
    BY <2>4 DEF UndoProxy, GiveUp, Settle, Goto, BoxStates, execs
  <2>5. CASE StartContainer(c)
    BY <2>5 DEF StartContainer, Settle, Goto, ExecPhases, BoxStates
  <2>6. CASE Abandon(c)
    <3>1. box' \in [Calls -> BoxStates]
      BY <2>6 DEF Abandon, BoxStates
    <3> QED BY <2>6, <3>1 DEF Abandon, GiveUp, Settle, Goto, CreatePhases, execs
  <2>7. CASE AbandonAllowlist(c)
    BY <2>7 DEF AbandonAllowlist, GiveUp, Settle, Goto, BoxStates, execs
  <2> QED BY <1>5, <2>2, <2>3, <2>4, <2>5, <2>6, <2>7 DEF Creating
<1>6. ASSUME NEW c \in Calls, NEW r \in {"returned", "rejected"},
             pc[c] \in ExecPhases, Leave(c, r),
             UNCHANGED <<op, docker, execs>>
      PROVE  TypeOK'
  <2>1. op[c] \in Requests /\ op[c].kind \in {"exec", "run"}
    BY <1>6, ActiveFacts
  <2> HIDE DEF TypeOK, KInv
  <2>0. TypeOK
    BY DEF KInv
  <2>2. PICK keys \in SUBSET Ids, p \in {"settled", "releasing"} :
          /\ pc' = [pc EXCEPT ![c] = p]
          /\ result' = [result EXCEPT ![c] = r]
          /\ \/ Take(c, keys)
             \/ UNCHANGED <<sessions, release>>
    BY <1>6, <2>0, <2>1, LeaveFacts
  <2>3. /\ sessions' \in [Ids -> Calls \cup {None}]
        /\ release' \in [Calls -> {"none", "stop", "remove", "rest", "done"}]
    BY <2>0, <2>2, TakeFacts DEF TypeOK
  <2> QED BY <1>6, <2>0, <2>2, <2>3 DEF TypeOK, docker, execs
<1>7. ASSUME NEW c \in Calls, Executing(c)
      PROVE  TypeOK'
  <2>1. CASE IssueExec(c)
    BY <2>1 DEF IssueExec, Goto, ExecPhases, docker, execs
  <2>2. CASE Interrupt(c)
    BY <2>2 DEF Interrupt, docker
  <2>3. CASE ExecSettles(c)
    BY <1>6, <2>3 DEF ExecSettles, Goto, ExecPhases, docker, execs
  <2>4. CASE Inspect(c)
    BY <2>4 DEF Inspect, Goto, ExecPhases, docker
  <2>5. CASE Sync(c)
    BY <1>6, <2>5 DEF Sync, Goto, ExecPhases, docker, execs
  <2>6. CASE StatLog(c)
    <3>1. active[c] \in Calls
      BY <2>6, ActiveFacts DEF StatLog, ExecPhases
    <3>2. chunk' \in [Calls -> SUBSET Nat]
      <4> DEFINE l == log[active[c]]
      <4>1. l.offset \in Nat /\ l.size \in Nat
        BY <3>1
      <4> HIDE DEF l
      <4>2. (l.offset + 1) .. l.size \in SUBSET Nat
        BY <4>1
      <4>3. chunk' = chunk \/ chunk' = [chunk EXCEPT ![c] = (l.offset + 1) .. l.size]
        BY <2>6 DEF StatLog, l
      <4> QED BY <4>2, <4>3
    <3>3. pc' \in [Calls -> {"idle", "settled", "releasing"} \cup CreatePhases \cup ExecPhases]
      BY <2>6 DEF StatLog, Goto, ExecPhases
    <3> QED BY <2>6, <3>2, <3>3 DEF StatLog, docker
  <2>7. CASE ReadLog(c)
    <3>1. active[c] \in Calls
      BY <2>7, ActiveFacts DEF ReadLog, ExecPhases
    <3>2. Max(chunk[c]) \in Nat
      BY <2>7, MaxOfInterval DEF ReadLog, Reading
    <3>3. log[active[c]] \in [size : Nat, offset : Nat, reported : SUBSET Nat] /\ chunk[c] \in SUBSET Nat
      BY <3>1
    <3>4. log' = Marked(log, active[c], Max(chunk[c]), chunk[c])
      BY <2>7 DEF ReadLog, Marked
    <3>5. log' \in [Calls -> [size : Nat, offset : Nat, reported : SUBSET Nat]]
      BY <3>1, <3>2, <3>3, <3>4, MarkedFacts
    <3>6. pc' \in [Calls -> {"idle", "settled", "releasing"} \cup CreatePhases \cup ExecPhases]
      BY <2>7 DEF ReadLog, Goto, ExecPhases
    <3>7. chunk' \in [Calls -> SUBSET Nat]
      BY <2>7 DEF ReadLog
    <3> QED BY <2>7, <3>5, <3>6, <3>7 DEF ReadLog, docker
  <2>8. CASE Finish(c)
    <3>1. CASE MustDestroy(c)
      <4>1. {Key(c)} \in SUBSET Ids
        BY <2>8, ActiveFacts DEF Finish, ExecPhases, Key
      <4>2. /\ sessions' \in [Ids -> Calls \cup {None}]
            /\ release' \in [Calls -> {"none", "stop", "remove", "rest", "done"}]
        BY <2>8, <3>1, <4>1, TakeFacts DEF Finish
      <4> QED BY <2>8, <3>1, <4>2 DEF Finish, Goto, ExecPhases, docker, execs
    <3> QED BY <1>6, <2>8, <3>1 DEF Finish, ExecPhases
  <2>9. CASE ExecEnds(c)
    BY <1>6, <2>9 DEF ExecEnds, ExecPhases
  <2>10. CASE DestroyReturns(c)
    BY <2>10 DEF DestroyReturns, Settle, Goto, docker, execs
  <2> QED BY <1>7, <2>1, <2>2, <2>3, <2>4, <2>5, <2>6, <2>7, <2>8, <2>9, <2>10 DEF Executing
<1>8. ASSUME NEW t \in Calls, World(t)
      PROVE  TypeOK'
  <2>1. CASE StopBox(t)
    BY <2>1 DEF StopBox, BoxStates, execs
  <2>2. CASE RemoveBox(t)
    BY <2>2 DEF RemoveBox, BoxStates, execs
  <2>3. CASE ReleaseRest(t)
    BY <2>3 DEF ReleaseRest, execs
  <2>4. CASE StopLands(t)
    BY <2>4 DEF StopLands, BoxStates
  <2>5. CASE LogBlocked(t)
    <3> DEFINE l == [log[t] EXCEPT !.size = @ + 1]
    <3>1. l \in [size : Nat, offset : Nat, reported : SUBSET Nat]
      OBVIOUS
    <3>2. log' = [log EXCEPT ![t] = l]
      BY <2>5 DEF LogBlocked
    <3> HIDE DEF l
    <3>3. log' \in [Calls -> [size : Nat, offset : Nat, reported : SUBSET Nat]]
      BY <3>1, <3>2
    <3> QED BY <2>5, <3>3 DEF LogBlocked, docker
  <2> QED BY <1>8, <2>1, <2>2, <2>3, <2>4, <2>5 DEF World
<1> QED BY <1>1, <1>2, <1>3, <1>4, <1>5, <1>7, <1>8 DEF Next, Begin

-----------------------------------------------------------------------------
\* Most steps begin nothing: a call moves on, sessions may leave the Map to be
\* released, and nothing else changes of what Known speaks of.
Onward(p, q) ==
  \/ q = p
  \/ /\ p # "idle" /\ q # "idle"
     /\ q \in CreatePhases => p \in CreatePhases
     /\ q \in ExecPhases => p \in ExecPhases

Steady ==
  /\ op' = op /\ active' = active
  /\ \A d \in Calls : Onward(pc[d], pc'[d])
  /\ \A d \in Calls : pc[d] = "idle" => (d \in cut' => d \in cut) /\ result'[d] = result[d]
  /\ \A k \in Ids : sessions'[k] \in {sessions[k], None}
  /\ \A t \in Calls : /\ release'[t] # "none" => release[t] # "none" \/ (Registered(t) /\ ~ Registered(t)')
                      /\ release[t] # "none" => release'[t] # "none"

LEMMA SteadyKnown == KInv /\ Steady => Known'
<1> SUFFICES ASSUME KInv, Steady
             PROVE  Known'
  OBVIOUS
<1>1. \A t \in Calls : Made(t) => Made(t)'
  BY DEF Steady, Made, Onward
<1>2. \A t \in Calls : Registered(t)' => Registered(t)
  BY SandboxAssumption DEF Steady, Registered
<1>3. /\ \A c \in Calls : pc'[c] # "idle" => op'[c] \in Requests
      /\ \A c \in Calls : InCreation(c)' => op'[c].kind \in {"create", "run"}
      /\ \A c \in Calls : pc'[c] \in ExecPhases => op'[c].kind \in {"exec", "run"} /\ active'[c] # None
      /\ \A c \in Calls : pc'[c] = "idle" => c \notin cut' /\ result'[c] = "none"
  BY DEF KInv, Known, Steady, Onward, InCreation
<1>4. (\A k \in Ids : sessions[k] # None => Made(sessions[k]) /\ op[sessions[k]].id = k)'
  <2> SUFFICES ASSUME NEW k \in Ids, sessions'[k] # None
               PROVE  (Made(sessions[k]) /\ op[sessions[k]].id = k)'
    OBVIOUS
  <2> DEFINE t == sessions[k]
  <2>1. sessions'[k] = t /\ t \in Calls
    BY DEF Steady, KInv, TypeOK
  <2>2. Made(t) /\ op[t].id = k
    BY <2>1 DEF KInv, Known
  <2>3. op'[t].id = k /\ op'[t] \in Requests /\ op'[t].kind \in {"create", "run"}
        /\ pc'[t] \notin CreatePhases \cup {"idle"}
    BY <2>1, <2>2 DEF Steady, Made, Onward
  <2> QED BY <2>1, <2>3 DEF Made
<1>5. \A t \in Calls : release'[t] # "none" => Made(t)' /\ ~ Registered(t)'
  <2> SUFFICES ASSUME NEW t \in Calls, release'[t] # "none"
               PROVE  Made(t)' /\ ~ Registered(t)'
    OBVIOUS
  <2>1. CASE release[t] # "none"
    BY <1>1, <1>2, <2>1 DEF KInv, Known
  <2>2. CASE Registered(t) /\ ~ Registered(t)'
    BY <1>1, <2>2, SandboxAssumption DEF KInv, Known, Registered
  <2> QED BY <2>1, <2>2 DEF Steady
<1>6. (\A c \in Calls : active[c] # None =>
        /\ pc[c] # "idle"
        /\ Made(active[c]) /\ op[active[c]].id = op[c].id)'
  <2> SUFFICES ASSUME NEW c \in Calls, active'[c] # None
               PROVE  (pc[c] # "idle" /\ Made(active[c]) /\ op[active[c]].id = op[c].id)'
    OBVIOUS
  <2> DEFINE t == active[c]
  <2>1. active'[c] = t /\ t \in Calls
    BY DEF Steady, KInv, TypeOK
  <2>2. pc[c] # "idle" /\ Made(t) /\ op[t].id = op[c].id
    BY <2>1 DEF KInv, Known
  <2>3. /\ op'[t].id = op'[c].id /\ op'[t] \in Requests /\ op'[t].kind \in {"create", "run"}
        /\ pc'[t] \notin CreatePhases \cup {"idle"} /\ pc'[c] # "idle"
    BY <2>1, <2>2 DEF Steady, Made, Onward
  <2> QED BY <2>1, <2>3 DEF Made
<1> QED BY <1>3, <1>4, <1>5, <1>6 DEF Known

\* A session is in the Map once, under its own id, so that taking it from there
\* takes it out.
LEMMA TakeSteady ==
  ASSUME KInv, NEW c \in Calls, NEW keys \in SUBSET Ids, Take(c, keys)
  PROVE  /\ \A k \in Ids : sessions'[k] \in {sessions[k], None}
         /\ \A t \in Calls : /\ release'[t] # "none" => release[t] # "none" \/ (Registered(t) /\ ~ Registered(t)')
                             /\ release[t] # "none" => release'[t] # "none"
         /\ \A t \in Calls : (\E k \in keys : op[t].id = k) => ~ Registered(t)'
         /\ \A t \in Calls : Registered(t) /\ ~ Registered(t)' => release'[t] = "stop"
<1>1. /\ \A k \in Ids : sessions'[k] = IF k \in keys THEN None ELSE sessions[k]
      /\ \A t \in Calls : release'[t] = IF \E k \in keys : sessions[k] = t THEN "stop" ELSE release[t]
  BY TakeFacts DEF KInv
<1>2. \A t \in Calls : \A k \in Ids : sessions[k] = t => op[t].id = k
  BY SandboxAssumption DEF KInv, Known
<1>3. \A t \in Calls : (\E k \in keys : op[t].id = k) => ~ Registered(t)'
  BY <1>1, <1>2, SandboxAssumption DEF Registered
<1>4. ASSUME NEW t \in Calls
      PROVE  /\ release'[t] # "none" => release[t] # "none" \/ (Registered(t) /\ ~ Registered(t)')
             /\ release[t] # "none" => release'[t] # "none"
  BY <1>1, <1>2, SandboxAssumption DEF Registered
<1>5. ASSUME NEW t \in Calls, Registered(t), ~ Registered(t)'
      PROVE  release'[t] = "stop"
  <2>1. PICK k \in Ids : sessions[k] = t
    BY <1>5 DEF Registered
  <2>2. k \in keys
    BY <1>1, <1>5, <2>1 DEF Registered
  <2> QED BY <1>1, <2>1, <2>2
<1> QED BY <1>1, <1>3, <1>4, <1>5

LEMMA MovingOn ==
  ASSUME KInv, NEW c \in Calls, NEW q, Onward(pc[c], q), Goto(c, q), op' = op, active' = active,
         pc[c] # "idle" \/ (cut' = cut /\ result' = result),
         result' = result \/ \E r : result' = [result EXCEPT ![c] = r],
         cut' \in {cut, cut \cup {c}},
         \/ UNCHANGED <<sessions, release>>
         \/ \E keys \in SUBSET Ids : Take(c, keys)
  PROVE  Steady
<1>1. \A d \in Calls : Onward(pc[d], pc'[d])
  BY DEF Goto, Onward, KInv, TypeOK
<1>2. \A d \in Calls : pc[d] = "idle" => (d \in cut' => d \in cut) /\ result'[d] = result[d]
  BY DEF KInv, TypeOK
<1>3. /\ \A k \in Ids : sessions'[k] \in {sessions[k], None}
      /\ \A t \in Calls : /\ release'[t] # "none" => release[t] # "none" \/ (Registered(t) /\ ~ Registered(t)')
                          /\ release[t] # "none" => release'[t] # "none"
  <2>1. CASE UNCHANGED <<sessions, release>>
    BY <2>1
  <2>2. CASE \E keys \in SUBSET Ids : Take(c, keys)
    BY <2>2, TakeSteady
  <2> QED BY <2>1, <2>2
<1> QED BY <1>1, <1>2, <1>3 DEF Steady

LEMMA LeavingSteady ==
  ASSUME KInv, NEW c \in Calls, pc[c] \in ExecPhases, NEW r \in {"returned", "rejected"}, Leave(c, r),
         op' = op, active' = active, cut' = cut
  PROVE  Steady
<1>1. op[c] \in Requests /\ op[c].kind \in {"exec", "run"} /\ pc[c] # "idle"
  BY ActiveFacts DEF ExecPhases
<1>2. PICK keys \in SUBSET Ids, p \in {"settled", "releasing"} :
        /\ pc' = [pc EXCEPT ![c] = p]
        /\ result' = [result EXCEPT ![c] = r]
        /\ \/ Take(c, keys)
           \/ UNCHANGED <<sessions, release>>
  <2>1. TypeOK
    BY DEF KInv
  <2> QED BY <1>1, <2>1, LeaveFacts
<1>3. Onward(pc[c], p) /\ Goto(c, p)
  BY <1>1, <1>2 DEF Onward, Goto, CreatePhases, ExecPhases
<1> QED BY <1>1, <1>2, <1>3, MovingOn

LEMMA CreatingSteady ==
  ASSUME KInv, NEW c \in Calls,
         CreateNetwork(c) \/ StartProxy(c) \/ UndoProxy(c) \/ Abandon(c) \/ AbandonAllowlist(c)
  PROVE  Steady
<1>1. \E q \in CreatePhases \cup {"settled"} : Goto(c, q)
  BY DEF CreateNetwork, StartProxy, UndoProxy, Abandon, AbandonAllowlist, GiveUp, Settle, CreatePhases
<1>2. pc[c] \in CreatePhases
  BY DEF CreateNetwork, StartProxy, UndoProxy, Abandon, AbandonAllowlist, CreatePhases
<1>3. \A q \in CreatePhases \cup {"settled"} : Onward(pc[c], q)
  BY <1>2 DEF Onward, CreatePhases, ExecPhases
<1>4. op' = op /\ active' = active /\ UNCHANGED <<sessions, release>> /\ cut' = cut
  BY DEF CreateNetwork, StartProxy, UndoProxy, Abandon, AbandonAllowlist, execs
<1>5. result' = result \/ \E r : result' = [result EXCEPT ![c] = r]
  BY DEF CreateNetwork, StartProxy, UndoProxy, Abandon, AbandonAllowlist, GiveUp, Settle
<1>6. pc[c] # "idle"
  BY <1>2 DEF CreatePhases
<1> QED BY <1>1, <1>3, <1>4, <1>5, <1>6, MovingOn

LEMMA ExecutingSteady ==
  ASSUME KInv, NEW c \in Calls, Executing(c)
  PROVE  Steady
<1>1. CASE /\ pc[c] \in ExecPhases /\ \E q \in ExecPhases : Goto(c, q)
           /\ UNCHANGED <<op, active, cut, result, sessions, release>>
  <2>1. \A q \in ExecPhases : Onward(pc[c], q)
    BY <1>1 DEF Onward, CreatePhases, ExecPhases
  <2> QED BY <1>1, <2>1, MovingOn
<1>2. CASE /\ pc[c] \in ExecPhases /\ \E r \in {"returned", "rejected"} : Leave(c, r)
           /\ UNCHANGED <<op, active, cut>>
  BY <1>2, LeavingSteady
<1>3. CASE IssueExec(c)
  BY <1>1, <1>3 DEF IssueExec, ExecPhases, execs
<1>4. CASE Interrupt(c)
  <2>1. \A d \in Calls : Onward(pc[d], pc'[d])
    BY <1>4 DEF Interrupt, Onward
  <2> QED BY <1>4, <2>1 DEF Interrupt, Steady, KInv, TypeOK
<1>5. CASE ExecSettles(c)
  BY <1>1, <1>2, <1>5 DEF ExecSettles, ExecPhases, execs
<1>6. CASE Inspect(c)
  BY <1>1, <1>6 DEF Inspect, ExecPhases
<1>7. CASE Sync(c)
  BY <1>1, <1>2, <1>7 DEF Sync, ExecPhases, execs
<1>8. CASE StatLog(c)
  BY <1>1, <1>8 DEF StatLog, ExecPhases
<1>9. CASE ReadLog(c)
  BY <1>1, <1>9 DEF ReadLog, ExecPhases
<1>10. CASE Finish(c)
  <2>1. CASE MustDestroy(c)
    <3>1. {Key(c)} \in SUBSET Ids
      BY <1>10, ActiveFacts DEF Finish, ExecPhases, Key
    <3>2. Onward(pc[c], "ending") /\ pc[c] # "idle"
      BY <1>10 DEF Finish, Onward, CreatePhases, ExecPhases
    <3> QED BY <1>10, <2>1, <3>1, <3>2, MovingOn DEF Finish, execs
  <2> QED BY <1>2, <1>10, <2>1 DEF Finish, ExecPhases, execs
<1>11. CASE ExecEnds(c)
  BY <1>2, <1>11 DEF ExecEnds, ExecPhases, execs
<1>12. CASE DestroyReturns(c)
  <2>1. Onward(pc[c], "settled") /\ pc[c] # "idle"
    BY <1>12 DEF DestroyReturns, Onward, CreatePhases, ExecPhases
  <2> QED BY <1>12, <2>1, MovingOn DEF DestroyReturns, Settle, execs
<1> QED BY <1>3, <1>4, <1>5, <1>6, <1>7, <1>8, <1>9, <1>10, <1>11, <1>12 DEF Executing

LEMMA WorldSteady ==
  ASSUME KInv, NEW t \in Calls, World(t)
  PROVE  Steady
<1>1. /\ op' = op /\ active' = active /\ sessions' = sessions
      /\ pc' = pc /\ cut' = cut /\ result' = result
  BY DEF World, StopBox, RemoveBox, ReleaseRest, StopLands, LogBlocked, execs
<1>2. \A d \in Calls : (release[d] = "none") <=> (release'[d] = "none")
  BY DEF World, StopBox, RemoveBox, ReleaseRest, StopLands, LogBlocked, KInv, TypeOK
<1> QED BY <1>1, <1>2 DEF Steady, Onward

\* A call that has not begun is not a session, and nothing refers to it.
LEMMA IdleIsNew ==
  ASSUME KInv, NEW c \in Calls, pc[c] \in {"idle"} \cup CreatePhases
  PROVE  /\ ~ Registered(c) /\ release[c] = "none"
         /\ \A d \in Calls : active[d] # c
         /\ \A k \in Ids : sessions[k] # c
<1>1. ~ Made(c) /\ c # None
  BY SandboxAssumption DEF Made
<1>2. \A k \in Ids : sessions[k] # c
  BY <1>1 DEF KInv, Known
<1> QED BY <1>1, <1>2 DEF KInv, Known, Registered

\* Beginning a call changes neither what is in the Map nor what is active.
LEMMA BeginKnown ==
  ASSUME KInv, NEW c \in Calls, pc[c] = "idle", NEW r \in Requests, op' = [op EXCEPT ![c] = r],
         NEW q \in {"settled", "releasing"} \cup CreatePhases, pc' = [pc EXCEPT ![c] = q],
         q \in CreatePhases => r.kind \in {"create", "run"},
         cut' = cut, active' = active,
         result' = result \/ \E o : result' = [result EXCEPT ![c] = o],
         \/ UNCHANGED <<sessions, release>>
         \/ \E keys \in SUBSET Ids : Take(c, keys)
  PROVE  Known'
<1>1. /\ ~ Registered(c) /\ release[c] = "none"
      /\ \A d \in Calls : active[d] # c
      /\ \A k \in Ids : sessions[k] # c
  BY IdleIsNew
<1>2. /\ \A d \in Calls \ {c} : op'[d] = op[d] /\ pc'[d] = pc[d] /\ result'[d] = result[d]
      /\ op'[c] = r /\ pc'[c] = q /\ q # "idle" /\ q \notin ExecPhases
  BY DEF KInv, TypeOK, CreatePhases, ExecPhases
<1>3. /\ \A k \in Ids : sessions'[k] \in {sessions[k], None}
      /\ \A t \in Calls : release'[t] # "none" => release[t] # "none" \/ (Registered(t) /\ ~ Registered(t)')
  <2>1. CASE UNCHANGED <<sessions, release>>
    BY <2>1
  <2>2. CASE \E keys \in SUBSET Ids : Take(c, keys)
    BY <2>2, TakeSteady
  <2> QED BY <2>1, <2>2
<1>4. \A t \in Calls \ {c} : Made(t) => Made(t)'
  BY <1>2 DEF Made
<1>5. \A t \in Calls : Registered(t)' => Registered(t)
  BY <1>3, SandboxAssumption DEF Registered
<1>6. (\A k \in Ids : sessions[k] # None => Made(sessions[k]) /\ op[sessions[k]].id = k)'
  <2> SUFFICES ASSUME NEW k \in Ids, sessions'[k] # None
               PROVE  (Made(sessions[k]) /\ op[sessions[k]].id = k)'
    OBVIOUS
  <2>1. sessions'[k] = sessions[k] /\ sessions[k] \in Calls \ {c}
    BY <1>1, <1>3 DEF KInv, TypeOK
  <2>2. Made(sessions[k]) /\ op[sessions[k]].id = k
    BY <2>1 DEF KInv, Known
  <2>3. op'[sessions[k]] = op[sessions[k]] /\ pc'[sessions[k]] = pc[sessions[k]]
    BY <1>2, <2>1
  <2> QED BY <2>1, <2>2, <2>3 DEF Made
<1>7. \A t \in Calls : release'[t] # "none" => Made(t)' /\ ~ Registered(t)'
  <2> SUFFICES ASSUME NEW t \in Calls, release'[t] # "none"
               PROVE  Made(t)' /\ ~ Registered(t)'
    OBVIOUS
  <2>1. CASE release[t] # "none"
    BY <1>1, <1>4, <1>5, <2>1 DEF KInv, Known
  <2>2. CASE Registered(t) /\ ~ Registered(t)'
    <3>1. t # c /\ Made(t)
      BY <1>1, <2>2, SandboxAssumption DEF KInv, Known, Registered
    <3> QED BY <1>4, <2>2, <3>1
  <2> QED BY <1>3, <2>1, <2>2
<1>8. (\A d \in Calls : active[d] # None =>
        /\ pc[d] # "idle"
        /\ Made(active[d]) /\ op[active[d]].id = op[d].id)'
  <2> SUFFICES ASSUME NEW d \in Calls, active'[d] # None
               PROVE  (pc[d] # "idle" /\ Made(active[d]) /\ op[active[d]].id = op[d].id)'
    OBVIOUS
  <2>1. active'[d] = active[d] /\ active[d] \in Calls \ {c} /\ pc[d] # "idle"
    BY <1>1 DEF KInv, TypeOK, Known
  <2>2. Made(active[d]) /\ op[active[d]].id = op[d].id
    BY <2>1 DEF KInv, Known
  <2>3. /\ op'[active[d]] = op[active[d]] /\ pc'[active[d]] = pc[active[d]]
        /\ op'[d] = op[d] /\ pc'[d] = pc[d]
    BY <1>2, <2>1
  <2> QED BY <2>1, <2>2, <2>3 DEF Made
<1>9. /\ \A d \in Calls : pc'[d] # "idle" => op'[d] \in Requests
      /\ \A d \in Calls : InCreation(d)' => op'[d].kind \in {"create", "run"}
      /\ \A d \in Calls : pc'[d] \in ExecPhases => op'[d].kind \in {"exec", "run"} /\ active'[d] # None
      /\ \A d \in Calls : pc'[d] = "idle" => d \notin cut' /\ result'[d] = "none"
  BY <1>2 DEF KInv, Known, InCreation
<1> QED BY <1>6, <1>7, <1>8, <1>9 DEF Known

LEMMA CreateKnown ==
  ASSUME KInv, NEW c \in Calls, NEW r \in Requests, Create(c, r)
  PROVE  Known'
<1>1. \E q \in {"settled", "releasing"} \cup CreatePhases : pc' = [pc EXCEPT ![c] = q]
  BY DEF Create, GiveUp, Settle, Goto, CreatePhases
<1>2. /\ op' = [op EXCEPT ![c] = r] /\ pc[c] = "idle" /\ r.kind \in {"create", "run"}
      /\ UNCHANGED <<sessions, release, cut, active>>
  BY DEF Create, execs
<1>3. result' = result \/ \E o : result' = [result EXCEPT ![c] = o]
  BY DEF Create, GiveUp, Settle
<1> QED BY <1>1, <1>2, <1>3, BeginKnown

LEMMA DestroyKnown ==
  ASSUME KInv, NEW c \in Calls, NEW r \in Requests, Destroy(c, r)
  PROVE  Known'
<1>1. DestroyKeys(r) \in SUBSET Ids
  BY IdsAreNamed DEF Destroy, DestroyKeys
<1>2. /\ op' = [op EXCEPT ![c] = r] /\ pc[c] = "idle" /\ pc' = [pc EXCEPT ![c] = "releasing"]
      /\ Take(c, DestroyKeys(r)) /\ UNCHANGED <<cut, active, result>>
  BY DEF Destroy, Goto, execs
<1>3. "releasing" \notin CreatePhases
  BY DEF CreatePhases
<1> QED BY <1>1, <1>2, <1>3, BeginKnown

LEMMA ExecKnown ==
  ASSUME KInv, NEW c \in Calls, NEW r \in Requests, Exec(c, r)
  PROVE  Known'
<1>1. /\ op' = [op EXCEPT ![c] = r] /\ pc[c] = "idle" /\ r.kind = "exec" /\ r.id \in Ids
      /\ UNCHANGED <<sessions, release, cut>>
  BY IdsAreNamed DEF Exec
<1>2. CASE sessions[r.id] = None
  <2>1. pc' = [pc EXCEPT ![c] = "settled"] /\ result' = [result EXCEPT ![c] = "rejected"] /\ active' = active
    BY <1>2 DEF Exec, Settle, Goto
  <2>2. "settled" \notin CreatePhases
    BY DEF CreatePhases
  <2> QED BY <1>1, <2>1, <2>2, BeginKnown
<1>3. CASE sessions[r.id] # None
  <2> DEFINE t == sessions[r.id]
  <2>1. t \in Calls /\ Made(t) /\ op[t].id = r.id /\ t # c
    BY <1>1, <1>3 DEF KInv, TypeOK, Known, Made
  <2>2. active' = [active EXCEPT ![c] = t]
    BY <1>3 DEF Exec
  <2>3. \E q \in {"settled", "usage"} : pc' = [pc EXCEPT ![c] = q]
    BY <1>3 DEF Exec, Settle, Goto
  <2> HIDE DEF t
  <2>4. /\ \A d \in Calls \ {c} : op'[d] = op[d] /\ pc'[d] = pc[d] /\ active'[d] = active[d]
        /\ op'[c] = r /\ pc'[c] \in {"settled", "usage"} /\ active'[c] = t
    BY <1>1, <2>2, <2>3 DEF KInv, TypeOK
  <2>5. \A d \in Calls \ {c} : result'[d] = result[d]
    BY <1>3 DEF Exec, Settle, KInv, TypeOK
  <2>6. /\ ~ Registered(c) /\ release[c] = "none"
        /\ \A d \in Calls : active[d] # c
        /\ \A k \in Ids : sessions[k] # c
    BY <1>1, IdleIsNew
  <2>7. \A d \in Calls \ {c} : Made(d) => Made(d)'
    BY <2>4 DEF Made
  <2>8. (\A k \in Ids : sessions[k] # None => Made(sessions[k]) /\ op[sessions[k]].id = k)'
    <3> SUFFICES ASSUME NEW k \in Ids, sessions'[k] # None
                 PROVE  (Made(sessions[k]) /\ op[sessions[k]].id = k)'
      OBVIOUS
    <3>1. sessions'[k] = sessions[k] /\ sessions[k] \in Calls \ {c}
      BY <1>1, <2>6 DEF KInv, TypeOK
    <3>2. Made(sessions[k]) /\ op[sessions[k]].id = k
      BY <3>1 DEF KInv, Known
    <3>3. op'[sessions[k]] = op[sessions[k]] /\ pc'[sessions[k]] = pc[sessions[k]]
      BY <2>4, <3>1
    <3> QED BY <3>1, <3>2, <3>3 DEF Made
  <2>9. \A d \in Calls : release'[d] # "none" => Made(d)' /\ ~ Registered(d)'
    BY <1>1, <2>6, <2>7 DEF KInv, Known, Registered
  <2>10. (\A d \in Calls : active[d] # None =>
            /\ pc[d] # "idle"
            /\ Made(active[d]) /\ op[active[d]].id = op[d].id)'
    <3> SUFFICES ASSUME NEW d \in Calls, active'[d] # None
                 PROVE  (pc[d] # "idle" /\ Made(active[d]) /\ op[active[d]].id = op[d].id)'
      OBVIOUS
    <3>1. CASE d = c
      <4>1. op'[t].id = r.id /\ op'[t] = op[t] /\ pc'[t] = pc[t]
        BY <2>1, <2>4
      <4> QED BY <2>1, <2>4, <3>1, <4>1 DEF Made
    <3>2. CASE d # c
      <4>1. active'[d] = active[d] /\ active[d] \in Calls \ {c} /\ pc[d] # "idle"
        BY <2>4, <2>6, <3>2 DEF KInv, TypeOK, Known
      <4>2. Made(active[d]) /\ op[active[d]].id = op[d].id
        BY <4>1 DEF KInv, Known
      <4>3. /\ op'[active[d]] = op[active[d]] /\ pc'[active[d]] = pc[active[d]]
            /\ op'[d] = op[d] /\ pc'[d] = pc[d]
        BY <2>4, <3>2, <4>1
      <4> QED BY <4>1, <4>2, <4>3 DEF Made
    <3> QED BY <3>1, <3>2
  <2>11. /\ \A d \in Calls : pc'[d] # "idle" => op'[d] \in Requests
         /\ \A d \in Calls : InCreation(d)' => op'[d].kind \in {"create", "run"}
         /\ \A d \in Calls : pc'[d] \in ExecPhases => op'[d].kind \in {"exec", "run"} /\ active'[d] # None
         /\ \A d \in Calls : pc'[d] = "idle" => d \notin cut' /\ result'[d] = "none"
    BY <1>1, <2>1, <2>4, <2>5, SandboxAssumption DEF KInv, Known, InCreation, CreatePhases
  <2> QED BY <2>8, <2>9, <2>10, <2>11 DEF Known
<1> QED BY <1>2, <1>3

LEMMA StartContainerKnown ==
  ASSUME KInv, NEW c \in Calls, StartContainer(c)
  PROVE  Known'
<1>1. /\ pc[c] = "container" /\ UNCHANGED <<op, release, cut>>
      /\ sessions' = [sessions EXCEPT ![Key(c)] = c]
  BY DEF StartContainer
<1>2. pc[c] \in CreatePhases /\ pc[c] # "idle" /\ c # None
  BY <1>1, SandboxAssumption DEF CreatePhases
<1>3. op[c] \in Requests /\ op[c].kind \in {"create", "run"}
  BY <1>2 DEF KInv, Known, InCreation
<1>4. Key(c) \in Ids /\ op[c].id = Key(c)
  BY <1>3, IdsAreNamed DEF Key
<1>5. /\ ~ Registered(c) /\ release[c] = "none"
      /\ \A d \in Calls : active[d] # c
      /\ \A k \in Ids : sessions[k] # c
  BY <1>2, IdleIsNew
<1>6. /\ \A d \in Calls \ {c} : pc'[d] = pc[d] /\ active'[d] = active[d] /\ result'[d] = result[d]
      /\ \/ pc'[c] = "usage" /\ active'[c] = c /\ op[c].kind = "run"
         \/ pc'[c] = "settled" /\ active'[c] = active[c]
  BY DEF StartContainer, Goto, Settle, KInv, TypeOK
<1>7. pc'[c] \notin CreatePhases \cup {"idle"}
  BY <1>6 DEF CreatePhases
<1>8. \A d \in Calls : Made(d) => Made(d)'
  BY <1>1, <1>6, <1>7 DEF Made
<1>9. Made(c)'
  BY <1>1, <1>3, <1>7 DEF Made
<1>10. \A k \in Ids : sessions'[k] = IF k = Key(c) THEN c ELSE sessions[k]
  BY <1>1 DEF KInv, TypeOK
<1>11. (\A k \in Ids : sessions[k] # None => Made(sessions[k]) /\ op[sessions[k]].id = k)'
  <2> SUFFICES ASSUME NEW k \in Ids, sessions'[k] # None
               PROVE  (Made(sessions[k]) /\ op[sessions[k]].id = k)'
    OBVIOUS
  <2>1. CASE k = Key(c)
    BY <1>1, <1>4, <1>9, <1>10, <2>1 DEF Made
  <2>2. CASE k # Key(c)
    <3>1. sessions'[k] = sessions[k] /\ sessions[k] \in Calls \ {c}
      BY <1>5, <1>10, <2>2 DEF KInv, TypeOK
    <3>2. Made(sessions[k]) /\ op[sessions[k]].id = k
      BY <3>1 DEF KInv, Known
    <3>3. op' = op /\ pc'[sessions[k]] = pc[sessions[k]]
      BY <1>1, <1>6, <3>1
    <3> QED BY <3>1, <3>2, <3>3 DEF Made
  <2> QED BY <2>1, <2>2
<1>12. \A d \in Calls : release'[d] # "none" => Made(d)' /\ ~ Registered(d)'
  BY <1>1, <1>5, <1>8, <1>10 DEF KInv, Known, Registered
<1>13. (\A d \in Calls : active[d] # None =>
          /\ pc[d] # "idle"
          /\ Made(active[d]) /\ op[active[d]].id = op[d].id)'
  <2> SUFFICES ASSUME NEW d \in Calls, active'[d] # None
               PROVE  (pc[d] # "idle" /\ Made(active[d]) /\ op[active[d]].id = op[d].id)'
    OBVIOUS
  <2>1. CASE active'[d] = c
    <3>1. d = c
      BY <1>5, <1>6, <2>1
    <3> QED BY <1>1, <1>7, <1>9, <2>1, <3>1 DEF Made
  <2>2. CASE active'[d] # c
    <3>1. active'[d] = active[d] /\ active[d] \in Calls \ {c} /\ pc[d] # "idle" /\ pc'[d] # "idle"
      BY <1>2, <1>5, <1>6, <1>7, <2>2 DEF KInv, TypeOK, Known
    <3>2. Made(active[d]) /\ op[active[d]].id = op[d].id
      BY <3>1 DEF KInv, Known
    <3>3. op' = op /\ pc'[active[d]] = pc[active[d]]
      BY <1>1, <1>6, <3>1
    <3> QED BY <3>1, <3>2, <3>3 DEF Made
  <2> QED BY <2>1, <2>2
<1>14. /\ \A d \in Calls : pc'[d] # "idle" => op'[d] \in Requests
       /\ \A d \in Calls : InCreation(d)' => op'[d].kind \in {"create", "run"}
       /\ \A d \in Calls : pc'[d] \in ExecPhases => op'[d].kind \in {"exec", "run"} /\ active'[d] # None
       /\ \A d \in Calls : pc'[d] = "idle" => d \notin cut' /\ result'[d] = "none"
  BY <1>1, <1>2, <1>3, <1>6 DEF KInv, Known, InCreation, CreatePhases, ExecPhases
<1> QED BY <1>11, <1>12, <1>13, <1>14 DEF Known

LEMMA NextReading == KInv /\ [Next]_vars => Reading'
<1> SUFFICES ASSUME KInv, [Next]_vars, NEW d \in Calls, pc'[d] = "read"
             PROVE  \E a, b \in Nat : 1 <= a /\ a <= b /\ chunk'[d] = a .. b
  BY DEF Reading
<1>1. CASE pc[d] = "read" /\ chunk'[d] = chunk[d]
  BY <1>1 DEF KInv, Reading
<1>2. ASSUME NEW c \in Calls, NEW q, q # "read", Goto(c, q), chunk' = chunk
      PROVE  pc[d] = "read" /\ chunk'[d] = chunk[d]
  BY <1>2 DEF Goto, KInv, TypeOK
<1>3. ASSUME UNCHANGED <<pc, chunk>>
      PROVE  pc[d] = "read" /\ chunk'[d] = chunk[d]
  BY <1>3
<1>4. ASSUME NEW c \in Calls, StatLog(c)
      PROVE  \E a, b \in Nat : 1 <= a /\ a <= b /\ chunk'[d] = a .. b
  <2> DEFINE l == log[active[c]]
  <2>1. active[c] \in Calls
    BY <1>4, ActiveFacts DEF StatLog, ExecPhases
  <2>2. l.size \in Nat /\ l.offset \in Nat
    BY <2>1 DEF KInv, TypeOK
  <2>3. CASE l.size <= l.offset
    BY <1>1, <1>2, <1>4, <2>3 DEF StatLog
  <2>4. CASE ~ (l.size <= l.offset)
    <3>1. chunk' = [chunk EXCEPT ![c] = (l.offset + 1) .. l.size] /\ Goto(c, "read")
      BY <1>4, <2>4 DEF StatLog
    <3> HIDE DEF l
    <3>2. CASE d = c
      <4>1. chunk'[d] = (l.offset + 1) .. l.size
        BY <3>1, <3>2 DEF KInv, TypeOK
      <4> QED BY <2>2, <2>4, <4>1
    <3>3. CASE d # c
      BY <1>1, <3>1, <3>3 DEF Goto, KInv, TypeOK
    <3> QED BY <3>2, <3>3
  <2> QED BY <2>3, <2>4
<1>5. ASSUME NEW c \in Calls, ReadLog(c)
      PROVE  pc[d] = "read" /\ chunk'[d] = chunk[d]
  BY <1>5 DEF ReadLog, Goto, KInv, TypeOK
<1>6. CASE UNCHANGED vars
  BY <1>1, <1>3, <1>6 DEF vars, execs
<1>7. ASSUME NEW c \in Calls, Begin(c)
      PROVE  pc[d] = "read" /\ chunk'[d] = chunk[d]
  <2>1. \E q \in CreatePhases \cup {"settled", "releasing", "usage"} : Goto(c, q)
    BY <1>7 DEF Begin, Create, Exec, Destroy, GiveUp, Settle, CreatePhases
  <2>2. chunk' = chunk
    BY <1>7 DEF Begin, Create, Exec, Destroy, execs
  <2> QED BY <1>2, <2>1, <2>2 DEF CreatePhases
<1>8. ASSUME NEW c \in Calls, Creating(c)
      PROVE  pc[d] = "read" /\ chunk'[d] = chunk[d]
  <2>1. \E q \in CreatePhases \cup {"settled", "usage"} : Goto(c, q)
    BY <1>8 DEF Creating, CreateNetwork, StartProxy, UndoProxy, StartContainer, Abandon,
                AbandonAllowlist, GiveUp, Settle, CreatePhases
  <2>2. chunk' = chunk
    BY <1>8 DEF Creating, CreateNetwork, StartProxy, UndoProxy, StartContainer, Abandon, AbandonAllowlist, execs
  <2> QED BY <1>2, <2>1, <2>2 DEF CreatePhases
<1>9. ASSUME NEW c \in Calls, Executing(c)
      PROVE  \E a, b \in Nat : 1 <= a /\ a <= b /\ chunk'[d] = a .. b
  <2>1. CASE Interrupt(c)
    BY <1>1, <1>3, <2>1 DEF Interrupt
  <2>2. CASE \/ IssueExec(c) \/ ExecSettles(c) \/ Inspect(c) \/ Sync(c)
             \/ Finish(c) \/ ExecEnds(c) \/ DestroyReturns(c)
    <3>1. \E q \in {"settled", "releasing", "running", "inspect", "sync", "finish", "stat", "ending"} : Goto(c, q)
      BY <2>2 DEF IssueExec, ExecSettles, Inspect, Sync, Finish, ExecEnds, DestroyReturns, Leave, Settle
    <3>2. chunk' = chunk
      BY <2>2 DEF IssueExec, ExecSettles, Inspect, Sync, Finish, ExecEnds, DestroyReturns, execs
    <3> QED BY <1>1, <1>2, <3>1, <3>2
  <2> QED BY <1>1, <1>4, <1>5, <1>9, <2>1, <2>2 DEF Executing
<1>10. ASSUME NEW t \in Calls, World(t)
       PROVE  pc[d] = "read" /\ chunk'[d] = chunk[d]
  BY <1>3, <1>10 DEF World, StopBox, RemoveBox, ReleaseRest, StopLands, LogBlocked, execs
<1> QED BY <1>1, <1>6, <1>7, <1>8, <1>9, <1>10 DEF Next

LEMMA NextKInv == KInv /\ [Next]_vars => KInv'
<1> SUFFICES ASSUME KInv, [Next]_vars
             PROVE  Known'
  BY NextTypeOK, NextReading DEF KInv
<1>1. CASE UNCHANGED vars
  BY <1>1, SteadyKnown DEF vars, execs, Steady, Onward
<1>2. ASSUME NEW c \in Calls, Begin(c)
      PROVE  Known'
  BY <1>2, CreateKnown, ExecKnown, DestroyKnown DEF Begin
<1>3. ASSUME NEW c \in Calls, Creating(c)
      PROVE  Known'
  BY <1>3, CreatingSteady, SteadyKnown, StartContainerKnown DEF Creating
<1> QED BY <1>1, <1>2, <1>3, ExecutingSteady, WorldSteady, SteadyKnown DEF Next

-----------------------------------------------------------------------------
(***************************************************************************)
(* BlockedReported                                                         *)
(***************************************************************************)
\* What lies before the lines being read has been reported.
Behind ==
  \A c \in Calls : pc[c] = "read" => 1 .. Max(chunk[c]) \subseteq chunk[c] \cup log[active[c]].reported

BInv == KInv /\ BlockedReported /\ Behind

LEMMA InitBInv == Init => BInv
BY InitKInv DEF Init, BInv, BlockedReported, Behind

\* Steps that read no log.
LEMMA LogKept ==
  ASSUME BInv, \A t \in Calls : log'[t].offset = log[t].offset /\ log'[t].reported = log[t].reported,
         \A c \in Calls : pc'[c] = "read" => pc[c] = "read" /\ active'[c] = active[c] /\ chunk'[c] = chunk[c]
  PROVE  BlockedReported' /\ Behind'
<1>1. BlockedReported'
  BY DEF BInv, BlockedReported
<1>2. ASSUME NEW c \in Calls, pc'[c] = "read"
      PROVE  1 .. Max(chunk'[c]) \subseteq chunk'[c] \cup log'[active'[c]].reported
  <2>1. active[c] \in Calls
    BY <1>2, ActiveFacts DEF BInv, ExecPhases
  <2>2. chunk'[c] = chunk[c] /\ log'[active'[c]].reported = log[active[c]].reported
    BY <1>2, <2>1
  <2> QED BY <1>2, <2>2 DEF BInv, Behind
<1> QED BY <1>1, <1>2 DEF Behind

LEMMA StatLogBehind ==
  ASSUME BInv, NEW c \in Calls, StatLog(c)
  PROVE  BlockedReported' /\ Behind'
<1> DEFINE l == log[active[c]]
<1>1. active[c] \in Calls /\ pc[c] # "read"
  BY ActiveFacts DEF BInv, StatLog, ExecPhases
<1>2. l.size \in Nat /\ l.offset \in Nat /\ l.reported \in SUBSET Nat
  BY <1>1 DEF BInv, KInv, TypeOK
<1>3. 1 .. l.offset \subseteq l.reported
  BY <1>1 DEF BInv, BlockedReported
<1>4. log' = log /\ active' = active
  BY DEF StatLog
<1>5. CASE l.size <= l.offset
  <2>1. pc' = [pc EXCEPT ![c] = "finish"] /\ chunk' = chunk
    BY <1>5 DEF StatLog, Goto
  <2> QED BY <1>4, <2>1, LogKept DEF BInv, KInv, TypeOK
<1>6. CASE ~ (l.size <= l.offset)
  <2>1. chunk' = [chunk EXCEPT ![c] = (l.offset + 1) .. l.size] /\ pc' = [pc EXCEPT ![c] = "read"]
    BY <1>6 DEF StatLog, Goto
  <2>2. Max((l.offset + 1) .. l.size) = l.size
    <3> HIDE DEF l
    <3> QED BY <1>2, <1>6, MaxOfInterval
  <2> HIDE DEF l
  <2>3. chunk'[c] = (l.offset + 1) .. l.size
    BY <2>1 DEF BInv, KInv, TypeOK
  <2>4. 1 .. Max(chunk'[c]) \subseteq chunk'[c] \cup l.reported
    BY <1>2, <1>3, <2>2, <2>3
  <2>5. ASSUME NEW d \in Calls, pc'[d] = "read"
        PROVE  1 .. Max(chunk'[d]) \subseteq chunk'[d] \cup log'[active'[d]].reported
    <3>1. CASE d = c
      BY <1>4, <2>4, <3>1 DEF l
    <3>2. CASE d # c
      <4>1. pc[d] = "read" /\ chunk'[d] = chunk[d]
        BY <2>1, <2>5, <3>2 DEF BInv, KInv, TypeOK
      <4> QED BY <1>4, <4>1 DEF BInv, Behind
    <3> QED BY <3>1, <3>2
  <2>6. Behind'
    BY <2>5 DEF Behind
  <2> QED BY <1>4, <2>6 DEF BInv, BlockedReported
<1> QED BY <1>5, <1>6

LEMMA ReadLogBehind ==
  ASSUME BInv, NEW c \in Calls, ReadLog(c)
  PROVE  BlockedReported' /\ Behind'
<1>1. pc[c] = "read" /\ active[c] \in Calls
  BY ActiveFacts DEF BInv, ReadLog, ExecPhases
<1>2. Max(chunk[c]) \in Nat /\ chunk[c] \in SUBSET Nat
  BY <1>1, MaxOfInterval DEF BInv, KInv, TypeOK, Reading
<1>3. log' = Marked(log, active[c], Max(chunk[c]), chunk[c])
  BY DEF ReadLog, Marked
<1>4. log \in [Calls -> [size : Nat, offset : Nat, reported : SUBSET Nat]]
  BY DEF BInv, KInv, TypeOK
<1>5. /\ log'[active[c]].offset = Max(chunk[c])
      /\ log'[active[c]].reported = log[active[c]].reported \cup chunk[c]
      /\ \A t \in Calls \ {active[c]} : log'[t] = log[t]
  BY <1>1, <1>2, <1>3, <1>4, MarkedFacts
<1>6. 1 .. Max(chunk[c]) \subseteq chunk[c] \cup log[active[c]].reported
  BY <1>1 DEF BInv, Behind
<1>7. BlockedReported'
  <2> SUFFICES ASSUME NEW t \in Calls
               PROVE  1 .. log'[t].offset \subseteq log'[t].reported
    BY DEF BlockedReported
  <2>1. CASE t = active[c]
    BY <1>5, <1>6, <2>1
  <2>2. CASE t # active[c]
    BY <1>5, <2>2 DEF BInv, BlockedReported
  <2> QED BY <2>1, <2>2
<1>8. ASSUME NEW d \in Calls, pc'[d] = "read"
      PROVE  1 .. Max(chunk'[d]) \subseteq chunk'[d] \cup log'[active'[d]].reported
  <2>1. d # c /\ pc[d] = "read" /\ chunk'[d] = chunk[d] /\ active'[d] = active[d]
    BY <1>8 DEF ReadLog, Goto, BInv, KInv, TypeOK
  <2>2. active[d] \in Calls
    BY <2>1, ActiveFacts DEF BInv, ExecPhases
  <2>3. log[active[d]].reported \subseteq log'[active[d]].reported
    BY <1>5, <2>2
  <2> QED BY <2>1, <2>3 DEF BInv, Behind
<1> QED BY <1>7, <1>8 DEF Behind

LEMMA NextBInv == BInv /\ [Next]_vars => BInv'
<1> SUFFICES ASSUME BInv, [Next]_vars
             PROVE  BlockedReported' /\ Behind'
  BY NextKInv DEF BInv
<1>1. ASSUME NEW c \in Calls, NEW q, q # "read", Goto(c, q), UNCHANGED <<log, chunk>>,
             pc[c] \in CreatePhases \cup {"idle"} \/ active' = active,
             active' = active \/ \E t : active' = [active EXCEPT ![c] = t]
      PROVE  BlockedReported' /\ Behind'
  <2>1. \A d \in Calls : pc'[d] = "read" => pc[d] = "read" /\ d # c
    BY <1>1 DEF Goto, BInv, KInv, TypeOK
  <2>2. \A d \in Calls \ {c} : active'[d] = active[d]
    BY <1>1 DEF BInv, KInv, TypeOK
  <2> QED BY <1>1, <2>1, <2>2, LogKept
<1>2. CASE UNCHANGED vars
  BY <1>2, LogKept DEF vars, execs
<1>3. ASSUME NEW c \in Calls, Begin(c)
      PROVE  BlockedReported' /\ Behind'
  <2>1. \E q \in CreatePhases \cup {"settled", "releasing", "usage"} : Goto(c, q)
    BY <1>3 DEF Begin, Create, Exec, Destroy, GiveUp, Settle, CreatePhases
  <2>2. /\ UNCHANGED <<log, chunk>> /\ pc[c] = "idle"
        /\ active' = active \/ \E t : active' = [active EXCEPT ![c] = t]
    BY <1>3 DEF Begin, Create, Exec, Destroy, execs
  <2> QED BY <1>1, <2>1, <2>2 DEF CreatePhases
<1>4. ASSUME NEW c \in Calls, Creating(c)
      PROVE  BlockedReported' /\ Behind'
  <2>1. \E q \in CreatePhases \cup {"settled", "usage"} : Goto(c, q)
    BY <1>4 DEF Creating, CreateNetwork, StartProxy, UndoProxy, StartContainer, Abandon,
                AbandonAllowlist, GiveUp, Settle, CreatePhases
  <2>2. UNCHANGED <<log, chunk>> /\ pc[c] \in CreatePhases
    BY <1>4 DEF Creating, CreateNetwork, StartProxy, UndoProxy, StartContainer, Abandon, AbandonAllowlist,
                execs, CreatePhases
  <2>3. active' = active \/ \E t : active' = [active EXCEPT ![c] = t]
    BY <1>4 DEF Creating, CreateNetwork, StartProxy, UndoProxy, StartContainer, Abandon, AbandonAllowlist, execs
  <2> QED BY <1>1, <2>1, <2>2, <2>3 DEF CreatePhases
<1>5. ASSUME NEW c \in Calls, Executing(c)
      PROVE  BlockedReported' /\ Behind'
  <2>1. CASE Interrupt(c)
    BY <2>1, LogKept DEF Interrupt
  <2>2. CASE \/ IssueExec(c) \/ ExecSettles(c) \/ Inspect(c) \/ Sync(c)
             \/ Finish(c) \/ ExecEnds(c) \/ DestroyReturns(c)
    <3>1. \E q \in {"settled", "releasing", "running", "inspect", "sync", "finish", "stat", "ending"} : Goto(c, q)
      BY <2>2 DEF IssueExec, ExecSettles, Inspect, Sync, Finish, ExecEnds, DestroyReturns, Leave, Settle
    <3>2. UNCHANGED <<log, chunk, active>>
      BY <2>2 DEF IssueExec, ExecSettles, Inspect, Sync, Finish, ExecEnds, DestroyReturns, execs
    <3> QED BY <1>1, <3>1, <3>2
  <2> QED BY <1>5, <2>1, <2>2, StatLogBehind, ReadLogBehind DEF Executing
<1>6. ASSUME NEW t \in Calls, World(t)
      PROVE  BlockedReported' /\ Behind'
  <2>1. UNCHANGED <<pc, active, chunk>>
    BY <1>6 DEF World, StopBox, RemoveBox, ReleaseRest, StopLands, LogBlocked, execs
  <2>2. log' = log \/ log' = [log EXCEPT ![t].size = @ + 1]
    BY <1>6 DEF World, StopBox, RemoveBox, ReleaseRest, StopLands, LogBlocked, execs
  <2>3. \A d \in Calls : log'[d].offset = log[d].offset /\ log'[d].reported = log[d].reported
    BY <2>2 DEF BInv, KInv, TypeOK
  <2> QED BY <2>1, <2>3, LogKept
<1> QED BY <1>2, <1>3, <1>4, <1>5, <1>6 DEF Next

\* The offset of a block log never passes a line that nobody reports, however
\* many exec() calls read it at once.
THEOREM BlockedAlwaysReported == Spec => []BlockedReported
<1>1. BInv => BlockedReported
  BY DEF BInv
<1> QED BY <1>1, InitBInv, NextBInv, PTL DEF Spec

-----------------------------------------------------------------------------
(***************************************************************************)
(* InterruptClearsSession                                                  *)
(***************************************************************************)
\* An interrupted exec() that has destroyed, or that has its answer.
Answering(c) == \/ pc[c] = "ending"
                \/ pc[c] \in {"releasing", "settled"} /\ result[c] = "returned"

GivenUp ==
  \A c \in cut : /\ pc[c] \in ExecPhases \cup {"releasing", "settled"}
                 /\ active[c] # None
                 /\ pc[c] = "releasing" => result[c] # "none"
                 /\ Answering(c) => ~ Registered(active[c])

EInv == KInv /\ GivenUp

LEMMA InitEInv == Init => EInv
BY InitKInv DEF Init, EInv, GivenUp

\* What the other calls have given up stays given up, unless it is registered.
LEMMA OthersGivenUp ==
  ASSUME EInv, NEW c \in Calls,
         \A d \in Calls \ {c} : pc'[d] = pc[d] /\ result'[d] = result[d] /\ active'[d] = active[d],
         cut' \in {cut, cut \cup {c}},
         \A d \in Calls \ {c} : active[d] # None => (Registered(active[d])' => Registered(active[d])),
         c \in cut' => /\ pc'[c] \in ExecPhases \cup {"releasing", "settled"}
                       /\ active'[c] # None
                       /\ pc'[c] = "releasing" => result'[c] # "none"
                       /\ Answering(c)' => ~ Registered(active[c])'
  PROVE  GivenUp'
<1> SUFFICES ASSUME NEW d \in cut', d # c
             PROVE  /\ pc'[d] \in ExecPhases \cup {"releasing", "settled"}
                    /\ active'[d] # None
                    /\ pc'[d] = "releasing" => result'[d] # "none"
                    /\ Answering(d)' => ~ Registered(active[d])'
  BY DEF GivenUp
<1>1. d \in cut /\ d \in Calls
  BY DEF EInv, KInv, TypeOK
<1>2. /\ pc[d] \in ExecPhases \cup {"releasing", "settled"}
      /\ active[d] # None
      /\ pc[d] = "releasing" => result[d] # "none"
      /\ Answering(d) => ~ Registered(active[d])
  BY <1>1 DEF EInv, GivenUp
<1>3. Answering(d)' = Answering(d)
  BY <1>1 DEF Answering
<1> QED BY <1>1, <1>2, <1>3

\* A session that is not in the Map does not come back.
LEMMA StaysOut ==
  ASSUME KInv, Steady
  PROVE  \A d \in Calls : active[d] # None => (Registered(active[d])' => Registered(active[d]))
<1>1. active' = active /\ \A k \in Ids : sessions'[k] \in {sessions[k], None}
  BY DEF Steady
<1> SUFFICES ASSUME NEW d \in Calls, active[d] # None, NEW k \in Ids, sessions'[k] = active'[d]
             PROVE  sessions[k] = active[d]
  BY DEF Registered
<1> QED BY <1>1

LEMMA LeaveGivenUp ==
  ASSUME EInv, NEW c \in Calls, pc[c] \in ExecPhases, NEW r \in {"returned", "rejected"}, Leave(c, r),
         op' = op, active' = active, cut' = cut,
         c \in cut /\ r = "returned" => pc[c] = "ending"
  PROVE  GivenUp'
<1>1. Steady
  BY LeavingSteady DEF EInv
<1>2. op[c] \in Requests /\ op[c].kind \in {"exec", "run"} /\ active[c] # None
  BY ActiveFacts, SandboxAssumption DEF EInv
<1>3. PICK keys \in SUBSET Ids, p \in {"settled", "releasing"} :
        /\ pc' = [pc EXCEPT ![c] = p]
        /\ result' = [result EXCEPT ![c] = r]
  <2>1. TypeOK
    BY DEF EInv, KInv
  <2> QED BY <1>2, <2>1, LeaveFacts
<1>4. /\ \A d \in Calls \ {c} : pc'[d] = pc[d] /\ result'[d] = result[d]
      /\ pc'[c] = p /\ result'[c] = r
  BY <1>3 DEF EInv, KInv, TypeOK
<1>5. \A d \in Calls : active[d] # None => (Registered(active[d])' => Registered(active[d]))
  BY <1>1, StaysOut DEF EInv
<1>6. ASSUME c \in cut, Answering(c)'
      PROVE  ~ Registered(active[c])'
  <2>1. r = "returned"
    BY <1>4, <1>6 DEF Answering
  <2>2. ~ Registered(active[c])
    BY <1>6, <2>1 DEF EInv, GivenUp, Answering
  <2> QED BY <1>2, <1>5, <2>2
<1> QED BY <1>2, <1>4, <1>5, <1>6, OthersGivenUp

LEMMA ExecutingGivenUp ==
  ASSUME EInv, NEW c \in Calls, Executing(c)
  PROVE  GivenUp'
<1>1. Steady /\ active' = active
  BY ExecutingSteady DEF EInv, Steady
<1>2. \A d \in Calls : active[d] # None => (Registered(active[d])' => Registered(active[d]))
  BY <1>1, StaysOut DEF EInv
<1>3. pc[c] \in ExecPhases => active[c] # None
  BY ActiveFacts, SandboxAssumption DEF EInv
<1>4. CASE /\ pc[c] \in ExecPhases /\ \E q \in ExecPhases \ {"ending"} : Goto(c, q)
           /\ UNCHANGED <<cut, result>>
  <2>1. pc'[c] \in ExecPhases \ {"ending"} /\ \A d \in Calls \ {c} : pc'[d] = pc[d]
    BY <1>4 DEF Goto, EInv, KInv, TypeOK
  <2>2. ~ Answering(c)' /\ pc'[c] # "releasing"
    BY <2>1 DEF Answering, ExecPhases
  <2> QED BY <1>1, <1>2, <1>3, <1>4, <2>1, <2>2, OthersGivenUp
<1>5. CASE IssueExec(c)
  BY <1>4, <1>5 DEF IssueExec, ExecPhases, execs
<1>6. CASE Interrupt(c)
  <2>1. pc[c] = "running" /\ pc' = pc /\ result' = result /\ cut' = cut \cup {c}
    BY <1>6 DEF Interrupt
  <2>2. pc'[c] \in ExecPhases /\ ~ Answering(c)' /\ pc'[c] # "releasing"
    BY <2>1 DEF Answering, ExecPhases
  <2> QED BY <1>1, <1>2, <1>3, <2>1, <2>2, OthersGivenUp
<1>7. CASE ExecSettles(c)
  BY <1>1, <1>4, <1>7, LeaveGivenUp DEF ExecSettles, ExecPhases, execs
<1>8. CASE Inspect(c)
  BY <1>4, <1>8 DEF Inspect, ExecPhases
<1>9. CASE Sync(c)
  <2>1. CASE Leave(c, "rejected")
    BY <1>1, <1>9, <2>1, LeaveGivenUp DEF Sync, ExecPhases, execs
  <2>2. CASE ~ Leave(c, "rejected")
    BY <1>4, <1>9, <2>2 DEF Sync, ExecPhases, execs
  <2> QED BY <2>1, <2>2
<1>10. CASE StatLog(c)
  BY <1>4, <1>10 DEF StatLog, ExecPhases
<1>11. CASE ReadLog(c)
  BY <1>4, <1>11 DEF ReadLog, ExecPhases
<1>12. CASE Finish(c)
  <2>1. CASE MustDestroy(c)
    <3>1. /\ pc' = [pc EXCEPT ![c] = "ending"] /\ result' = result /\ cut' = cut /\ Take(c, {Key(c)})
          /\ pc[c] \in ExecPhases
      BY <1>12, <2>1 DEF Finish, Goto, execs, ExecPhases
    <3>2. op[c].id \in Ids /\ active[c] \in Calls /\ op[active[c]].id = op[c].id
      BY <3>1, ActiveFacts DEF EInv
    <3>3. {Key(c)} \in SUBSET Ids /\ op[active[c]].id \in {Key(c)}
      BY <3>2 DEF Key
    <3>4. ~ Registered(active[c])'
      <4>1. \A t \in Calls : (\E k \in {Key(c)} : op[t].id = k) => ~ Registered(t)'
        BY <3>1, <3>3, TakeSteady DEF EInv
      <4>2. ~ (\E k \in Ids : sessions'[k] = active[c])
        BY <3>2, <3>3, <4>1 DEF Registered
      <4> QED BY <1>1, <4>2 DEF Registered
    <3>5. pc'[c] = "ending" /\ \A d \in Calls \ {c} : pc'[d] = pc[d]
      BY <3>1 DEF EInv, KInv, TypeOK
    <3>6. "ending" \in ExecPhases
      BY DEF ExecPhases
    <3> QED BY <1>1, <1>2, <1>3, <3>1, <3>4, <3>5, <3>6, OthersGivenUp
  <2>2. CASE ~ MustDestroy(c)
    <3>1. c \notin cut
      BY <2>2 DEF MustDestroy
    <3> QED BY <1>1, <1>12, <2>2, <3>1, LeaveGivenUp DEF Finish, ExecPhases, execs
  <2> QED BY <2>1, <2>2
<1>13. CASE ExecEnds(c)
  BY <1>1, <1>13, LeaveGivenUp DEF ExecEnds, ExecPhases, execs
<1>14. CASE DestroyReturns(c)
  <2>1. /\ pc[c] = "releasing" /\ pc' = [pc EXCEPT ![c] = "settled"] /\ cut' = cut
        /\ result' = [result EXCEPT ![c] = IF result[c] = "none" THEN "returned" ELSE result[c]]
    BY <1>14 DEF DestroyReturns, Settle, Goto, execs
  <2>2. /\ \A d \in Calls \ {c} : pc'[d] = pc[d] /\ result'[d] = result[d]
        /\ pc'[c] = "settled" /\ (result[c] # "none" => result'[c] = result[c])
    BY <2>1 DEF EInv, KInv, TypeOK
  <2>3. ASSUME c \in cut
        PROVE  result[c] # "none" /\ active[c] # None /\ (Answering(c)' => ~ Registered(active[c])')
    <3>1. result[c] # "none" /\ active[c] # None
      BY <2>1, <2>3 DEF EInv, GivenUp
    <3>2. ASSUME Answering(c)'
          PROVE  ~ Registered(active[c])'
      <4>1. Answering(c)
        BY <2>1, <2>2, <3>1, <3>2 DEF Answering
      <4>2. ~ Registered(active[c])
        BY <2>3, <4>1 DEF EInv, GivenUp
      <4> QED BY <1>2, <3>1, <4>2
    <3> QED BY <3>1, <3>2
  <2> QED BY <1>1, <1>2, <2>1, <2>2, <2>3, OthersGivenUp
<1> QED BY <1>5, <1>6, <1>7, <1>8, <1>9, <1>10, <1>11, <1>12, <1>13, <1>14 DEF Executing

LEMMA NextEInv == EInv /\ [Next]_vars => EInv'
<1> SUFFICES ASSUME EInv, [Next]_vars
             PROVE  GivenUp'
  BY NextKInv DEF EInv
<1>1. ASSUME NEW c \in Calls, pc[c] \in {"idle"} \cup CreatePhases,
             cut' = cut, \A d \in Calls \ {c} : pc'[d] = pc[d] /\ result'[d] = result[d] /\ active'[d] = active[d],
             \A k \in Ids : sessions'[k] \in {sessions[k], None, c}
      PROVE  GivenUp'
  <2>1. c \notin cut
    BY <1>1 DEF EInv, GivenUp, CreatePhases, ExecPhases
  <2>2. \A d \in Calls \ {c} : active[d] # c
    BY <1>1, IdleIsNew DEF EInv
  <2>3. \A d \in Calls \ {c} : active[d] # None => (Registered(active[d])' => Registered(active[d]))
    <3> SUFFICES ASSUME NEW d \in Calls \ {c}, active[d] # None, NEW k \in Ids, sessions'[k] = active'[d]
                 PROVE  sessions[k] = active[d]
      BY DEF Registered
    <3> QED BY <1>1, <2>2
  <2> QED BY <1>1, <2>1, <2>3, OthersGivenUp
<1>2. CASE UNCHANGED vars
  BY <1>2 DEF vars, execs, EInv, GivenUp, Answering, Registered
<1>3. ASSUME NEW c \in Calls, NEW r \in Requests, Create(c, r)
      PROVE  GivenUp'
  <2>1. /\ \A d \in Calls \ {c} : pc'[d] = pc[d] /\ result'[d] = result[d]
        /\ UNCHANGED <<sessions, active, cut>> /\ pc[c] = "idle"
    BY <1>3 DEF Create, GiveUp, Settle, Goto, execs, EInv, KInv, TypeOK
  <2> QED BY <1>1, <2>1
<1>4. ASSUME NEW c \in Calls, NEW r \in Requests, Exec(c, r)
      PROVE  GivenUp'
  <2>1. /\ \A d \in Calls \ {c} : pc'[d] = pc[d] /\ result'[d] = result[d] /\ active'[d] = active[d]
        /\ UNCHANGED <<sessions, cut>> /\ pc[c] = "idle"
    BY <1>4 DEF Exec, Settle, Goto, EInv, KInv, TypeOK
  <2> QED BY <1>1, <2>1
<1>5. ASSUME NEW c \in Calls, NEW r \in Requests, Destroy(c, r)
      PROVE  GivenUp'
  <2>1. DestroyKeys(r) \in SUBSET Ids
    BY <1>5, IdsAreNamed DEF Destroy, DestroyKeys
  <2>2. /\ \A d \in Calls \ {c} : pc'[d] = pc[d]
        /\ UNCHANGED <<result, active, cut>> /\ pc[c] = "idle" /\ Take(c, DestroyKeys(r))
    BY <1>5 DEF Destroy, Goto, execs, EInv, KInv, TypeOK
  <2>3. \A k \in Ids : sessions'[k] \in {sessions[k], None}
    BY <2>1, <2>2, TakeSteady DEF EInv
  <2> QED BY <1>1, <2>2, <2>3
<1>6. ASSUME NEW c \in Calls, Creating(c)
      PROVE  GivenUp'
  <2>1. CASE StartContainer(c)
    <3>1. /\ \A d \in Calls \ {c} : pc'[d] = pc[d] /\ result'[d] = result[d] /\ active'[d] = active[d]
          /\ cut' = cut /\ pc[c] \in CreatePhases
          /\ \A k \in Ids : sessions'[k] \in {sessions[k], c}
      BY <2>1 DEF StartContainer, Settle, Goto, CreatePhases, EInv, KInv, TypeOK
    <3> QED BY <1>1, <3>1
  <2>2. CASE CreateNetwork(c) \/ StartProxy(c) \/ UndoProxy(c) \/ Abandon(c) \/ AbandonAllowlist(c)
    <3>1. \A d \in Calls \ {c} : pc'[d] = pc[d] /\ result'[d] = result[d]
      BY <2>2 DEF CreateNetwork, StartProxy, UndoProxy, Abandon, AbandonAllowlist, GiveUp, Settle, Goto,
                  EInv, KInv, TypeOK
    <3>2. UNCHANGED <<sessions, active, cut>> /\ pc[c] \in CreatePhases
      BY <2>2 DEF CreateNetwork, StartProxy, UndoProxy, Abandon, AbandonAllowlist, CreatePhases, execs
    <3> QED BY <1>1, <3>1, <3>2
  <2> QED BY <1>6, <2>1, <2>2 DEF Creating
<1>7. ASSUME NEW t \in Calls, World(t)
      PROVE  GivenUp'
  <2>1. UNCHANGED <<pc, result, active, cut, sessions>>
    BY <1>7 DEF World, StopBox, RemoveBox, ReleaseRest, StopLands, LogBlocked, execs
  <2> QED BY <2>1 DEF EInv, GivenUp, Answering, Registered
<1> QED BY <1>2, <1>3, <1>4, <1>5, <1>6, <1>7, ExecutingGivenUp DEF Next, Begin

\* An exec() that returns after a timeout or an abort has given up its session,
\* whatever other calls created or destroyed under its id meanwhile.
THEOREM InterruptAlwaysClears == Spec => []InterruptClearsSession
<1>1. EInv => InterruptClearsSession
  BY DEF EInv, GivenUp, Answering, InterruptClearsSession
<1> QED BY <1>1, InitEInv, NextEInv, PTL DEF Spec

-----------------------------------------------------------------------------
(***************************************************************************)
(* SessionKeepsNetwork                                                     *)
(***************************************************************************)
Owning == {"proxy", "unproxy", "unallow"}
Releasing == {"stop", "remove", "rest"}

\* From its creation to its removal a call holds the network of its id.
Holding(c) ==
  \/ pc[c] \in Owning
  \/ proxy[c] # "none" /\ (pc[c] = "container" \/ Registered(c) \/ release[c] \in Releasing)

Owned  == \A c \in Calls : Holding(c) => net[Key(c)] = c
Fenced == \A c \in Calls : /\ pc[c] = "container" \/ Registered(c)
                           /\ Policy(op[c]).network.mode = "allowlist"
                           => proxy[c] # "none"
Fresh  == \A c \in Calls : pc[c] \in {"idle", "network"} => proxy[c] = "none" /\ box[c] = "none"

NInv == KInv /\ Owned /\ Fenced /\ Fresh

LEMMA InitNInv == Init => NInv
<1> SUFFICES ASSUME Init PROVE NInv
  OBVIOUS
<1>1. \A c \in Calls : ~ Registered(c) /\ pc[c] = "idle" /\ release[c] = "none"
  BY SandboxAssumption DEF Init, Registered
<1>2. Owned /\ Fenced
  BY <1>1 DEF Owned, Fenced, Holding, Owning, Releasing
<1>3. Fresh
  BY DEF Init, Fresh
<1> QED BY <1>2, <1>3, InitKInv DEF NInv

\* Who holds a network is a call that creates a session, or has.
LEMMA HoldingFacts ==
  ASSUME KInv, NEW c \in Calls, Holding(c) \/ InCreation(c)
  PROVE  op[c] \in Requests /\ op[c].kind \in {"create", "run"} /\ Key(c) \in Ids /\ pc[c] # "idle"
<1>1. CASE InCreation(c) \/ pc[c] = "container" \/ pc[c] \in Owning
  <2>1. pc[c] \in CreatePhases /\ pc[c] # "idle"
    BY <1>1 DEF Owning, InCreation, CreatePhases
  <2>2. op[c] \in Requests /\ op[c].kind \in {"create", "run"}
    BY <2>1 DEF KInv, Known, InCreation
  <2> QED BY <2>1, <2>2, IdsAreNamed DEF Key
<1>2. CASE Registered(c) \/ release[c] \in Releasing
  <2>1. Made(c)
    BY <1>2, SandboxAssumption DEF KInv, Known, Registered, Releasing
  <2> QED BY <2>1, IdsAreNamed DEF Made, Key
<1> QED BY <1>1, <1>2 DEF Holding

\* Steps that neither take nor leave a network.
LEMMA HeldOn ==
  ASSUME NInv, net' = net,
         \A d \in Calls : proxy'[d] = "none" <=> proxy[d] = "none",
         \A d \in Calls : pc'[d] \in {"idle", "network", "container"} \cup Owning => pc'[d] = pc[d],
         \A d \in Calls : pc[d] \in {"idle", "network"} => box'[d] = box[d],
         \A d \in Calls : op'[d] = op[d] \/ pc[d] = "idle",
         \A d \in Calls : Registered(d)' => Registered(d),
         \A d \in Calls : release'[d] \in Releasing => release[d] \in Releasing \/ Registered(d)
  PROVE  Owned' /\ Fenced' /\ Fresh'
<1>1. ASSUME NEW d \in Calls, Holding(d)'
      PROVE  net'[Key(d)'] = d
  <2>1. Holding(d)
    BY <1>1 DEF Holding
  <2>2. Key(d)' = Key(d)
    BY <2>1, HoldingFacts DEF NInv, Key
  <2> QED BY <2>1, <2>2 DEF NInv, Owned
<1>2. ASSUME NEW d \in Calls, pc'[d] = "container" \/ Registered(d)', Policy(op'[d]).network.mode = "allowlist"
      PROVE  proxy'[d] # "none"
  <2>1. pc[d] = "container" \/ Registered(d)
    BY <1>2
  <2>2. pc[d] # "idle"
    BY <2>1, IdleIsNew DEF NInv
  <2> QED BY <1>2, <2>1, <2>2 DEF NInv, Fenced
<1> QED BY <1>1, <1>2 DEF NInv, Owned, Fenced, Fresh

\* The call that leaves the network held it, so no other call loses its own.
LEMMA LetGo ==
  ASSUME NInv, NEW c \in Calls, Holding(c), ~ Holding(c)',
         net' = net \/ net' = [net EXCEPT ![Key(c)] = None],
         op' = op, \A d \in Calls \ {c} : pc'[d] = pc[d] /\ proxy'[d] = proxy[d] /\ release'[d] = release[d],
         sessions' = sessions
  PROVE  Owned'
<1>1. ASSUME NEW d \in Calls, Holding(d)'
      PROVE  net'[Key(d)'] = d
  <2>1. d # c /\ Holding(d) /\ Key(d)' = Key(d)
    BY <1>1 DEF Holding, Registered, Key
  <2>2. net[Key(d)] = d /\ net[Key(c)] = c /\ Key(d) \in Ids
    BY <2>1, HoldingFacts DEF NInv, Owned
  <2> QED BY <2>1, <2>2 DEF NInv, KInv, TypeOK
<1> QED BY <1>1 DEF Owned

\* What a call does to itself while it creates its session.
LEMMA CreatingOthers ==
  ASSUME NInv, NEW c \in Calls,
         CreateNetwork(c) \/ StartProxy(c) \/ UndoProxy(c) \/ Abandon(c) \/ AbandonAllowlist(c)
  PROVE  /\ op' = op /\ sessions' = sessions /\ release' = release
         /\ \A d \in Calls \ {c} : pc'[d] = pc[d] /\ proxy'[d] = proxy[d] /\ box'[d] = box[d]
         /\ ~ Registered(c)' /\ release'[c] = "none"
         /\ InCreation(c) /\ Key(c) \in Ids
<1>1. op' = op /\ sessions' = sessions /\ release' = release
  BY DEF CreateNetwork, StartProxy, UndoProxy, Abandon, AbandonAllowlist
<1>2. pc[c] \in CreatePhases
  BY DEF CreateNetwork, StartProxy, UndoProxy, Abandon, AbandonAllowlist, CreatePhases
<1>3. \A d \in Calls \ {c} : pc'[d] = pc[d]
  BY DEF CreateNetwork, StartProxy, UndoProxy, Abandon, AbandonAllowlist, GiveUp, Settle, Goto, NInv, KInv, TypeOK
<1>4. \A d \in Calls \ {c} : proxy'[d] = proxy[d] /\ box'[d] = box[d]
  BY DEF CreateNetwork, StartProxy, UndoProxy, Abandon, AbandonAllowlist, NInv, KInv, TypeOK
<1>5. ~ Registered(c) /\ release[c] = "none"
  BY <1>2, IdleIsNew DEF NInv
<1> QED BY <1>1, <1>2, <1>3, <1>4, <1>5, HoldingFacts DEF NInv, Registered, InCreation

\* Fenced and Fresh speak of each call by itself.
LEMMA SelfOnly ==
  ASSUME NInv, NEW c \in Calls, op' = op,
         \A d \in Calls \ {c} : pc'[d] = pc[d] /\ proxy'[d] = proxy[d] /\ box'[d] = box[d],
         \A d \in Calls \ {c} : Registered(d)' => Registered(d),
         pc'[c] = "container" \/ Registered(c)' => proxy'[c] # "none" \/ Policy(op[c]).network.mode # "allowlist",
         pc'[c] \notin {"idle", "network"}
  PROVE  Fenced' /\ Fresh'
<1>1. Fenced'
  <2> SUFFICES ASSUME NEW d \in Calls, pc'[d] = "container" \/ Registered(d)',
                      Policy(op'[d]).network.mode = "allowlist"
               PROVE  proxy'[d] # "none"
    BY DEF Fenced
  <2> QED BY DEF NInv, Fenced
<1>2. Fresh'
  BY DEF NInv, Fresh
<1> QED BY <1>1, <1>2

LEMMA CreatingNInv ==
  ASSUME NInv, NEW c \in Calls, Creating(c)
  PROVE  Owned' /\ Fenced' /\ Fresh'
<1>1. CASE CreateNetwork(c)
  <2>1. /\ op' = op /\ sessions' = sessions /\ release' = release /\ proxy' = proxy
        /\ \A d \in Calls \ {c} : pc'[d] = pc[d] /\ box'[d] = box[d]
        /\ ~ Registered(c)' /\ release'[c] = "none" /\ Key(c) \in Ids
    BY <1>1, CreatingOthers DEF CreateNetwork
  <2>2. proxy[c] = "none"
    BY <1>1 DEF CreateNetwork, NInv, Fresh
  <2>3. CASE net' = net /\ pc'[c] = "settled"
    <3>1. ~ Holding(c)'
      BY <2>1, <2>2, <2>3 DEF Holding, Owning
    <3>2. ASSUME NEW d \in Calls, Holding(d)'
          PROVE  net'[Key(d)'] = d
      <4>1. d # c /\ Holding(d) /\ Key(d)' = Key(d)
        BY <2>1, <3>1, <3>2 DEF Holding, Registered, Key
      <4> QED BY <2>3, <4>1 DEF NInv, Owned
    <3> QED BY <2>1, <2>3, <3>2, SelfOnly DEF Owned, Registered
  <2>4. CASE net[Key(c)] = None /\ net' = [net EXCEPT ![Key(c)] = c] /\ pc'[c] = "proxy"
    <3>1. net'[Key(c)] = c
      BY <2>1, <2>4 DEF NInv, KInv, TypeOK
    <3>2. ASSUME NEW d \in Calls, d # c, Holding(d)'
          PROVE  net'[Key(d)'] = d
      <4>1. Holding(d) /\ Key(d)' = Key(d)
        BY <2>1, <3>2 DEF Holding, Registered, Key
      <4>2. net[Key(d)] = d /\ Key(d) \in Ids
        BY <4>1, HoldingFacts DEF NInv, Owned
      <4> QED BY <2>4, <4>1, <4>2, SandboxAssumption DEF NInv, KInv, TypeOK
    <3>3. Key(c)' = Key(c)
      BY <2>1 DEF Key
    <3> QED BY <2>1, <2>4, <3>1, <3>2, <3>3, SelfOnly DEF Owned, Registered
  <2>5. \/ net' = net /\ pc'[c] = "settled"
        \/ net[Key(c)] = None /\ net' = [net EXCEPT ![Key(c)] = c] /\ pc'[c] = "proxy"
    BY <1>1 DEF CreateNetwork, GiveUp, Settle, Goto, NInv, KInv, TypeOK
  <2> QED BY <2>3, <2>4, <2>5
<1>2. CASE StartProxy(c)
  <2>1. /\ op' = op /\ sessions' = sessions /\ release' = release
        /\ \A d \in Calls \ {c} : pc'[d] = pc[d] /\ proxy'[d] = proxy[d] /\ box'[d] = box[d]
        /\ ~ Registered(c)' /\ release'[c] = "none"
    BY <1>2, CreatingOthers
  <2>2. /\ net' = net /\ pc[c] = "proxy"
        /\ \/ pc'[c] = "unproxy"
           \/ pc'[c] = "container" /\ proxy'[c] = "running"
    BY <1>2 DEF StartProxy, Goto, NInv, KInv, TypeOK
  <2>3. ASSUME NEW d \in Calls, Holding(d)'
        PROVE  net'[Key(d)'] = d
    <3>1. Holding(d)
      BY <2>1, <2>2, <2>3 DEF Holding, Owning, Registered
    <3> QED BY <2>1, <2>2, <3>1 DEF NInv, Owned, Key
  <2> QED BY <2>1, <2>2, <2>3, SelfOnly DEF Owned, Registered
<1>3. CASE UndoProxy(c) \/ AbandonAllowlist(c)
  <2>1. /\ op' = op /\ sessions' = sessions /\ release' = release
        /\ \A d \in Calls \ {c} : pc'[d] = pc[d] /\ proxy'[d] = proxy[d] /\ box'[d] = box[d]
        /\ ~ Registered(c)' /\ release'[c] = "none"
    BY <1>3, CreatingOthers
  <2>2. /\ net' = net \/ net' = [net EXCEPT ![Key(c)] = None]
        /\ pc[c] \in Owning /\ pc'[c] = "settled"
    BY <1>3 DEF UndoProxy, AbandonAllowlist, GiveUp, Settle, Goto, Owning, NInv, KInv, TypeOK
  <2>3. Holding(c) /\ ~ Holding(c)'
    BY <2>1, <2>2 DEF Holding, Owning, Releasing
  <2> QED BY <2>1, <2>2, <2>3, LetGo, SelfOnly DEF Registered
<1>4. CASE Abandon(c)
  <2>1. /\ op' = op /\ sessions' = sessions /\ release' = release
        /\ \A d \in Calls \ {c} : pc'[d] = pc[d] /\ proxy'[d] = proxy[d] /\ box'[d] = box[d]
        /\ ~ Registered(c)' /\ release'[c] = "none"
    BY <1>4, CreatingOthers
  <2>2. /\ net' = net /\ proxy' = proxy /\ pc[c] = "container"
        /\ \/ pc'[c] = "settled"
           \/ pc'[c] = "unallow" /\ proxy[c] # "none"
    BY <1>4 DEF Abandon, GiveUp, Settle, Goto, NInv, KInv, TypeOK
  <2>3. ASSUME NEW d \in Calls, Holding(d)'
        PROVE  net'[Key(d)'] = d
    <3>1. Holding(d)
      BY <2>1, <2>2, <2>3 DEF Holding, Owning, Registered, Releasing
    <3> QED BY <2>1, <2>2, <3>1 DEF NInv, Owned, Key
  <2> QED BY <2>1, <2>2, <2>3, SelfOnly DEF Owned, Registered
<1>5. CASE StartContainer(c)
  <2>1. /\ op' = op /\ release' = release /\ proxy' = proxy /\ net' = net /\ pc[c] = "container"
        /\ \A d \in Calls \ {c} : pc'[d] = pc[d] /\ box'[d] = box[d]
        /\ pc'[c] \in {"settled", "usage"}
        /\ \A k \in Ids : sessions'[k] \in {sessions[k], c}
    BY <1>5 DEF StartContainer, Settle, Goto, NInv, KInv, TypeOK
  <2>2. \A d \in Calls \ {c} : Registered(d)' => Registered(d)
    BY <2>1 DEF Registered
  <2>3. ASSUME NEW d \in Calls, Holding(d)'
        PROVE  net'[Key(d)'] = d
    <3>1. Holding(d)
      BY <2>1, <2>2, <2>3 DEF Holding, Owning
    <3> QED BY <2>1, <3>1 DEF NInv, Owned, Key
  <2>4. proxy'[c] # "none" \/ Policy(op[c]).network.mode # "allowlist"
    BY <2>1 DEF NInv, Fenced
  <2> QED BY <2>1, <2>2, <2>3, <2>4, SelfOnly DEF Owned
<1> QED BY <1>1, <1>2, <1>3, <1>4, <1>5 DEF Creating

LEMMA CreateNInv ==
  ASSUME NInv, NEW c \in Calls, NEW r \in Requests, Create(c, r)
  PROVE  Owned' /\ Fenced' /\ Fresh'
<1>1. /\ pc[c] = "idle" /\ UNCHANGED <<sessions, box, proxy, net, release>>
      /\ op' = [op EXCEPT ![c] = r]
  BY DEF Create
<1>2. /\ \A d \in Calls \ {c} : pc'[d] = pc[d] /\ op'[d] = op[d]
      /\ op'[c] = r
      /\ \/ pc'[c] \in {"settled", "network"}
         \/ pc'[c] = "container" /\ Policy(r).network.mode # "allowlist"
  BY DEF Create, GiveUp, Settle, Goto, NInv, KInv, TypeOK
<1>3. ~ Registered(c) /\ release[c] = "none" /\ proxy[c] = "none" /\ box[c] = "none"
  BY <1>1, IdleIsNew DEF NInv, Fresh
<1>4. ASSUME NEW d \in Calls, Holding(d)'
      PROVE  net'[Key(d)'] = d
  <2>1. d # c /\ Holding(d) /\ Key(d)' = Key(d)
    BY <1>1, <1>2, <1>3, <1>4 DEF Holding, Owning, Registered, Releasing, Key
  <2> QED BY <1>1, <2>1 DEF NInv, Owned
<1>5. ASSUME NEW d \in Calls, pc'[d] = "container" \/ Registered(d)', Policy(op'[d]).network.mode = "allowlist"
      PROVE  proxy'[d] # "none"
  <2>1. d # c
    BY <1>1, <1>2, <1>3, <1>5 DEF Registered
  <2> QED BY <1>1, <1>2, <1>5, <2>1 DEF NInv, Fenced, Registered
<1>6. Fresh'
  BY <1>1, <1>2, <1>3 DEF NInv, Fresh
<1> QED BY <1>4, <1>5, <1>6 DEF Owned, Fenced

\* Steady steps of an exec() or of the world leave creation alone.
LEMMA ExecutingNInv ==
  ASSUME NInv, NEW c \in Calls, Executing(c)
  PROVE  Owned' /\ Fenced' /\ Fresh'
<1>1. Steady
  BY ExecutingSteady DEF NInv
<1>2. UNCHANGED docker
  BY DEF Executing, IssueExec, Interrupt, ExecSettles, Inspect, Sync, StatLog, ReadLog, Finish, ExecEnds, DestroyReturns
<1>3. pc[c] \in ExecPhases \cup {"releasing"}
  BY DEF Executing, IssueExec, Interrupt, ExecSettles, Inspect, Sync, StatLog, ReadLog, Finish, ExecEnds,
         DestroyReturns, ExecPhases
<1>4. \A d \in Calls \ {c} : pc'[d] = pc[d]
  BY DEF Executing, IssueExec, Interrupt, ExecSettles, Inspect, Sync, StatLog, ReadLog, Finish, ExecEnds,
         DestroyReturns, Leave, Settle, Goto, NInv, KInv, TypeOK
<1>5. pc'[c] \notin {"idle", "network", "container"} \cup Owning
  BY <1>1, <1>3 DEF Steady, Onward, CreatePhases, ExecPhases, Owning
<1>6. \A d \in Calls : Registered(d)' => Registered(d)
  BY <1>1, SandboxAssumption DEF Steady, Registered
<1>7. \A d \in Calls : release'[d] \in Releasing => release[d] \in Releasing \/ Registered(d)
  <2>1. release' = release \/ \E keys \in SUBSET Ids : Take(c, keys)
    <3>1. CASE \/ Leave(c, "returned") \/ Leave(c, "rejected")
      <4>1. CASE op[c].kind = "run" /\ pc[c] \in ExecPhases
        <5>1. {Key(c)} \in SUBSET Ids
          BY <4>1, ActiveFacts DEF NInv, Key
        <5> QED BY <3>1, <4>1, <5>1 DEF Leave
      <4>2. CASE op[c].kind # "run"
        BY <3>1, <4>2 DEF Leave
      <4>3. CASE pc[c] \notin ExecPhases
        BY <4>3 DEF Executing, IssueExec, Interrupt, ExecSettles, Inspect, Sync, StatLog, ReadLog, Finish,
                    ExecEnds, DestroyReturns, ExecPhases
      <4> QED BY <4>1, <4>2, <4>3
    <3>2. CASE Finish(c) /\ MustDestroy(c)
      <4>1. {Key(c)} \in SUBSET Ids
        BY <3>2, ActiveFacts DEF NInv, Key, Finish, ExecPhases
      <4> QED BY <3>2, <4>1 DEF Finish
    <3> QED BY <3>1, <3>2 DEF Executing, IssueExec, Interrupt, ExecSettles, Inspect, Sync, StatLog, ReadLog,
                              Finish, ExecEnds, DestroyReturns
  <2>2. CASE release' = release
    BY <2>2
  <2>3. ASSUME NEW keys \in SUBSET Ids, Take(c, keys), NEW d \in Calls, release'[d] \in Releasing
        PROVE  release[d] \in Releasing \/ Registered(d)
    BY <2>3, TakeFacts DEF NInv, KInv, Registered
  <2> QED BY <2>1, <2>2, <2>3
<1> QED BY <1>1, <1>2, <1>4, <1>5, <1>6, <1>7, HeldOn DEF docker, Steady

LEMMA ReleaseRestNInv ==
  ASSUME NInv, NEW t \in Calls, ReleaseRest(t)
  PROVE  Owned' /\ Fenced' /\ Fresh'
<1>1. /\ release[t] = "rest" /\ release' = [release EXCEPT ![t] = "done"]
      /\ UNCHANGED <<pc, op, sessions, box, proxy>>
      /\ net' = net \/ (net' = [net EXCEPT ![Key(t)] = None] /\ proxy[t] # "none")
  BY DEF ReleaseRest, NInv, KInv, TypeOK
<1>2. release'[t] = "done" /\ \A d \in Calls \ {t} : release'[d] = release[d]
  BY <1>1 DEF NInv, KInv, TypeOK
<1>3. Made(t) /\ ~ Registered(t)
  BY <1>1 DEF NInv, KInv, Known
<1>4. ~ Holding(t)'
  BY <1>1, <1>2, <1>3 DEF Holding, Made, Owning, Releasing, CreatePhases, Registered
<1>5. Owned'
  <2>1. CASE proxy[t] # "none"
    <3>1. Holding(t)
      BY <1>1, <2>1 DEF Holding, Releasing
    <3> QED BY <1>1, <1>2, <1>4, <3>1, LetGo
  <2>2. CASE proxy[t] = "none"
    <3>1. net' = net
      BY <1>1, <2>2
    <3>2. \A d \in Calls : Holding(d)' => Holding(d)
      BY <1>1, <1>2, <1>4 DEF Holding, Registered
    <3> QED BY <1>1, <3>1, <3>2 DEF NInv, Owned, Key
  <2> QED BY <2>1, <2>2
<1>6. Fenced' /\ Fresh'
  BY <1>1 DEF NInv, Fenced, Fresh, Registered
<1> QED BY <1>5, <1>6

LEMMA WorldNInv ==
  ASSUME NInv, NEW t \in Calls, World(t)
  PROVE  Owned' /\ Fenced' /\ Fresh'
<1>1. CASE StopBox(t) \/ RemoveBox(t)
  <2>1. /\ UNCHANGED <<pc, op, sessions, net>> /\ release[t] \in {"stop", "remove"}
        /\ \A d \in Calls : proxy'[d] = "none" <=> proxy[d] = "none"
        /\ \A d \in Calls \ {t} : box'[d] = box[d] /\ release'[d] = release[d]
    BY <1>1 DEF StopBox, RemoveBox, NInv, KInv, TypeOK
  <2>2. Made(t)
    BY <2>1 DEF NInv, KInv, Known
  <2>3. pc[t] \notin {"idle", "network"}
    BY <2>2 DEF Made, CreatePhases
  <2>4. release[t] \in Releasing
    BY <2>1 DEF Releasing
  <2> QED BY <2>1, <2>3, <2>4, HeldOn DEF Registered
<1>2. CASE StopLands(t)
  <2>1. /\ UNCHANGED <<pc, op, sessions, net, proxy, release>>
        /\ \A d \in Calls : box'[d] = box[d] \/ box[d] = "running"
    BY <1>2 DEF StopLands, NInv, KInv, TypeOK
  <2>2. \A d \in Calls : pc[d] \in {"idle", "network"} => box'[d] = box[d]
    BY <2>1 DEF NInv, Fresh
  <2> QED BY <2>1, <2>2, HeldOn DEF Registered
<1>3. CASE LogBlocked(t)
  BY <1>3, HeldOn DEF LogBlocked, docker, Registered
<1> QED BY <1>1, <1>2, <1>3, ReleaseRestNInv DEF World

LEMMA NextNInv == NInv /\ [Next]_vars => NInv'
<1> SUFFICES ASSUME NInv, [Next]_vars
             PROVE  Owned' /\ Fenced' /\ Fresh'
  BY NextKInv DEF NInv
<1>1. CASE UNCHANGED vars
  BY <1>1, HeldOn DEF vars, docker, Registered
<1>2. ASSUME NEW c \in Calls, NEW r \in Requests, Exec(c, r)
      PROVE  Owned' /\ Fenced' /\ Fresh'
  <2>1. /\ pc[c] = "idle" /\ UNCHANGED <<sessions, docker, release>>
        /\ \A d \in Calls \ {c} : op'[d] = op[d] /\ pc'[d] = pc[d]
        /\ pc'[c] \in {"settled", "usage"}
    BY <1>2 DEF Exec, Settle, Goto, NInv, KInv, TypeOK
  <2>2. pc'[c] \notin {"idle", "network", "container"} \cup Owning
    BY <2>1 DEF Owning
  <2> QED BY <2>1, <2>2, HeldOn DEF docker, Registered
<1>3. ASSUME NEW c \in Calls, NEW r \in Requests, Destroy(c, r)
      PROVE  Owned' /\ Fenced' /\ Fresh'
  <2>1. /\ pc[c] = "idle" /\ UNCHANGED docker /\ Take(c, DestroyKeys(r))
        /\ \A d \in Calls \ {c} : op'[d] = op[d] /\ pc'[d] = pc[d]
        /\ pc'[c] = "releasing"
    BY <1>3 DEF Destroy, Goto, NInv, KInv, TypeOK
  <2>2. DestroyKeys(r) \in SUBSET Ids
    BY <1>3, IdsAreNamed DEF Destroy, DestroyKeys
  <2>3. \A d \in Calls : release'[d] \in Releasing => release[d] \in Releasing \/ Registered(d)
    <3> HIDE DEF DestroyKeys
    <3> QED BY <2>1, <2>2, TakeFacts DEF NInv, KInv, Registered
  <2>4. \A k \in Ids : sessions'[k] \in {sessions[k], None}
    BY <2>1, <2>2, TakeSteady DEF NInv
  <2>5. \A d \in Calls : Registered(d)' => Registered(d)
    BY <2>4, SandboxAssumption DEF Registered
  <2>6. pc'[c] \notin {"idle", "network", "container"} \cup Owning
    BY <2>1 DEF Owning
  <2> QED BY <2>1, <2>3, <2>5, <2>6, HeldOn DEF docker
<1> QED BY <1>1, <1>2, <1>3, CreateNInv, CreatingNInv, ExecutingNInv, WorldNInv DEF Next, Begin

\* A registered allowlist session keeps its network, whatever failures and
\* clean-ups of other calls name that network meanwhile.
THEOREM SessionAlwaysKeepsNetwork == Spec => []SessionKeepsNetwork
<1>1. NInv => SessionKeepsNetwork
  BY DEF NInv, Owned, Fenced, Holding, SessionKeepsNetwork
<1> QED BY <1>1, InitNInv, NextNInv, PTL DEF Spec

-----------------------------------------------------------------------------
(***************************************************************************)
(* ContainersAccounted, when every session has a network                   *)
(***************************************************************************)
AllowlistOnly ==
  \A r \in Requests : r.kind \in {"create", "run"} => Policy(r).network.mode = "allowlist"

Alive(t) == Live(box[t]) \/ Live(proxy[t])
Accounted(t) == InCreation(t) \/ Registered(t) \/ release[t] \in {"stop", "remove"}

\* A container is only started by the step that registers its session.
Started == \A t \in Calls : InCreation(t) => ~ Live(box[t])

CInv == NInv /\ ContainersAccounted /\ Started

LEMMA InitCInv == Init => CInv
BY InitNInv DEF Init, CInv, ContainersAccounted, Started, Live, InCreation, CreatePhases

\* The network of an id is a lock: a session is only registered over one that
\* is not there any more.
LEMMA NothingDisplaced ==
  ASSUME NInv, AllowlistOnly, NEW c \in Calls, StartContainer(c)
  PROVE  sessions[Key(c)] = None
<1> SUFFICES ASSUME sessions[Key(c)] # None
             PROVE  FALSE
  OBVIOUS
<1>1. pc[c] = "container" /\ InCreation(c)
  BY DEF StartContainer, InCreation, CreatePhases
<1>2. op[c] \in Requests /\ op[c].kind \in {"create", "run"} /\ Key(c) \in Ids
  BY <1>1, HoldingFacts DEF NInv
<1> DEFINE d == sessions[Key(c)]
<1>3. d \in Calls /\ Made(d) /\ op[d].id = Key(c) /\ Registered(d)
  BY <1>2 DEF NInv, KInv, TypeOK, Known, Registered
<1>4. Policy(op[c]).network.mode = "allowlist" /\ Policy(op[d]).network.mode = "allowlist"
  BY <1>2, <1>3 DEF AllowlistOnly, Made
<1>5. Holding(c) /\ Holding(d)
  BY <1>1, <1>3, <1>4 DEF NInv, Fenced, Holding
<1>6. net[Key(c)] = c /\ net[Key(d)] = d /\ Key(d) = Key(c)
  BY <1>3, <1>5 DEF NInv, Owned, Key
<1>7. c = d
  BY <1>6
<1> QED BY <1>1, <1>3, <1>7 DEF Made, InCreation

\* Steps that neither start a container nor lose sight of one.
LEMMA StillAccounted ==
  ASSUME CInv, NEW c \in Calls,
         \A t \in Calls \ {c} : Alive(t)' => Alive(t),
         \A t \in Calls \ {c} : Accounted(t) => Accounted(t)',
         \A t \in Calls \ {c} : InCreation(t)' => InCreation(t) /\ (Live(box[t])' => Live(box[t])),
         Alive(c)' => Accounted(c)',
         InCreation(c)' => ~ Live(box[c])'
  PROVE  ContainersAccounted' /\ Started'
<1>1. ContainersAccounted'
  <2> SUFFICES ASSUME NEW t \in Calls, Alive(t)'
               PROVE  Accounted(t)'
    BY DEF ContainersAccounted, Alive, Accounted
  <2> QED BY DEF CInv, ContainersAccounted, Alive, Accounted
<1>2. Started'
  BY DEF CInv, Started
<1> QED BY <1>1, <1>2

\* Taking sessions from the Map begins their release.
LEMMA TakenAccounted ==
  ASSUME KInv, NEW c \in Calls, NEW keys \in SUBSET Ids, Take(c, keys), NEW t \in Calls,
         Registered(t) \/ release[t] \in {"stop", "remove"}
  PROVE  Registered(t)' \/ release'[t] \in {"stop", "remove"}
<1>1. CASE Registered(t)
  BY <1>1, TakeSteady
<1>2. CASE release[t] \in {"stop", "remove"}
  BY <1>2, TakeFacts DEF KInv
<1> QED BY <1>1, <1>2

LEMMA ExecutingTakes ==
  ASSUME KInv, NEW c \in Calls, Executing(c)
  PROVE  UNCHANGED <<sessions, release>> \/ \E keys \in SUBSET Ids : Take(c, keys)
<1>1. CASE Leave(c, "returned") \/ Leave(c, "rejected")
  <2>1. CASE op[c].kind = "run" /\ pc[c] \in ExecPhases
    <3>1. {Key(c)} \in SUBSET Ids
      BY <2>1, ActiveFacts DEF Key
    <3> QED BY <1>1, <2>1, <3>1 DEF Leave
  <2>2. CASE op[c].kind # "run"
    BY <1>1, <2>2 DEF Leave
  <2>3. CASE pc[c] \notin ExecPhases
    BY <2>3 DEF Executing, IssueExec, Interrupt, ExecSettles, Inspect, Sync, StatLog, ReadLog, Finish,
                ExecEnds, DestroyReturns, ExecPhases
  <2> QED BY <2>1, <2>2, <2>3
<1>2. CASE Finish(c) /\ MustDestroy(c)
  <2>1. {Key(c)} \in SUBSET Ids
    BY <1>2, ActiveFacts DEF Key, Finish, ExecPhases
  <2> QED BY <1>2, <2>1 DEF Finish
<1> QED BY <1>1, <1>2 DEF Executing, IssueExec, Interrupt, ExecSettles, Inspect, Sync, StatLog, ReadLog,
                          Finish, ExecEnds, DestroyReturns

LEMMA CreatingAccounted ==
  ASSUME CInv, AllowlistOnly, NEW c \in Calls, Creating(c)
  PROVE  ContainersAccounted' /\ Started'
<1>0. NInv
  BY DEF CInv
<1>1. CASE StartContainer(c)
  <2>1. /\ release' = release /\ proxy' = proxy /\ pc[c] = "container"
        /\ \A d \in Calls \ {c} : pc'[d] = pc[d] /\ box'[d] = box[d]
        /\ pc'[c] \in {"settled", "usage"}
        /\ sessions' = [sessions EXCEPT ![Key(c)] = c]
    BY <1>0, <1>1 DEF StartContainer, Settle, Goto, NInv, KInv, TypeOK
  <2>2. Key(c) \in Ids
    BY <1>0, <2>1, HoldingFacts DEF NInv, InCreation, CreatePhases
  <2>3. sessions[Key(c)] = None
    BY <1>0, <1>1, NothingDisplaced
  <2>4. \A d \in Calls : Registered(d) => Registered(d)'
    BY <1>0, <2>1, <2>3, SandboxAssumption DEF Registered, NInv, KInv, TypeOK
  <2>5. Registered(c)'
    BY <1>0, <2>1, <2>2 DEF Registered, NInv, KInv, TypeOK
  <2>6. ~ InCreation(c)'
    BY <2>1 DEF InCreation, CreatePhases
  <2> QED BY <2>1, <2>4, <2>5, <2>6, StillAccounted DEF Alive, Accounted, InCreation
<1>2. CASE CreateNetwork(c) \/ StartProxy(c) \/ UndoProxy(c) \/ Abandon(c) \/ AbandonAllowlist(c)
  <2>1. /\ sessions' = sessions /\ release' = release
        /\ \A d \in Calls \ {c} : pc'[d] = pc[d] /\ proxy'[d] = proxy[d] /\ box'[d] = box[d]
        /\ InCreation(c)
    BY <1>0, <1>2, CreatingOthers
  <2>2. ~ Live(box[c])
    BY <2>1 DEF CInv, Started
  <2>3. ~ Live(box[c])'
    <3>1. CASE Abandon(c)
      BY <1>0, <3>1 DEF Abandon, Live, NInv, KInv, TypeOK
    <3> QED BY <1>2, <2>2, <3>1 DEF CreateNetwork, StartProxy, UndoProxy, AbandonAllowlist, Live
  <2>4. InCreation(c)' \/ ~ Live(proxy[c])'
    <3>1. CASE CreateNetwork(c)
      BY <1>0, <3>1 DEF CreateNetwork, Live, NInv, Fresh
    <3>2. CASE StartProxy(c)
      BY <1>0, <3>2 DEF StartProxy, Goto, InCreation, CreatePhases, NInv, KInv, TypeOK
    <3>3. CASE UndoProxy(c)
      BY <1>0, <3>3 DEF UndoProxy, Live, NInv, KInv, TypeOK
    <3>4. CASE Abandon(c)
      BY <1>0, <3>4 DEF Abandon, Goto, Live, InCreation, CreatePhases, NInv, KInv, TypeOK
    <3>5. CASE AbandonAllowlist(c)
      BY <1>0, <3>5 DEF AbandonAllowlist, Live, NInv, KInv, TypeOK
    <3> QED BY <1>2, <3>1, <3>2, <3>3, <3>4, <3>5
  <2>5. \A d \in Calls : Registered(d) => Registered(d)'
    BY <2>1 DEF Registered
  <2> QED BY <2>1, <2>3, <2>4, <2>5, StillAccounted DEF Alive, Accounted, InCreation, Live
<1> QED BY <1>1, <1>2 DEF Creating

LEMMA BeginAccounted ==
  ASSUME CInv, NEW c \in Calls, Begin(c)
  PROVE  ContainersAccounted' /\ Started'
<1>0. NInv /\ KInv
  BY DEF CInv, NInv
<1>1. pc[c] = "idle"
  BY DEF Begin, Create, Exec, Destroy
<1>2. UNCHANGED <<box, proxy>> /\ \A d \in Calls \ {c} : pc'[d] = pc[d]
  BY <1>0 DEF Begin, Create, Exec, Destroy, GiveUp, Settle, Goto, docker, KInv, TypeOK
<1>3. ~ Live(box[c]) /\ ~ Live(proxy[c])
  BY <1>0, <1>1 DEF NInv, Fresh, Live
<1>4. \A d \in Calls : Registered(d) \/ release[d] \in {"stop", "remove"}
                         => Registered(d)' \/ release'[d] \in {"stop", "remove"}
  <2>1. ASSUME NEW r \in Requests, Destroy(c, r)
        PROVE  \E keys \in SUBSET Ids : Take(c, keys)
    BY <2>1, IdsAreNamed DEF Destroy, DestroyKeys
  <2>2. CASE UNCHANGED <<sessions, release>>
    BY <2>2 DEF Registered
  <2>3. CASE \E keys \in SUBSET Ids : Take(c, keys)
    BY <1>0, <2>3, TakenAccounted
  <2> QED BY <2>1, <2>2, <2>3 DEF Begin, Create, Exec
<1> QED BY <1>2, <1>3, <1>4, StillAccounted DEF Alive, Accounted, InCreation, Live

LEMMA ExecutingAccounted ==
  ASSUME CInv, NEW c \in Calls, Executing(c)
  PROVE  ContainersAccounted' /\ Started'
<1>0. NInv /\ KInv
  BY DEF CInv, NInv
<1>1. UNCHANGED <<box, proxy>>
  BY DEF Executing, IssueExec, Interrupt, ExecSettles, Inspect, Sync, StatLog, ReadLog, Finish, ExecEnds,
         DestroyReturns, docker
<1>2. \A d \in Calls \ {c} : pc'[d] = pc[d]
  BY <1>0 DEF Executing, IssueExec, Interrupt, ExecSettles, Inspect, Sync, StatLog, ReadLog, Finish, ExecEnds,
         DestroyReturns, Leave, Settle, Goto, KInv, TypeOK
<1>3. pc[c] \notin CreatePhases /\ pc'[c] \notin CreatePhases
  <2>1. pc[c] \notin CreatePhases \cup {"idle"}
    BY DEF Executing, IssueExec, Interrupt, ExecSettles, Inspect, Sync, StatLog, ReadLog, Finish, ExecEnds,
           DestroyReturns, CreatePhases
  <2>2. Onward(pc[c], pc'[c])
    BY <1>0, ExecutingSteady DEF Steady
  <2> QED BY <2>1, <2>2 DEF Onward
<1>4. \A d \in Calls : Registered(d) \/ release[d] \in {"stop", "remove"}
                         => Registered(d)' \/ release'[d] \in {"stop", "remove"}
  <2>1. CASE UNCHANGED <<sessions, release>>
    BY <2>1 DEF Registered
  <2>2. CASE \E keys \in SUBSET Ids : Take(c, keys)
    BY <1>0, <2>2, TakenAccounted
  <2> QED BY <1>0, <2>1, <2>2, ExecutingTakes
<1>5. Alive(c)' => Accounted(c)'
  BY <1>1, <1>3, <1>4 DEF CInv, ContainersAccounted, Alive, Accounted, InCreation, Live
<1> QED BY <1>1, <1>2, <1>3, <1>4, <1>5, StillAccounted DEF Alive, Accounted, InCreation, Live

LEMMA WorldAccounted ==
  ASSUME CInv, NEW t \in Calls, World(t)
  PROVE  ContainersAccounted' /\ Started'
<1>0. NInv /\ KInv
  BY DEF CInv, NInv
<1>1. UNCHANGED <<pc, sessions>> /\ \A d \in Calls \ {t} : box'[d] = box[d] /\ proxy'[d] = proxy[d]
                                                          /\ release'[d] = release[d]
  BY <1>0 DEF World, StopBox, RemoveBox, ReleaseRest, StopLands, LogBlocked, docker, KInv, TypeOK
<1>2. Live(box[t])' => Live(box[t])
  BY <1>0 DEF World, StopBox, RemoveBox, ReleaseRest, StopLands, LogBlocked, docker, Live, KInv, TypeOK
<1>3. Alive(t)' => Accounted(t)'
  <2>1. CASE StopBox(t)
    BY <1>0, <2>1 DEF StopBox, Accounted, KInv, TypeOK
  <2>2. CASE RemoveBox(t)
    BY <1>0, <2>2 DEF RemoveBox, Alive, Live, KInv, TypeOK
  <2>3. CASE ReleaseRest(t)
    <3>1. release[t] = "rest" /\ UNCHANGED <<box, proxy>>
      BY <2>3 DEF ReleaseRest
    <3>2. Made(t) /\ ~ Registered(t)
      BY <1>0, <3>1 DEF KInv, Known
    <3>3. ~ Accounted(t)
      BY <3>1, <3>2 DEF Accounted, Made, InCreation
    <3> QED BY <3>1, <3>3 DEF CInv, ContainersAccounted, Alive, Accounted, Live
  <2>4. CASE StopLands(t) \/ LogBlocked(t)
    <3>1. release' = release /\ proxy' = proxy /\ UNCHANGED <<pc, sessions>>
      BY <2>4 DEF StopLands, LogBlocked, docker
    <3> QED BY <1>2, <3>1 DEF CInv, ContainersAccounted, Alive, Accounted, Live, InCreation, Registered
  <2> QED BY <2>1, <2>2, <2>3, <2>4 DEF World
<1> QED BY <1>1, <1>2, <1>3, StillAccounted DEF CInv, Started, Alive, Accounted, InCreation, Registered, Live

LEMMA NextCInv == AllowlistOnly /\ CInv /\ [Next]_vars => CInv'
<1> SUFFICES ASSUME AllowlistOnly, CInv, [Next]_vars
             PROVE  CInv'
  OBVIOUS
<1>1. NInv'
  BY NextNInv DEF CInv
<1>2. ContainersAccounted' /\ Started'
  <2>1. CASE UNCHANGED vars
    BY <2>1 DEF vars, docker, CInv, ContainersAccounted, Started, InCreation, Registered, Live
  <2> QED BY <2>1, BeginAccounted, CreatingAccounted, ExecutingAccounted, WorldAccounted DEF Next
<1> QED BY <1>1, <1>2 DEF CInv

\* When every session has an allowlist network, createSession() and destroy()
\* between them strand no container: two calls that pass the look-up of one id
\* meet at the name of its network.
THEOREM ContainersAlwaysAccounted ==
  ASSUME AllowlistOnly
  PROVE  Spec => []ContainersAccounted
<1>1. CInv => ContainersAccounted
  BY DEF CInv
<1>2. CInv /\ [Next]_vars => CInv'
  BY NextCInv
<1> QED BY <1>1, <1>2, InitCInv, PTL DEF Spec

-----------------------------------------------------------------------------
\* What the functions of SandboxRules compute, for all inputs: the folds they are.

ReadyStep(c, acc, p) == Probe(Max({1, Min({c.time, c.deadline - acc.now})}), acc, p, c.deadline, c.pause)
ReadyFold == INSTANCE Folding WITH Op <- ReadyStep
ArchiveStep(c, acc, e) == ReadEntry(acc, e)
ArchiveFold == INSTANCE Folding WITH Op <- ArchiveStep
WalkStep(c, stack, seg) == Walk(stack, seg)
WalkFold == INSTANCE Folding WITH Op <- WalkStep
PruneStep(c, kept, p) == Prune(kept, p)
PruneFold == INSTANCE Folding WITH Op <- PruneStep
CopyStep(c, total, q) == StagedTotal(c.files, c.limit, total, q)
CopyFold == INSTANCE Folding WITH Op <- CopyStep
StageStep(c, total, p) == StagePath(c.tree, c.excluded, c.limit, total, p)
StageFold == INSTANCE Folding WITH Op <- StageStep

-----------------------------------------------------------------------------
\* Numbers and sequences

\* The greatest and the least of a set of numbers is the one there is.
LEMMA MaxIs ==
  ASSUME NEW S, S \subseteq Int, NEW x \in S, \A y \in S : y <= x
  PROVE  Max(S) = x
<1>1. \A y \in S : x >= y OBVIOUS
<1>2. \A z \in S : (\A y \in S : z >= y) => z = x OBVIOUS
<1> QED BY <1>1, <1>2 DEF Max

LEMMA MinIs ==
  ASSUME NEW S, S \subseteq Int, NEW x \in S, \A y \in S : x <= y
  PROVE  Min(S) = x
<1>1. \A y \in S : x =< y OBVIOUS
<1>2. \A z \in S : (\A y \in S : z =< y) => z = x OBVIOUS
<1> QED BY <1>1, <1>2 DEF Min

\* A set of numbers that has a bound has a greatest one; one of positions has a
\* least one.
LEMMA MinThere ==
  ASSUME NEW S, S \subseteq Nat, S # {}
  PROVE  Min(S) \in S
<1>1. PICK x \in S : \A y \in S : x <= y BY ReadyFold!LeastOf
<1>2. S \subseteq Int OBVIOUS
<1>3. Min(S) = x BY <1>1, <1>2, MinIs
<1> QED BY <1>3

LEMMA MaxOfTwo ==
  ASSUME NEW a \in Int, NEW b \in Int
  PROVE  Max({a, b}) = IF a >= b THEN a ELSE b
<1> DEFINE x == IF a >= b THEN a ELSE b
           S == {a, b}
<1>1. S \subseteq Int /\ x \in S /\ \A y \in S : y <= x OBVIOUS
<1> HIDE DEF x, S
<1>2. Max(S) = x BY <1>1, MaxIs
<1> QED BY <1>2 DEF x, S

LEMMA MinOfTwo ==
  ASSUME NEW a \in Int, NEW b \in Int
  PROVE  Min({a, b}) = IF a <= b THEN a ELSE b
<1> DEFINE x == IF a <= b THEN a ELSE b
           S == {a, b}
<1>1. S \subseteq Int /\ x \in S /\ \A y \in S : x <= y OBVIOUS
<1> HIDE DEF x, S
<1>2. Min(S) = x BY <1>1, MinIs
<1> QED BY <1>2 DEF x, S

LEMMA Joins ==
  ASSUME NEW a, NEW b
  PROVE  <<a>> \o <<>> = <<a>> /\ <<>> \o <<b>> = <<b>> /\ <<a>> \o <<b>> = <<a, b>> /\ <<>> \o <<>> = <<>>
<1> DEFINE S == {a, b}
<1>1. <<a>> \in Seq(S) /\ <<b>> \in Seq(S) /\ <<a, b>> \in Seq(S) /\ <<>> \in Seq(S) OBVIOUS
<1>2. <<a>> \o <<>> = <<a>> /\ <<>> \o <<b>> = <<b>> /\ <<>> \o <<>> = <<>> BY <1>1, ConcatEmptySeq
<1> DEFINE c == <<a>> \o <<b>>
<1>3. c \in Seq(S) /\ Len(c) = 2 /\ c[1] = a /\ c[2] = b BY <1>1, ConcatProperties
<1> HIDE DEF c
<1>4. c = <<a, b>>
  <2>1. Len(<<a, b>>) = 2 OBVIOUS
  <2>2. \A i \in 1..2 : c[i] = <<a, b>>[i] BY <1>3
  <2> QED BY <1>1, <1>3, <2>1, <2>2, SeqEqual
<1> QED BY <1>2, <1>4 DEF c

-----------------------------------------------------------------------------
\* Output

\* truncateOutput() cuts at the last place between two characters that fits.
THEOREM OutputAlwaysCutWhole == ASSUME NEW t, IsSeq(t), NEW m \in Nat PROVE TruncatesWhole(t, m)
<1> SUFFICES ASSUME t = <<>> \/ t[1] = "lead"
             PROVE  TruncateAt(t, m) = Max({b \in {c \in 0..Len(t) : c \in {0, Len(t)} \/ t[c + 1] = "lead"} : b <= m})
  BY DEF TruncatesWhole
<1> DEFINE n == Len(t)
           ends == {c \in 0..n : c \in {0, n} \/ t[c + 1] = "lead"}
           fits == {b \in ends : b <= m}
<1>0. n \in Nat BY DEF IsSeq
<1>1. CASE n <= m
  <2>1. n \in fits /\ \A y \in fits : y <= n BY <1>0, <1>1
  <2>2. fits \subseteq Int BY <1>0
  <2> HIDE DEF fits
  <2>3. Max(fits) = n BY <2>1, <2>2, MaxIs
  <2> QED BY <1>1, <2>3 DEF TruncateAt, fits, ends, n
<1>2. CASE m < n
  <2>1. fits = {0} \cup {b \in 1..m : t[b + 1] = "lead"} BY <1>0, <1>2
  <2> HIDE DEF fits
  <2>2. TruncateAt(t, m) = Max(fits)
    <3>1. ~ (Len(t) <= m) BY <1>0, <1>2
    <3> QED BY <2>1, <3>1 DEF TruncateAt
  <2> QED BY <2>2 DEF fits, ends, n
<1> QED BY <1>0, <1>1, <1>2

-----------------------------------------------------------------------------
\* Policies and usage

\* A policy in allowlist mode, however merged, has a list of hosts.
THEOREM AllowlistAlwaysKept ==
  ASSUME NEW p, NEW q, p # Thrown,
         "network" \in DOMAIN p => "mode" \in DOMAIN p.network,
         "network" \in DOMAIN q => "mode" \in DOMAIN q.network
  PROVE  MergeKeepsAllowlist(p, q)
<1> SUFFICES ASSUME PolicyAccepted(p), PolicyAccepted(q),
                    MergePolicy(DefaultPolicyOf(p), q).network.mode = "allowlist"
             PROVE  LET network == MergePolicy(DefaultPolicyOf(p), q).network
                    IN "allowlist" \in DOMAIN network /\ network.allowlist # {}
  BY DEF MergeKeepsAllowlist
<1> DEFINE d == SandboxDefaultPolicy
           b == DefaultPolicyOf(p)
           m == MergePolicy(b, q)
<1>1. b = MergePolicy(d, p) BY DEF DefaultPolicyOf, ParsePolicy
<1>2. "network" \in DOMAIN d /\ d.network = [mode |-> "isolated"] BY DEF SandboxDefaultPolicy
<1> HIDE DEF b, d
<1>3. /\ "network" \in DOMAIN b /\ "mode" \in DOMAIN b.network
      /\ b.network.mode = "allowlist" => "allowlist" \in DOMAIN b.network /\ b.network.allowlist # {}
  <2>1. CASE "network" \in DOMAIN p
    <3>1. "network" \in DOMAIN b /\ b.network = MergeSection(d.network, p.network) BY <1>1, <1>2, <2>1 DEF MergePolicy
    <3>2. "mode" \in DOMAIN b.network /\ b.network.mode = p.network.mode BY <2>1, <3>1 DEF MergeSection
    <3>3. ASSUME b.network.mode = "allowlist" PROVE "allowlist" \in DOMAIN b.network /\ b.network.allowlist # {}
      <4>1. "allowlist" \in DOMAIN p.network /\ p.network.allowlist # {} BY <2>1, <3>2, <3>3 DEF PolicyAccepted
      <4> QED BY <3>1, <4>1 DEF MergeSection
    <3> QED BY <3>1, <3>2, <3>3
  <2>2. CASE "network" \notin DOMAIN p
    <3>1. "network" \in DOMAIN b /\ b.network = d.network BY <1>1, <1>2, <2>2 DEF MergePolicy
    <3> QED BY <1>2, <3>1
  <2> QED BY <2>1, <2>2
<1>4. m.network.mode = "allowlist" BY DEF b
<1>5. "allowlist" \in DOMAIN m.network /\ m.network.allowlist # {}
  <2>1. CASE "network" \in DOMAIN q
    <3>1. m.network = MergeSection(b.network, q.network) BY <1>3, <2>1 DEF MergePolicy
    <3> HIDE DEF m
    <3>2. m.network.mode = q.network.mode BY <2>1, <3>1 DEF MergeSection
    <3>3. "allowlist" \in DOMAIN q.network /\ q.network.allowlist # {} BY <1>4, <2>1, <3>2 DEF PolicyAccepted
    <3> QED BY <3>1, <3>3 DEF MergeSection
  <2>2. CASE "network" \notin DOMAIN q
    <3>1. m.network = b.network BY <1>3, <2>2 DEF MergePolicy
    <3> HIDE DEF m
    <3> QED BY <1>3, <1>4, <3>1
  <2> QED BY <2>1, <2>2
<1> QED BY <1>5 DEF b

\* No reading is told of a command that timed out, and none is made up.
THEOREM UsageAlwaysSound ==
  ASSUME NEW before, NEW after, IsReading(before), IsReading(after), NEW timedOut \in BOOLEAN
  PROVE  UsageSound(before, after, timedOut)
<1> DEFINE told == Snapshots(before, after, timedOut)
<1>0. /\ before.cpu \in Int /\ before.cpu >= -1 /\ before.peak \in Int /\ before.peak >= -1
      /\ after.cpu \in Int /\ after.cpu >= -1 /\ after.peak \in Int /\ after.peak >= -1
  BY DEF IsReading
<1>1. PeakMemory(told) = Max({-1} \cup {told[i].peak : i \in DOMAIN told}) BY DEF PeakMemory
<1>2. ASSUME ~ Tells(before) PROVE before.cpu = -1 /\ before.peak = -1 BY <1>2 DEF Tells
<1>3. ASSUME ~ Tells(after) PROVE after.cpu = -1 /\ after.peak = -1 BY <1>3 DEF Tells
<1> DEFINE peaks == {-1} \cup {told[i].peak : i \in DOMAIN told}
           given == IF timedOut THEN {before.peak} ELSE {before.peak, after.peak}
<1>4. CASE timedOut \/ ~ Tells(after)
  <2>1. CASE Tells(before)
    <3>1. told = <<before>> BY <1>4, <2>1, Joins DEF Snapshots
    <3> HIDE DEF told
    <3>2. CpuTime(told) \in {-1, 0}
      <4>1. told # <<>> /\ told[1] = before /\ Last(told) = before BY <3>1 DEF Last
      <4>2. before.cpu # -1 => CpuTime(told) = Max({0, before.cpu - before.cpu}) BY <4>1 DEF CpuTime
      <4>3. before.cpu = -1 => CpuTime(told) = -1 BY <4>1 DEF CpuTime
      <4>4. Max({0, before.cpu - before.cpu}) = 0
        <5>1. before.cpu - before.cpu = 0 BY <1>0
        <5> QED BY <5>1, MaxOfTwo
      <4> QED BY <4>2, <4>3, <4>4
    <3>3. peaks = {-1, before.peak} BY <3>1
    <3>4. Max(peaks) = before.peak
      <4>1. Max({-1, before.peak}) = before.peak BY <1>0, MaxOfTwo
      <4> QED BY <3>3, <4>1
    <3>5. Max(given) = before.peak
      <4>1. Max({before.peak}) = before.peak /\ Max({before.peak, -1}) = before.peak BY <1>0, MaxIs
      <4> QED BY <1>3, <1>4, <4>1
    <3> QED BY <1>1, <3>2, <3>4, <3>5 DEF UsageSound, told
  <2>2. CASE ~ Tells(before)
    <3>1. told = <<>> BY <1>4, <2>2, Joins DEF Snapshots
    <3> HIDE DEF told
    <3>2. CpuTime(told) = -1 BY <3>1 DEF CpuTime
    <3>3. peaks = {-1} BY <3>1
    <3>4. Max({-1}) = -1 /\ Max({-1, -1}) = -1 BY MaxIs
    <3>5. Max(peaks) = -1 /\ Max(given) = -1 BY <1>2, <1>3, <1>4, <2>2, <3>3, <3>4
    <3> QED BY <1>1, <3>2, <3>5 DEF UsageSound, told
  <2> QED BY <2>1, <2>2
<1>5. CASE ~ timedOut /\ Tells(after)
  <2>1. CASE Tells(before)
    <3>1. told = <<before, after>> BY <1>5, <2>1, Joins DEF Snapshots
    <3> HIDE DEF told
    <3>2. told # <<>> /\ told[1] = before /\ Last(told) = after BY <3>1 DEF Last
    <3>3. ASSUME after.cpu # -1, before.cpu # -1 PROVE CpuTime(told) = Max({0, after.cpu - before.cpu})
      BY <3>2, <3>3 DEF CpuTime
    <3>4. after.cpu # -1 /\ before.cpu = -1 => CpuTime(told) = after.cpu BY <3>2 DEF CpuTime
    <3>5. after.cpu = -1 => CpuTime(told) = -1 BY <3>2 DEF CpuTime
    <3>6. Max({0, after.cpu - before.cpu}) = IF after.cpu >= before.cpu THEN after.cpu - before.cpu ELSE 0
      <4> DEFINE x == IF after.cpu >= before.cpu THEN after.cpu - before.cpu ELSE 0
                 S == {0, after.cpu - before.cpu}
      <4>1. S \subseteq Int /\ x \in S /\ \A y \in S : y <= x BY <1>0
      <4> HIDE DEF x, S
      <4>2. Max(S) = x BY <4>1, MaxIs
      <4> QED BY <4>2 DEF x, S
    <3>7. /\ CpuTime(told) >= -1
          /\ CpuTime(told) > 0 => CpuTime(told) = after.cpu - (IF before.cpu = -1 THEN 0 ELSE before.cpu)
      BY <1>0, <3>3, <3>4, <3>5, <3>6
    <3>8. peaks = {-1, before.peak, after.peak} BY <3>1
    <3>9. Max(peaks) = Max({before.peak, after.peak})
      <4> DEFINE x == IF after.peak >= before.peak THEN after.peak ELSE before.peak
      <4>1. x \in {before.peak, after.peak} /\ x \in {-1, before.peak, after.peak}
            /\ \A y \in {-1, before.peak, after.peak} : y <= x
        BY <1>0
      <4> HIDE DEF x
      <4>2. Max({-1, before.peak, after.peak}) = x /\ Max({before.peak, after.peak}) = x BY <1>0, <4>1, MaxIs
      <4> QED BY <3>8, <4>2
    <3>10. given = {before.peak, after.peak} BY <1>5
    <3> QED BY <1>1, <1>5, <3>7, <3>9, <3>10 DEF UsageSound, told
  <2>2. CASE ~ Tells(before)
    <3>1. told = <<after>> BY <1>5, <2>2, Joins DEF Snapshots
    <3> HIDE DEF told
    <3>2. told # <<>> /\ told[1] = after /\ Last(told) = after BY <3>1 DEF Last
    <3>3. Max({0, after.cpu - after.cpu}) = 0 BY <1>0, MaxIs
    <3>4. CpuTime(told) \in {-1, 0} BY <3>2, <3>3 DEF CpuTime
    <3>5. peaks = {-1, after.peak} BY <3>1
    <3>6. given = {-1, after.peak} BY <1>2, <1>5, <2>2
    <3> QED BY <1>1, <3>4, <3>5, <3>6 DEF UsageSound, told
  <2> QED BY <2>1, <2>2
<1> QED BY <1>4, <1>5

-----------------------------------------------------------------------------
\* The proxy

\* Whom the proxy connects to is on the list, and no answer of a name server leads
\* it to a restricted address that is not.
THEOREM ProxyAlwaysKeepsList ==
  ASSUME NEW list, NEW host, NEW records, records \in Seq(ToSet(records)), NEW restricted, NEW port
  PROVE  ProxyKeepsList(list, host, records, restricted, port)
<1> DEFINE target == ProxyTarget(list, host, port, records, restricted)
           given  == {records[i].address : i \in DOMAIN records}
<1> SUFFICES ASSUME target # Thrown
             PROVE  /\ \E e \in list : MatchesHost(host, e) /\ e.port \in {0, port}
                    /\ target \in given
                    /\ \A a \in given \cap restricted : \E e \in list : e.host = <<a>> /\ e.port \in {0, port}
  BY DEF ProxyKeepsList
<1>1. IsAllowed(list, host, port) /\ target = ResolveHost(list, records, restricted, port) BY DEF ProxyTarget
<1>2. /\ records # <<>> /\ target = Preferred(records)
      /\ \A i \in DOMAIN records : records[i].address \in restricted => ExplicitlyAllowed(list, records[i].address, port)
  BY <1>1 DEF ResolveHost
<1>3. target \in given
  <2> DEFINE v4 == {i \in DOMAIN records : records[i].family = 4}
  <2>0. DOMAIN records = 1..Len(records) /\ Len(records) \in Nat BY LenProperties
  <2>1. CASE v4 = {}
    <3>1. target = records[1].address BY <1>2, <2>1 DEF Preferred
    <3>2. 1 \in DOMAIN records
      <4>1. Len(records) # 0 BY <1>2, EmptySeq
      <4> QED BY <2>0, <4>1
    <3> HIDE DEF target
    <3> QED BY <3>1, <3>2
  <2>2. CASE v4 # {}
    <3>1. v4 \subseteq Nat BY <2>0
    <3>2. Min(v4) \in v4
      <4> HIDE DEF v4
      <4> QED BY <2>2, <3>1, MinThere
    <3>3. target = records[Min(v4)].address BY <1>2, <2>2 DEF Preferred
    <3> HIDE DEF target
    <3> QED BY <3>2, <3>3
  <2> QED BY <2>1, <2>2
<1> QED BY <1>1, <1>2, <1>3 DEF IsAllowed, ExplicitlyAllowed

-----------------------------------------------------------------------------
\* The readiness of the proxy

\* Where the loop stands: not after the deadline but for a pause, and not at all
\* after it when the proxy is ready.
Stands(deadline, pause, acc) ==
  \E ready \in BOOLEAN, now \in Nat :
    /\ acc = [ready |-> ready, now |-> now]
    /\ now <= deadline + pause /\ (ready => now <= deadline)

LEMMA StandsSo ==
  ASSUME NEW deadline, NEW pause, NEW ready \in BOOLEAN, NEW now \in Nat,
         now <= deadline + pause, ready => now <= deadline
  PROVE  Stands(deadline, pause, [ready |-> ready, now |-> now])
BY DEF Stands

\* A probe is aborted by the deadline, when there is time for one.
LEMMA ProbeStands ==
  ASSUME NEW time \in Nat, NEW deadline \in Nat, NEW pause \in Nat, NEW p, p.takes \in Nat,
         NEW acc, Stands(deadline, pause, acc)
  PROVE  Stands(deadline, pause, Probe(Max({1, Min({time, deadline - acc.now})}), acc, p, deadline, pause))
<1> DEFINE allowed == Max({1, Min({time, deadline - acc.now})})
           after == Probe(allowed, acc, p, deadline, pause)
<1>1. PICK ready \in BOOLEAN, now \in Nat :
        /\ acc = [ready |-> ready, now |-> now]
        /\ now <= deadline + pause /\ (ready => now <= deadline)
  BY DEF Stands
<1>2. CASE acc.ready \/ acc.now >= deadline
  <2>1. after = acc BY <1>2 DEF Probe
  <2> QED BY <2>1
<1>3. CASE ~ acc.ready /\ now < deadline
  <2>1. allowed \in Nat /\ now + allowed <= deadline
    <3>1. Min({time, deadline - now}) = IF time <= deadline - now THEN time ELSE deadline - now
      <4>1. deadline - now \in Int OBVIOUS
      <4> QED BY <4>1, MinOfTwo
    <3> DEFINE least == Min({time, deadline - now})
    <3>2. least \in Int /\ least <= deadline - now BY <3>1
    <3> HIDE DEF least
    <3>3. Max({1, least}) = IF 1 >= least THEN 1 ELSE least BY <3>2, MaxOfTwo
    <3>4. allowed = Max({1, least}) BY <1>1 DEF least
    <3> HIDE DEF allowed
    <3> QED BY <1>3, <3>2, <3>3, <3>4
  <2> HIDE DEF allowed
  <2>2. CASE p.ok /\ p.takes <= allowed
    <3>1. after = [ready |-> TRUE, now |-> now + p.takes] BY <1>1, <1>3, <2>2 DEF Probe
    <3>2. now + p.takes \in Nat /\ now + p.takes <= deadline BY <2>1, <2>2
    <3> HIDE DEF after
    <3>3. Stands(deadline, pause, after)
      <4>1. now + p.takes <= deadline + pause BY <2>1, <3>2
      <4> QED BY <3>1, <3>2, <4>1, StandsSo
    <3> QED BY <3>3 DEF after, allowed
  <2>3. CASE ~ (p.ok /\ p.takes <= allowed)
    <3> DEFINE spent == Min({p.takes, allowed})
    <3>1. after = [ready |-> FALSE, now |-> now + spent + pause] BY <1>1, <1>3, <2>3 DEF Probe
    <3>2. spent \in Nat /\ spent <= allowed
      <4>1. spent = IF p.takes <= allowed THEN p.takes ELSE allowed BY <2>1, MinOfTwo
      <4> QED BY <2>1, <4>1
    <3> HIDE DEF after, spent
    <3>3. now + spent + pause \in Nat /\ now + spent + pause <= deadline + pause BY <2>1, <3>2
    <3>4. Stands(deadline, pause, after) BY <3>1, <3>3, StandsSo
    <3> QED BY <3>4 DEF after, allowed
  <2> QED BY <2>2, <2>3 DEF allowed
<1> QED BY <1>1, <1>2, <1>3

\* The loop of waitForAllowlistProxyReady() ends in time, however probes fare.
THEOREM ProxyAlwaysReadyInTime ==
  ASSUME NEW probes, IsSeq(probes), \A p \in ToSet(probes) : p.takes \in Nat,
         NEW deadline \in Nat, NEW probeTime \in Nat, NEW pause \in Nat
  PROVE  ReadyInTime(probes, deadline, probeTime, pause)
<1> DEFINE n == Len(probes)
           c == [time |-> probeTime, deadline |-> deadline, pause |-> pause]
           start == [ready |-> FALSE, now |-> 0]
<1>0. n \in Nat /\ DOMAIN probes = 1..n BY DEF IsSeq
<1>1. c.time = probeTime /\ c.deadline = deadline /\ c.pause = pause OBVIOUS
<1>2. WaitReady(probes, deadline, probeTime, pause) = ReadyFold!Fold(c, start, probes)
  BY <1>1 DEF WaitReady, ReadyFold!Fold, ReadyStep, FoldLeft, MapThenFoldSet, Max, ReadyFold!Max
<1> HIDE DEF c, n
<1>3. PICK f : ReadyFold!Goes(c, start, probes, n, f) BY <1>0, ReadyFold!FoldIsRun
<1> DEFINE T == {k \in Nat : k <= n => Stands(deadline, pause, f[k])}
<1>4. 0 \in T
  <2>1. f[0] = [ready |-> FALSE, now |-> 0] BY <1>3 DEF ReadyFold!Goes
  <2>2. 0 <= deadline + pause /\ 0 <= deadline OBVIOUS
  <2> QED BY <2>1, <2>2, StandsSo
<1>5. ASSUME NEW k \in Nat, k \in T PROVE k + 1 \in T
  <2> SUFFICES ASSUME k + 1 <= n PROVE Stands(deadline, pause, f[k + 1]) OBVIOUS
  <2>1. k + 1 \in 1..n /\ k + 1 - 1 = k BY <1>0
  <2>2. f[k + 1] = ReadyStep(c, f[k], probes[k + 1]) BY <1>3, <2>1 DEF ReadyFold!Goes
  <2>3. probes[k + 1].takes \in Nat BY <1>0, <2>1 DEF ToSet
  <2>4. Stands(deadline, pause, f[k]) BY <1>0, <1>5
  <2> QED BY <1>1, <2>2, <2>3, <2>4, ProbeStands DEF ReadyStep
<1>6. n \in T
  <2> HIDE DEF T
  <2> QED BY <1>0, <1>4, <1>5, ReadyFold!Induction
<1>7. Stands(deadline, pause, WaitReady(probes, deadline, probeTime, pause)) BY <1>0, <1>2, <1>3, <1>6 DEF ReadyFold!Goes
<1> QED BY <1>7 DEF Stands, ReadyInTime

-----------------------------------------------------------------------------
\* Archives

\* Normalisation leaves no "." in a path.
LEMMA WalkedClean ==
  ASSUME NEW s \in Seq(STRING)
  PROVE  /\ FoldLeft(Walk, <<>>, s) \in Seq(STRING)
         /\ "." \notin ToSet(FoldLeft(Walk, <<>>, s))
<1> DEFINE n == Len(s)
           C == STRING \ {"."}
<1>0. n \in Nat /\ DOMAIN s = 1..n BY LenProperties
<1>1. FoldLeft(Walk, <<>>, s) = WalkFold!Fold(<<>>, <<>>, s)
  BY DEF WalkFold!Fold, WalkStep, FoldLeft, MapThenFoldSet, Max, WalkFold!Max
<1> HIDE DEF n
<1>2. PICK f : WalkFold!Goes(<<>>, <<>>, s, n, f) BY <1>0, WalkFold!FoldIsRun
<1> DEFINE T == {k \in Nat : k <= n => f[k] \in Seq(C)}
<1>3. 0 \in T
  <2> HIDE DEF C
  <2> QED BY <1>2, EmptySeq DEF WalkFold!Goes
<1>4. ASSUME NEW k \in Nat, k \in T PROVE k + 1 \in T
  <2> SUFFICES ASSUME k + 1 <= n PROVE f[k + 1] \in Seq(C) OBVIOUS
  <2>1. k + 1 \in 1..n /\ k + 1 - 1 = k BY <1>0
  <2>2. f[k + 1] = Walk(f[k], s[k + 1])
    <3>1. \A i \in 1..n : f[i] = WalkStep(<<>>, f[i - 1], s[i]) BY <1>2 DEF WalkFold!Goes
    <3>2. f[k + 1] = WalkStep(<<>>, f[k + 1 - 1], s[k + 1]) BY <2>1, <3>1
    <3>3. f[k + 1] = WalkStep(<<>>, f[k], s[k + 1]) BY <2>1, <3>2
    <3> QED BY <3>3 DEF WalkStep
  <2>3. s[k + 1] \in STRING BY <1>0, <2>1, ElementOfSeq DEF n
  <2>4. f[k] \in Seq(C) BY <1>0, <1>4
  <2> HIDE DEF C
  <2>5. CASE s[k + 1] \in {"", "."} BY <2>2, <2>4, <2>5 DEF Walk
  <2>6. CASE s[k + 1] \notin {"", "."} /\ s[k + 1] = ".." /\ f[k] # <<>> /\ Last(f[k]) # ".."
    <3>1. f[k + 1] = Front(f[k]) BY <2>2, <2>6 DEF Walk
    <3>2. Front(f[k]) \in Seq(C)
      <4>1. Len(f[k]) \in Nat /\ Len(f[k]) # 0 BY <2>4, <2>6, LenProperties, EmptySeq
      <4>2. \A i \in 1..(Len(f[k]) - 1) : f[k][i] \in C BY <2>4, <4>1, ElementOfSeq
      <4> QED BY <2>4, <4>1, <4>2, SubSeqProperties DEF Front
    <3> QED BY <3>1, <3>2
  <2>7. CASE s[k + 1] \notin {"", "."} /\ ~ (s[k + 1] = ".." /\ f[k] # <<>> /\ Last(f[k]) # "..")
    <3>1. f[k + 1] = Append(f[k], s[k + 1]) BY <2>2, <2>7 DEF Walk
    <3>2. s[k + 1] \in C BY <2>3, <2>7 DEF C
    <3> QED BY <2>4, <3>1, <3>2, AppendProperties
  <2> QED BY <2>5, <2>6, <2>7
<1>5. n \in T
  <2> HIDE DEF T
  <2> QED BY <1>0, <1>3, <1>4, WalkFold!Induction
<1> DEFINE segs == FoldLeft(Walk, <<>>, s)
<1>6. segs \in Seq(C)
  <2>1. f[n] \in Seq(C) BY <1>0, <1>5
  <2> HIDE DEF C
  <2> QED BY <1>1, <1>2, <2>1 DEF WalkFold!Goes
<1> HIDE DEF segs
<1>8. "." \notin ToSet(segs)
  <2>1. \A i \in DOMAIN segs : segs[i] \in C BY <1>6, LenProperties, ElementOfSeq
  <2> QED BY <2>1 DEF ToSet
<1>9. segs \in Seq(STRING) BY <1>6, SeqMonotonic
<1> QED BY <1>8, <1>9 DEF segs

\* The names given since the last entry up to k, and those that are pending.
Given(entries, k) ==
  {j \in 1..k : /\ \A i \in j..k : IsHeader(entries[i])
                /\ entries[j].names # {}}
Pending(entries, k) == IF Given(entries, k) = {} THEN {} ELSE entries[Max(Given(entries, k))].names

PathAt(entries, i)  == EntryPath(NameOf(entries, i))
RefusedAt(entries, i) ==
  /\ ~ IsHeader(entries[i])
  /\ PathAt(entries, i) = Thrown \/ (entries[i].type = "link" /\ PathAt(entries, i) # <<>>)
FileAt(entries, i) == entries[i].type = "file" /\ PathAt(entries, i) # <<>>

Accepted(entries, k) == \A i \in 1..k : ~ RefusedAt(entries, i)
Written(entries, k) == {PathAt(entries, i) : i \in {j \in 1..k : FileAt(entries, j)}}

\* What has been read of an archive up to k.
Read(entries, k, acc) ==
  \E ok \in BOOLEAN : \E pending, written :
    /\ acc = [ok |-> ok, pending |-> pending, written |-> written]
    /\ ok <=> Accepted(entries, k)
    /\ ok => pending = Pending(entries, k) /\ written = Written(entries, k)

LEMMA ReadSo ==
  ASSUME NEW entries, NEW k \in Nat, NEW ok \in BOOLEAN, NEW pending, NEW written,
         ok <=> Accepted(entries, k),
         ok => pending = Pending(entries, k) /\ written = Written(entries, k)
  PROVE  Read(entries, k, [ok |-> ok, pending |-> pending, written |-> written])
BY DEF Read

\* An entry takes the pending names away; a header with names replaces them.
LEMMA PendingGoes ==
  ASSUME NEW entries, NEW k \in Nat
  PROVE  /\ Pending(entries, 0) = {}
         /\ ~ IsHeader(entries[k + 1]) => Pending(entries, k + 1) = {}
         /\ IsHeader(entries[k + 1]) =>
              Pending(entries, k + 1) = IF entries[k + 1].names = {} THEN Pending(entries, k) ELSE entries[k + 1].names
<1>1. Given(entries, 0) = {} BY DEF Given
<1>2. ASSUME ~ IsHeader(entries[k + 1]) PROVE Given(entries, k + 1) = {}
  <2>1. ASSUME NEW j \in 1..(k + 1) PROVE k + 1 \in j..(k + 1) OBVIOUS
  <2> QED BY <1>2, <2>1 DEF Given
<1>3. ASSUME IsHeader(entries[k + 1]), entries[k + 1].names = {} PROVE Given(entries, k + 1) = Given(entries, k)
  <2>1. ASSUME NEW j \in Given(entries, k + 1) PROVE j \in Given(entries, k)
    <3>1. j # k + 1 BY <1>3, <2>1 DEF Given
    <3> QED BY <2>1, <3>1 DEF Given
  <2>2. ASSUME NEW j \in Given(entries, k) PROVE j \in Given(entries, k + 1)
    <3>1. ASSUME NEW i \in j..(k + 1) PROVE IsHeader(entries[i])
      <4>1. i = k + 1 \/ i \in j..k BY <2>2 DEF Given
      <4> QED BY <1>3, <2>2, <4>1 DEF Given
    <3> QED BY <2>2, <3>1 DEF Given
  <2> QED BY <2>1, <2>2
<1>4. ASSUME IsHeader(entries[k + 1]), entries[k + 1].names # {} PROVE Max(Given(entries, k + 1)) = k + 1 /\ Given(entries, k + 1) # {}
  <2>1. k + 1 \in Given(entries, k + 1)
    <3>1. \A i \in (k + 1)..(k + 1) : i = k + 1 OBVIOUS
    <3> QED BY <1>4, <3>1 DEF Given
  <2>2. Given(entries, k + 1) \subseteq Int /\ \A y \in Given(entries, k + 1) : y <= k + 1 BY DEF Given
  <2> QED BY <2>1, <2>2, MaxIs
<1> QED BY <1>1, <1>2, <1>3, <1>4 DEF Pending

\* An entry goes by a pending name, if there is one.
LEMMA NamedByPending ==
  ASSUME NEW entries, NEW k \in Nat
  PROVE  NameOf(entries, k + 1) = IF Pending(entries, k) = {} THEN entries[k + 1].name
                                  ELSE CHOOSE n \in Pending(entries, k) : TRUE
<1> DEFINE G == Given(entries, k)
<1>1. NameOf(entries, k + 1) = IF G = {} THEN entries[k + 1].name ELSE CHOOSE n \in entries[Max(G)].names : TRUE
  <2>1. k + 1 - 1 = k OBVIOUS
  <2>2. NameOf(entries, k + 1) = IF Given(entries, k + 1 - 1) = {} THEN entries[k + 1].name
                                 ELSE CHOOSE n \in entries[Max(Given(entries, k + 1 - 1))].names : TRUE
    BY DEF NameOf, Given
  <2> QED BY <2>1, <2>2
<1>2. ASSUME G # {} PROVE entries[Max(G)].names # {}
  <2>1. G \subseteq 1..k BY DEF Given
  <2> HIDE DEF G
  <2>2. Max(G) \in G
    <3>1. ArchiveFold!Max(G) \in G BY <1>2, <2>1, ArchiveFold!GreatestOf
    <3> QED BY <3>1 DEF Max, ArchiveFold!Max
  <2> QED BY <2>2 DEF G, Given
<1> HIDE DEF G
<1>3. Pending(entries, k) = IF G = {} THEN {} ELSE entries[Max(G)].names BY DEF G, Pending
<1> QED BY <1>1, <1>2, <1>3

\* One more entry is read.
LEMMA ReadsOn ==
  ASSUME NEW entries, NEW k \in Nat, NEW acc, Read(entries, k, acc)
  PROVE  Read(entries, k + 1, ReadEntry(acc, entries[k + 1]))
<1> DEFINE e == entries[k + 1]
           next == ReadEntry(acc, e)
<1>0. PICK ok \in BOOLEAN : \E pending, written :
        /\ acc = [ok |-> ok, pending |-> pending, written |-> written]
        /\ ok <=> Accepted(entries, k)
        /\ ok => pending = Pending(entries, k) /\ written = Written(entries, k)
  BY DEF Read
<1>1. PICK pending, written :
        /\ acc = [ok |-> ok, pending |-> pending, written |-> written]
        /\ ok <=> Accepted(entries, k)
        /\ ok => pending = Pending(entries, k) /\ written = Written(entries, k)
  BY <1>0
<1>2. k + 1 \in Nat /\ 1..(k + 1) = 1..k \cup {k + 1} OBVIOUS
<1>3. Accepted(entries, k + 1) <=> Accepted(entries, k) /\ ~ RefusedAt(entries, k + 1) BY <1>2 DEF Accepted
<1>4. Written(entries, k + 1) = Written(entries, k) \cup (IF FileAt(entries, k + 1) THEN {PathAt(entries, k + 1)} ELSE {})
  BY <1>2 DEF Written
<1>5. CASE ~ ok
  <2>1. next = acc BY <1>1, <1>5 DEF ReadEntry
  <2>2. ~ Accepted(entries, k + 1) BY <1>1, <1>3, <1>5
  <2> HIDE DEF next
  <2> QED BY <1>1, <1>5, <2>1, <2>2, ReadSo DEF next
<1>6. CASE ok /\ IsHeader(e)
  <2> DEFINE after == IF e.names = {} THEN pending ELSE e.names
  <2>1. next = [ok |-> TRUE, pending |-> after, written |-> written] BY <1>1, <1>6 DEF ReadEntry
  <2>2. after = Pending(entries, k + 1) BY <1>1, <1>6, PendingGoes
  <2>3. ~ FileAt(entries, k + 1) BY <1>6 DEF FileAt, IsHeader
  <2>4. written = Written(entries, k + 1) BY <1>1, <1>4, <1>6, <2>3
  <2>5. Accepted(entries, k + 1)
    <3>1. ~ RefusedAt(entries, k + 1) BY <1>6 DEF RefusedAt
    <3> QED BY <1>1, <1>3, <1>6, <3>1
  <2> HIDE DEF next, after
  <2>6. Read(entries, k + 1, [ok |-> TRUE, pending |-> after, written |-> written])
    BY <1>2, <2>2, <2>4, <2>5, ReadSo
  <2> QED BY <2>1, <2>6 DEF next
<1>7. CASE ok /\ ~ IsHeader(e)
  <2> DEFINE path == EntryPath(IF pending = {} THEN e.name ELSE CHOOSE n \in pending : TRUE)
  <2>1. path = PathAt(entries, k + 1) BY <1>1, <1>7, NamedByPending DEF PathAt
  <2> HIDE DEF path
  <2>2. CASE path = Thrown \/ (e.type = "link" /\ path # <<>>)
    <3>1. next = [ok |-> FALSE, pending |-> pending, written |-> written] BY <1>1, <1>7, <2>2 DEF ReadEntry, path
    <3>2. RefusedAt(entries, k + 1) BY <1>7, <2>1, <2>2 DEF RefusedAt
    <3>3. ~ Accepted(entries, k + 1) BY <1>3, <3>2
    <3> HIDE DEF next
    <3>4. Read(entries, k + 1, [ok |-> FALSE, pending |-> pending, written |-> written]) BY <1>2, <3>3, ReadSo
    <3> QED BY <3>1, <3>4 DEF next
  <2>3. CASE ~ (path = Thrown \/ (e.type = "link" /\ path # <<>>))
    <3> DEFINE more == IF e.type = "file" /\ path # <<>> THEN written \cup {path} ELSE written
    <3>1. next = [ok |-> TRUE, pending |-> {}, written |-> more] BY <1>1, <1>7, <2>3 DEF ReadEntry, path
    <3>2. ~ RefusedAt(entries, k + 1) BY <2>1, <2>3 DEF RefusedAt
    <3>3. Accepted(entries, k + 1) BY <1>1, <1>3, <1>7, <3>2
    <3>4. {} = Pending(entries, k + 1) BY <1>7, PendingGoes
    <3>5. more = Written(entries, k + 1) BY <1>1, <1>4, <1>7, <2>1 DEF FileAt
    <3> HIDE DEF next, more
    <3>6. Read(entries, k + 1, [ok |-> TRUE, pending |-> {}, written |-> more]) BY <1>2, <3>3, <3>4, <3>5, ReadSo
    <3> QED BY <3>1, <3>6 DEF next
  <2> QED BY <2>2, <2>3
<1> QED BY <1>5, <1>6, <1>7

\* extractTarArchiveToDirectory() writes every file under its own name, or nothing.
THEOREM ArchivesAlwaysByName ==
  ASSUME NEW entries, IsSeq(entries),
         \A e \in ToSet(entries) : IF IsHeader(e) THEN \A n \in e.names : IsName(n) ELSE IsName(e.name),
         NEW terminated
  PROVE  ExtractsByName(entries, terminated)
<1> DEFINE n == Len(entries)
           start == [ok |-> TRUE, pending |-> {}, written |-> {}]
           done == FoldLeft(ReadEntry, start, entries)
<1>0. n \in Nat /\ DOMAIN entries = 1..n BY DEF IsSeq
<1>1. done = ArchiveFold!Fold(<<>>, start, entries)
  BY DEF ArchiveFold!Fold, ArchiveStep, FoldLeft, MapThenFoldSet, Max, ArchiveFold!Max
<1> HIDE DEF done, n
<1>2. PICK f : ArchiveFold!Goes(<<>>, start, entries, n, f) BY <1>0, ArchiveFold!FoldIsRun DEF n
<1> DEFINE T == {k \in Nat : k <= n => Read(entries, k, f[k])}
<1>3. 0 \in T
  <2>1. f[0] = [ok |-> TRUE, pending |-> {}, written |-> {}] BY <1>2 DEF ArchiveFold!Goes
  <2>2. {} = Pending(entries, 0) /\ {} = Written(entries, 0) /\ Accepted(entries, 0) BY PendingGoes DEF Written, Accepted
  <2>3. Read(entries, 0, [ok |-> TRUE, pending |-> {}, written |-> {}]) BY <2>2, ReadSo
  <2> QED BY <2>1, <2>3
<1>4. ASSUME NEW k \in Nat, k \in T PROVE k + 1 \in T
  <2> SUFFICES ASSUME k + 1 <= n PROVE Read(entries, k + 1, f[k + 1]) OBVIOUS
  <2>1. k + 1 \in 1..n /\ k + 1 - 1 = k BY <1>0
  <2>2. f[k + 1] = ReadEntry(f[k], entries[k + 1]) BY <1>2, <2>1 DEF ArchiveFold!Goes, ArchiveStep
  <2>3. Read(entries, k, f[k]) BY <1>0, <1>4
  <2> QED BY <2>2, <2>3, ReadsOn
<1>5. n \in T
  <2> HIDE DEF T
  <2> QED BY <1>0, <1>3, <1>4, ArchiveFold!Induction
<1>6. Read(entries, n, done) BY <1>0, <1>1, <1>2, <1>5 DEF ArchiveFold!Goes
<1> DEFINE PathOf(i) == EntryPath(NameOf(entries, i))
           plain   == {i \in DOMAIN entries : ~ IsHeader(entries[i])}
           refused == {i \in plain : PathOf(i) = Thrown \/ (entries[i].type = "link" /\ PathOf(i) # <<>>)}
           files   == {PathOf(i) : i \in {j \in plain : entries[j].type = "file"}} \ {<<>>}
<1>7. refused = {} <=> Accepted(entries, n) BY <1>0 DEF Accepted, RefusedAt, PathAt
<1>8. files = Written(entries, n)
  <2>1. \A j \in 1..n : entries[j].type = "file" => ~ IsHeader(entries[j]) BY DEF IsHeader
  <2> QED BY <1>0, <2>1 DEF Written, FileAt, PathAt
<1>9. ExtractTar(entries, terminated) = IF refused # {} \/ ~ terminated THEN Thrown ELSE files
  <2>1. ExtractTar(entries, terminated) = IF done.ok /\ terminated THEN done.written ELSE Thrown BY DEF ExtractTar, done
  <2> HIDE DEF refused, files
  <2> QED BY <1>6, <1>7, <1>8, <2>1 DEF Read
<1>10. ASSUME NEW p \in files, p # Thrown PROVE {".", ".."} \cap ToSet(p) = {}
  <2>1. PICK i \in plain : p = PathOf(i) OBVIOUS
  <2>2. p # Thrown BY <1>10
  <2>3. IsName(NameOf(entries, i))
    <3> DEFINE given == {j \in 1..(i - 1) : /\ \A k \in j..(i - 1) : IsHeader(entries[k])
                                            /\ entries[j].names # {}}
    <3>0. i \in 1..n BY <1>0
    <3>1. NameOf(entries, i) = IF given = {} THEN entries[i].name ELSE CHOOSE m \in entries[Max(given)].names : TRUE
      BY DEF NameOf
    <3>2. CASE given = {}
      <4>1. entries[i] \in ToSet(entries) BY <1>0, <3>0 DEF ToSet
      <4> QED BY <3>1, <3>2, <4>1
    <3>3. CASE given # {}
      <4> DEFINE j == Max(given)
      <4>1. j \in given
        <5>1. given \subseteq 1..(i - 1) /\ i - 1 \in Nat BY <3>0
        <5> HIDE DEF given
        <5>2. ArchiveFold!Max(given) \in given BY <3>3, <5>1, ArchiveFold!GreatestOf
        <5> QED BY <5>2 DEF Max, ArchiveFold!Max
      <4> HIDE DEF j
      <4>2. j \in 1..(i - 1) /\ j \in 1..n /\ j \in j..(i - 1) BY <1>0, <3>0, <4>1
      <4>3. IsHeader(entries[j]) /\ entries[j].names # {} BY <4>1, <4>2
      <4>4. entries[j] \in ToSet(entries) BY <1>0, <4>2 DEF ToSet
      <4>5. (CHOOSE m \in entries[j].names : TRUE) \in entries[j].names BY <4>3
      <4> HIDE DEF given
      <4> QED BY <3>1, <3>3, <4>3, <4>4, <4>5 DEF j
    <3> QED BY <3>2, <3>3
  <2> DEFINE name == NameOf(entries, i)
             segs == FoldLeft(Walk, <<>>, name.segments)
  <2>4. p = IF name.absolute \/ ".." \in ToSet(segs) THEN Thrown ELSE segs BY <2>1 DEF EntryPath, NormalizePath
  <2>5. name.segments \in Seq(STRING) BY <2>3 DEF IsName
  <2> HIDE DEF name, segs
  <2>6. "." \notin ToSet(segs) BY <2>5, WalkedClean DEF segs
  <2> QED BY <2>2, <2>4, <2>6
<1> QED BY <1>9, <1>10 DEF ExtractsByName

-----------------------------------------------------------------------------
\* Prefixes

LEMMA PrefixIs ==
  ASSUME NEW S, NEW p \in Seq(S), NEW q \in Seq(S)
  PROVE  IsPrefix(p, q) <=> Len(p) <= Len(q) /\ \A i \in 1..Len(p) : p[i] = q[i]
<1>0. Len(p) \in Nat /\ Len(q) \in Nat BY LenProperties
<1>1. SubSeq(p, 1, Len(p)) = [i \in 1..Len(p) |-> p[i]] BY <1>0
<1>2. SubSeq(q, 1, Len(p)) = [i \in 1..Len(p) |-> q[i]] BY <1>0
<1> DEFINE P == [i \in 1..Len(p) |-> p[i]]
           Q == [i \in 1..Len(p) |-> q[i]]
<1>3. P = Q <=> \A i \in 1..Len(p) : p[i] = q[i]
  <2>1. ASSUME P = Q, NEW i \in 1..Len(p) PROVE p[i] = q[i]
    <3>1. P[i] = Q[i] BY <2>1
    <3> QED BY <3>1
  <2> QED BY <2>1
<1> HIDE DEF P, Q
<1> QED BY <1>1, <1>2, <1>3 DEF IsPrefix, P, Q

LEMMA PrefixOfItself ==
  ASSUME NEW S, NEW p \in Seq(S)
  PROVE  IsPrefix(p, p)
BY PrefixIs, LenProperties

LEMMA PrefixGoesOn ==
  ASSUME NEW S, NEW p \in Seq(S), NEW q \in Seq(S), NEW r \in Seq(S), IsPrefix(p, q), IsPrefix(q, r)
  PROVE  IsPrefix(p, r)
<1>1. Len(p) \in Nat /\ Len(q) \in Nat /\ Len(r) \in Nat BY LenProperties
<1>2. Len(p) <= Len(q) /\ \A i \in 1..Len(p) : p[i] = q[i] BY PrefixIs
<1>3. Len(q) <= Len(r) /\ \A i \in 1..Len(q) : q[i] = r[i] BY PrefixIs
<1>4. Len(p) <= Len(r) /\ \A i \in 1..Len(p) : p[i] = r[i] BY <1>1, <1>2, <1>3
<1> QED BY <1>4, PrefixIs

\* A prefix that is not shorter is the same.
LEMMA PrefixAsLong ==
  ASSUME NEW S, NEW p \in Seq(S), NEW q \in Seq(S), IsPrefix(p, q), Len(q) <= Len(p)
  PROVE  p = q
<1>1. Len(p) \in Nat /\ Len(q) \in Nat BY LenProperties
<1>2. Len(p) <= Len(q) /\ \A i \in 1..Len(p) : p[i] = q[i] BY PrefixIs
<1>3. Len(p) = Len(q) BY <1>1, <1>2
<1> QED BY <1>2, <1>3, SeqEqual

\* Of two prefixes of the same, one is a prefix of the other.
LEMMA PrefixesCompare ==
  ASSUME NEW S, NEW p \in Seq(S), NEW q \in Seq(S), NEW r \in Seq(S), IsPrefix(p, r), IsPrefix(q, r)
  PROVE  IsPrefix(p, q) \/ IsPrefix(q, p)
<1>1. Len(p) \in Nat /\ Len(q) \in Nat /\ Len(r) \in Nat BY LenProperties
<1>2. Len(p) <= Len(r) /\ \A i \in 1..Len(p) : p[i] = r[i] BY PrefixIs
<1>3. Len(q) <= Len(r) /\ \A i \in 1..Len(q) : q[i] = r[i] BY PrefixIs
<1>4. CASE Len(p) <= Len(q)
  <2>1. \A i \in 1..Len(p) : p[i] = q[i] BY <1>1, <1>2, <1>3, <1>4
  <2> QED BY <1>4, <2>1, PrefixIs
<1>5. CASE Len(q) <= Len(p)
  <2>1. \A i \in 1..Len(q) : q[i] = p[i] BY <1>1, <1>2, <1>3, <1>5
  <2> QED BY <1>5, <2>1, PrefixIs
<1> QED BY <1>1, <1>4, <1>5

-----------------------------------------------------------------------------
\* Sets in order

\* An injection from 1..n onto a set with n elements lists each of them.
Lists(s, S) ==
  /\ s \in [1..Cardinality(S) -> S] /\ Cardinality(S) \in Nat
  /\ \A x \in S : \E i \in DOMAIN s : s[i] = x
  /\ \A i, j \in DOMAIN s : s[i] = s[j] => i = j

LEMMA InjectionLists ==
  ASSUME NEW S, IsFiniteSet(S), NEW s \in [1..Cardinality(S) -> S], IsInjective(s)
  PROVE  Lists(s, S)
<1> DEFINE n == Cardinality(S)
<1>1. n \in Nat BY FS_CardinalityType
<1>2. s \in Injection(1..n, S) BY DEF Injection
<1>3. IsFiniteSet(1..n) /\ Cardinality(1..n) = n BY <1>1, FS_Interval
<1>4. s \in Surjection(1..n, S)
  <2>1. Cardinality(1..n) = Cardinality(S) BY <1>3
  <2> HIDE DEF n
  <2> QED BY <1>2, <2>1, FS_Injection
<1>5. \A x \in S : \E i \in 1..n : s[i] = x BY <1>4 DEF Surjection
<1>6. \A i, j \in DOMAIN s : s[i] = s[j] => i = j BY DEF IsInjective
<1> QED BY <1>1, <1>5, <1>6 DEF Lists

LEMMA SetToSeqLists ==
  ASSUME NEW S, IsFiniteSet(S)
  PROVE  Lists(SetToSeq(S), S)
<1> DEFINE n == Cardinality(S)
<1>1. n \in Nat /\ \E f : f \in Bijection(1..n, S) BY FS_CardinalityType DEF ExistsBijection
<1>2. \E f \in [1..n -> S] : IsInjective(f) BY <1>1 DEF Bijection, Injection
<1>3. SetToSeq(S) \in [1..n -> S] /\ IsInjective(SetToSeq(S)) BY <1>2 DEF SetToSeq
<1> HIDE DEF n
<1> QED BY <1>3, InjectionLists DEF n

\* In order of length.
Sorted(s) == \A i, j \in DOMAIN s : i < j => Len(s[i]) <= Len(s[j])

\* A finite set that is not empty has a shortest one.
LEMMA ShortestOf ==
  ASSUME NEW V, NEW S, S \subseteq Seq(V), S # {}
  PROVE  \E m \in S : \A x \in S : Len(m) <= Len(x)
<1> DEFINE T == {Len(x) : x \in S}
<1>1. T \subseteq Nat /\ T # {} BY LenProperties
<1>2. PICK l \in T : \A k \in T : l <= k
  <2> HIDE DEF T
  <2> QED BY <1>1, PruneFold!LeastOf
<1>3. PICK m \in S : l = Len(m) OBVIOUS
<1> QED BY <1>2, <1>3

\* Every finite set of sequences can be sorted.
LEMMA SomeSorted ==
  ASSUME NEW V, NEW S, S \subseteq Seq(V), IsFiniteSet(S)
  PROVE  \E s \in [1..Cardinality(S) -> S] : IsInjective(s) /\ Sorted(s)
<1> DEFINE Good(R, n, s) == s \in [1..n -> R] /\ IsInjective(s) /\ Sorted(s)
           T == {n \in Nat : \A R \in SUBSET S : Cardinality(R) = n => \E s : Good(R, n, s)}
<1>1. 0 \in T
  <2> SUFFICES ASSUME NEW R \in SUBSET S, Cardinality(R) = 0 PROVE \E s : Good(R, 0, s) OBVIOUS
  <2> DEFINE s == [i \in 1..0 |-> i]
  <2>1. s \in [1..0 -> R] /\ DOMAIN s = {} OBVIOUS
  <2>2. IsInjective(s) /\ Sorted(s) BY <2>1 DEF IsInjective, Sorted
  <2> QED BY <2>1, <2>2
<1>2. ASSUME NEW n \in Nat, n \in T PROVE n + 1 \in T
  <2> SUFFICES ASSUME NEW R \in SUBSET S, Cardinality(R) = n + 1 PROVE \E s : Good(R, n + 1, s) OBVIOUS
  <2>1. IsFiniteSet(R) BY FS_Subset
  <2>2. R # {}
    <3>1. n + 1 # 0 OBVIOUS
    <3> QED BY <3>1, FS_EmptySet
  <2>3. PICK m \in R : \A x \in R : Len(m) <= Len(x)
    <3>1. R \subseteq Seq(V) OBVIOUS
    <3> QED BY <2>2, <3>1, ShortestOf
  <2> DEFINE Q == R \ {m}
  <2>4. Q \in SUBSET S OBVIOUS
  <2>5. Cardinality(Q) = n
    <3>1. Cardinality(R \ {m}) = Cardinality(R) - 1 BY <2>1, <2>3, FS_RemoveElement
    <3>2. Cardinality(R) - 1 = n OBVIOUS
    <3> QED BY <3>1, <3>2
  <2>6. PICK t : Good(Q, n, t) BY <1>2, <2>4, <2>5
  <2> DEFINE s == [i \in 1..(n + 1) |-> IF i = 1 THEN m ELSE t[i - 1]]
  <2>7. t \in [1..n -> Q] /\ (\A i, j \in 1..n : t[i] = t[j] => i = j) /\ (\A i, j \in 1..n : i < j => Len(t[i]) <= Len(t[j]))
    BY <2>6 DEF IsInjective, Sorted
  <2>8. \A i \in 1..(n + 1) : (i = 1 /\ s[i] = m) \/ (i # 1 /\ i - 1 \in 1..n /\ s[i] = t[i - 1]) OBVIOUS
  <2>9. s \in [1..(n + 1) -> R]
    <3>1. \A i \in 1..(n + 1) : s[i] \in R BY <2>7, <2>8
    <3>2. s = [i \in 1..(n + 1) |-> s[i]] OBVIOUS
    <3> HIDE DEF s
    <3> QED BY <3>1, <3>2
  <2> HIDE DEF s
  <2>10. ASSUME NEW i \in 1..(n + 1), NEW j \in 1..(n + 1), s[i] = s[j] PROVE i = j
    <3>1. CASE i = 1 BY <2>7, <2>8, <2>10, <3>1
    <3>2. CASE j = 1 BY <2>7, <2>8, <2>10, <3>2
    <3>3. CASE i # 1 /\ j # 1
      <4>1. i - 1 \in 1..n /\ j - 1 \in 1..n /\ t[i - 1] = t[j - 1] BY <2>8, <2>10, <3>3
      <4>2. i - 1 = j - 1 BY <2>7, <4>1
      <4> QED BY <4>2
    <3> QED BY <3>1, <3>2, <3>3
  <2>11. ASSUME NEW i \in 1..(n + 1), NEW j \in 1..(n + 1), i < j PROVE Len(s[i]) <= Len(s[j])
    <3>1. j # 1 /\ s[j] = t[j - 1] /\ j - 1 \in 1..n BY <2>8, <2>11
    <3>2. CASE i = 1
      <4>1. s[i] = m /\ s[j] \in R BY <2>8, <2>9, <3>2
      <4> QED BY <2>3, <4>1
    <3>3. CASE i # 1
      <4>1. s[i] = t[i - 1] /\ i - 1 \in 1..n /\ i - 1 < j - 1 BY <2>8, <2>11, <3>3
      <4> QED BY <2>7, <3>1, <4>1
    <3> QED BY <3>2, <3>3
  <2>12. IsInjective(s) /\ Sorted(s) BY <2>9, <2>10, <2>11 DEF IsInjective, Sorted
  <2> QED BY <2>9, <2>12
<1>3. Nat \subseteq T
  <2> HIDE DEF T
  <2> QED BY <1>1, <1>2, PruneFold!Induction
<1>4. Cardinality(S) \in T BY <1>3, FS_CardinalityType
<1> QED BY <1>4

LEMMA ByDepthLists ==
  ASSUME NEW V, NEW S, S \subseteq Seq(V), IsFiniteSet(S)
  PROVE  Lists(ByDepth(S), S) /\ Sorted(ByDepth(S))
<1>1. ByDepth(S) = CHOOSE s \in [1..Cardinality(S) -> S] : IsInjective(s) /\ Sorted(s) BY DEF ByDepth, Sorted
<1>2. ByDepth(S) \in [1..Cardinality(S) -> S] /\ IsInjective(ByDepth(S)) /\ Sorted(ByDepth(S)) BY <1>1, SomeSorted
<1> QED BY <1>2, InjectionLists

-----------------------------------------------------------------------------
\* Pruning

\* No path of a list contains another one.
Apart(s) == \A i, j \in DOMAIN s : IsPrefix(s[i], s[j]) => i = j

\* What has been kept of the first k paths of s: some of them, apart, and one that
\* contains each of them.
Kept(V, s, k, kept) ==
  /\ kept \in Seq(Seq(V)) /\ Apart(kept)
  /\ \A i \in DOMAIN kept : \E j \in 1..k : kept[i] = s[j]
  /\ \A j \in 1..k : \E i \in DOMAIN kept : IsPrefix(kept[i], s[j])

LEMMA KeepsOn ==
  ASSUME NEW V, NEW s, NEW n \in Nat, DOMAIN s = 1..n, \A i \in 1..n : s[i] \in Seq(V), Sorted(s),
         NEW k \in Nat, k + 1 <= n, NEW kept, Kept(V, s, k, kept)
  PROVE  Kept(V, s, k + 1, Prune(kept, s[k + 1]))
<1> DEFINE p == s[k + 1]
           m == Len(kept)
<1>0. k + 1 \in 1..n /\ p \in Seq(V) OBVIOUS
<1>1. kept \in Seq(Seq(V)) /\ m \in Nat /\ DOMAIN kept = 1..m BY LenProperties DEF Kept
<1>2. \A i \in 1..m : kept[i] \in Seq(V) BY <1>1, ElementOfSeq
<1>3. 1..(k + 1) = 1..k \cup {k + 1} OBVIOUS
<1>4. CASE \E q \in ToSet(kept) : IsPrefix(q, p)
  <2>1. Prune(kept, p) = kept BY <1>4 DEF Prune
  <2>2. \E i \in DOMAIN kept : IsPrefix(kept[i], p) BY <1>4 DEF ToSet
  <2>3. \A j \in 1..(k + 1) : \E i \in DOMAIN kept : IsPrefix(kept[i], s[j]) BY <1>3, <2>2 DEF Kept
  <2>4. \A i \in DOMAIN kept : \E j \in 1..(k + 1) : kept[i] = s[j] BY <1>3 DEF Kept
  <2> QED BY <2>1, <2>3, <2>4 DEF Kept
<1>5. CASE ~ \E q \in ToSet(kept) : IsPrefix(q, p)
  <2> DEFINE more == Append(kept, p)
  <2>1. Prune(kept, p) = more BY <1>5 DEF Prune
  <2>2. more \in Seq(Seq(V)) /\ Len(more) = m + 1 /\ DOMAIN more = 1..(m + 1)
    <3>1. more \in Seq(Seq(V)) /\ Len(more) = m + 1 BY <1>0, <1>1, AppendProperties
    <3> HIDE DEF more
    <3> QED BY <3>1, LenProperties
  <2>3. (\A i \in 1..m : more[i] = kept[i]) /\ more[m + 1] = p BY <1>0, <1>1, AppendProperties
  <2>4. 1..(m + 1) = 1..m \cup {m + 1} BY <1>1
  <2> HIDE DEF more, m, p
  <2>5. \A i \in 1..m : ~ IsPrefix(kept[i], p) BY <1>1, <1>5 DEF ToSet
  <2>6. ASSUME NEW i \in 1..m PROVE ~ IsPrefix(p, kept[i])
    <3> SUFFICES ASSUME IsPrefix(p, kept[i]) PROVE FALSE OBVIOUS
    <3>1. PICK j \in 1..k : kept[i] = s[j] BY <1>1 DEF Kept
    <3>2. Len(kept[i]) <= Len(p)
      <4>1. j \in 1..n /\ j < k + 1 OBVIOUS
      <4> QED BY <1>0, <3>1, <4>1 DEF Sorted, p
    <3>3. p = kept[i] BY <1>0, <1>2, <3>2, PrefixAsLong
    <3>4. IsPrefix(kept[i], p) BY <1>0, <3>3, PrefixOfItself
    <3> QED BY <2>5, <3>4
  <2>7. Apart(more)
    <3> SUFFICES ASSUME NEW i \in 1..(m + 1), NEW j \in 1..(m + 1), IsPrefix(more[i], more[j]) PROVE i = j
      BY <2>2 DEF Apart
    <3>1. CASE i \in 1..m /\ j \in 1..m
      <4>1. IsPrefix(kept[i], kept[j]) BY <2>3, <3>1
      <4> QED BY <1>1, <3>1, <4>1 DEF Kept, Apart
    <3>2. CASE i \in 1..m /\ j = m + 1 BY <2>3, <2>5, <3>2
    <3>3. CASE i = m + 1 /\ j \in 1..m BY <2>3, <2>6, <3>3
    <3> QED BY <2>4, <3>1, <3>2, <3>3
  <2>8. ASSUME NEW i \in 1..(m + 1) PROVE \E j \in 1..(k + 1) : more[i] = s[j]
    <3>1. CASE i \in 1..m BY <1>1, <1>3, <2>3, <3>1 DEF Kept
    <3>2. CASE i = m + 1 BY <1>3, <2>3, <3>2 DEF p
    <3> QED BY <2>4, <3>1, <3>2
  <2>9. ASSUME NEW j \in 1..(k + 1) PROVE \E i \in 1..(m + 1) : IsPrefix(more[i], s[j])
    <3>1. CASE j \in 1..k
      <4>1. PICK i \in 1..m : IsPrefix(kept[i], s[j]) BY <1>1, <3>1 DEF Kept
      <4> QED BY <2>3, <2>4, <4>1
    <3>2. CASE j = k + 1
      <4>1. IsPrefix(more[m + 1], p) BY <1>0, <2>3, PrefixOfItself
      <4> QED BY <2>4, <3>2, <4>1 DEF p
    <3> QED BY <1>3, <3>1, <3>2
  <2>10. Kept(V, s, k + 1, more) BY <2>2, <2>7, <2>8, <2>9 DEF Kept
  <2> QED BY <2>1, <2>10 DEF p
<1> QED BY <1>4, <1>5

\* dedupeRelativeSandboxPaths() keeps some paths, apart, and one that contains each.
LEMMA Dedupes ==
  ASSUME NEW V, NEW S, S \subseteq Seq(V), IsFiniteSet(S), <<>> \notin S
  PROVE  LET kept == DedupePaths(S) IN
         /\ kept \in Seq(S) /\ Apart(kept)
         /\ \A p \in S : \E i \in DOMAIN kept : IsPrefix(kept[i], p)
<1> DEFINE s == ByDepth(S)
           n == Cardinality(S)
           kept == DedupePaths(S)
<1>1. Lists(s, S) /\ Sorted(s) BY ByDepthLists
<1>2. S \ {<<>>} = S OBVIOUS
<1>3. kept = FoldLeft(Prune, <<>>, s) BY <1>2 DEF DedupePaths
<1> HIDE DEF s, n, kept
<1>4. kept = PruneFold!Fold(<<>>, <<>>, s)
  BY <1>3 DEF PruneFold!Fold, PruneStep, FoldLeft, MapThenFoldSet, Max, PruneFold!Max
<1>5. n \in Nat /\ DOMAIN s = 1..n /\ (\A i \in 1..n : s[i] \in S) /\ (\A i \in 1..n : s[i] \in Seq(V))
  BY <1>1 DEF Lists, n
<1>6. PICK f : PruneFold!Goes(<<>>, <<>>, s, n, f) BY <1>5, PruneFold!FoldIsRun
<1> DEFINE T == {k \in Nat : k <= n => Kept(V, s, k, f[k])}
<1>7. 0 \in T
  <2>1. f[0] = <<>> BY <1>6 DEF PruneFold!Goes
  <2>2. <<>> \in Seq(Seq(V)) /\ DOMAIN <<>> = {} /\ 1..0 = {} OBVIOUS
  <2> QED BY <2>1, <2>2 DEF Kept, Apart
<1>8. ASSUME NEW k \in Nat, k \in T PROVE k + 1 \in T
  <2> SUFFICES ASSUME k + 1 <= n PROVE Kept(V, s, k + 1, f[k + 1]) OBVIOUS
  <2>1. k + 1 \in 1..n /\ k + 1 - 1 = k /\ k <= n BY <1>5
  <2>2. f[k + 1] = Prune(f[k], s[k + 1]) BY <1>6, <2>1 DEF PruneFold!Goes, PruneStep
  <2>3. Kept(V, s, k, f[k]) BY <1>8, <2>1
  <2> QED BY <1>1, <1>5, <2>2, <2>3, KeepsOn
<1>9. n \in T
  <2> HIDE DEF T
  <2> QED BY <1>5, <1>7, <1>8, PruneFold!Induction
<1>10. Kept(V, s, n, kept) BY <1>4, <1>5, <1>6, <1>9 DEF PruneFold!Goes
<1>11. kept \in Seq(S)
  <2>1. Len(kept) \in Nat /\ DOMAIN kept = 1..Len(kept) /\ kept \in Seq(Seq(V)) BY <1>10, LenProperties DEF Kept
  <2>2. \A i \in 1..Len(kept) : kept[i] \in S BY <1>5, <1>10, <2>1 DEF Kept
  <2> QED BY <2>1, <2>2, SeqDef
<1>12. ASSUME NEW p \in S PROVE \E i \in DOMAIN kept : IsPrefix(kept[i], p)
  <2>1. PICK j \in 1..n : s[j] = p BY <1>1, <1>5 DEF Lists
  <2> QED BY <1>10, <2>1 DEF Kept
<1> QED BY <1>10, <1>11, <1>12 DEF Kept, kept

-----------------------------------------------------------------------------
\* Bytes

\* The first k of a list.
Taken(s, k) == {s[i] : i \in 1..k}

Blocks(files, S) == UNION {{q} \X (1..files[q]) : q \in S}

LEMMA TakenGoes ==
  ASSUME NEW s, NEW S, Lists(s, S), NEW n, n = Cardinality(S)
  PROVE  /\ n \in Nat /\ DOMAIN s = 1..n /\ Taken(s, 0) = {} /\ Taken(s, n) = S
         /\ \A k \in Nat : k + 1 <= n => /\ Taken(s, k + 1) = Taken(s, k) \cup {s[k + 1]}
                                       /\ s[k + 1] \notin Taken(s, k) /\ s[k + 1] \in S
<1>1. n \in Nat /\ DOMAIN s = 1..n BY DEF Lists
<1>2. Taken(s, 0) = {} /\ Taken(s, n) = S BY <1>1 DEF Taken, Lists
<1>3. ASSUME NEW k \in Nat, k + 1 <= n
      PROVE  Taken(s, k + 1) = Taken(s, k) \cup {s[k + 1]} /\ s[k + 1] \notin Taken(s, k) /\ s[k + 1] \in S
  <2>1. 1..(k + 1) = 1..k \cup {k + 1} OBVIOUS
  <2>2. Taken(s, k + 1) = Taken(s, k) \cup {s[k + 1]} BY <2>1 DEF Taken
  <2>3. \A i \in 1..k : i \in 1..n /\ k + 1 \in 1..n /\ i # k + 1 BY <1>1, <1>3
  <2>4. k + 1 \in 1..n BY <1>1, <1>3
  <2> QED BY <1>1, <2>2, <2>3, <2>4 DEF Lists, Taken
<1> QED BY <1>1, <1>2, <1>3

LEMMA BlockOf ==
  ASSUME NEW q, NEW n \in Nat
  PROVE  IsFiniteSet({q} \X (1..n)) /\ Cardinality({q} \X (1..n)) = n
<1> DEFINE S == {q} \X (1..n)
           f == [i \in 1..n |-> <<q, i>>]
<1>1. f \in Bijection(1..n, S)
  <2>1. f \in [1..n -> S] OBVIOUS
  <2>2. \A i, j \in 1..n : f[i] = f[j] => i = j OBVIOUS
  <2>3. \A x \in S : \E i \in 1..n : f[i] = x OBVIOUS
  <2> HIDE DEF f, S
  <2> QED BY <2>1, <2>2, <2>3 DEF Bijection, Injection, Surjection, IsInjective
<1>2. ExistsBijection(1..n, S) BY <1>1 DEF ExistsBijection
<1> HIDE DEF S
<1>3. IsFiniteSet(S) BY <1>2, FS_NatBijection
<1>4. Cardinality(S) = n BY <1>2, FS_CountingElements
<1> QED BY <1>3, <1>4 DEF S

LEMMA InBlocks ==
  ASSUME NEW files, NEW S, NEW x
  PROVE  x \in Blocks(files, S) <=> \E q \in S : x \in {q} \X (1..files[q])
BY DEF Blocks

LEMMA BlocksGrow ==
  ASSUME NEW files, NEW S, NEW q, q \notin S
  PROVE  /\ Blocks(files, S \cup {q}) = Blocks(files, S) \cup ({q} \X (1..files[q]))
         /\ Blocks(files, S) \cap ({q} \X (1..files[q])) = {}
<1>1. Blocks(files, S) \cap ({q} \X (1..files[q])) = {}
  <2> SUFFICES ASSUME NEW x \in Blocks(files, S), x \in {q} \X (1..files[q]) PROVE FALSE OBVIOUS
  <2>1. PICK r \in S : x \in {r} \X (1..files[r]) BY InBlocks
  <2>2. x[1] = r /\ x[1] = q BY <2>1
  <2> QED BY <2>2
<1>2. ASSUME NEW x PROVE x \in Blocks(files, S \cup {q}) <=> x \in Blocks(files, S) \cup ({q} \X (1..files[q]))
  <2>1. x \in Blocks(files, S \cup {q}) <=> \E r \in S \cup {q} : x \in {r} \X (1..files[r]) BY InBlocks
  <2>2. x \in Blocks(files, S) <=> \E r \in S : x \in {r} \X (1..files[r]) BY InBlocks
  <2> QED BY <2>1, <2>2
<1> QED BY <1>1, <1>2

LEMMA BytesAre ==
  ASSUME NEW files, NEW S
  PROVE  Bytes(files, S) = Cardinality(Blocks(files, S))
BY DEF Bytes, Blocks

\* One more file.
LEMMA BlocksAdd ==
  ASSUME NEW files, NEW S, NEW q, q \notin S, files[q] \in Nat, IsFiniteSet(Blocks(files, S))
  PROVE  /\ IsFiniteSet(Blocks(files, S \cup {q}))
         /\ Bytes(files, S \cup {q}) = Bytes(files, S) + files[q]
<1> DEFINE B == Blocks(files, S)
           C == {q} \X (1..files[q])
<1>1. IsFiniteSet(C) /\ Cardinality(C) = files[q] BY BlockOf
<1>2. Blocks(files, S \cup {q}) = B \cup C /\ B \cap C = {} BY BlocksGrow
<1> HIDE DEF B, C
<1>3. IsFiniteSet(B) BY DEF B
<1>4. IsFiniteSet(B \cup C) /\ Cardinality(B \cup C) = Cardinality(B) + Cardinality(C) - Cardinality(B \cap C)
  BY <1>1, <1>3, FS_Union
<1>5. Cardinality(B \cap C) = 0 BY <1>2, FS_EmptySet
<1>6. Cardinality(B) \in Nat /\ Cardinality(C) \in Nat BY <1>1, <1>3, FS_CardinalityType
<1>7. Cardinality(B \cup C) = Cardinality(B) + files[q] BY <1>1, <1>4, <1>5, <1>6
<1> QED BY <1>2, <1>4, <1>7, BytesAre DEF B

LEMMA BlocksFinite ==
  ASSUME NEW files, NEW S, IsFiniteSet(S), \A q \in S : files[q] \in Nat
  PROVE  IsFiniteSet(Blocks(files, S)) /\ Bytes(files, S) \in Nat
<1> DEFINE s == SetToSeq(S)
           n == Cardinality(S)
           T == {k \in Nat : k <= n => IsFiniteSet(Blocks(files, Taken(s, k)))}
<1>1. Lists(s, S) BY SetToSeqLists
<1> HIDE DEF s, n
<1>2. /\ n \in Nat /\ DOMAIN s = 1..n /\ Taken(s, 0) = {} /\ Taken(s, n) = S
      /\ \A k \in Nat : k + 1 <= n => /\ Taken(s, k + 1) = Taken(s, k) \cup {s[k + 1]}
                                    /\ s[k + 1] \notin Taken(s, k) /\ s[k + 1] \in S
  BY <1>1, TakenGoes DEF n
<1>3. 0 \in T
  <2>1. Blocks(files, {}) = {} BY InBlocks
  <2> QED BY <1>2, <2>1, FS_EmptySet
<1>4. ASSUME NEW k \in Nat, k \in T PROVE k + 1 \in T
  <2> SUFFICES ASSUME k + 1 <= n PROVE IsFiniteSet(Blocks(files, Taken(s, k + 1))) OBVIOUS
  <2>1. IsFiniteSet(Blocks(files, Taken(s, k))) BY <1>2, <1>4
  <2>2. files[s[k + 1]] \in Nat /\ s[k + 1] \notin Taken(s, k) BY <1>2
  <2>3. IsFiniteSet(Blocks(files, Taken(s, k) \cup {s[k + 1]})) BY <2>1, <2>2, BlocksAdd
  <2> QED BY <1>2, <2>3
<1>5. n \in T
  <2> HIDE DEF T
  <2> QED BY <1>2, <1>3, <1>4, CopyFold!Induction
<1>6. IsFiniteSet(Blocks(files, S)) BY <1>2, <1>5
<1> QED BY <1>6, BytesAre, FS_CardinalityType

\* What belongs to two sets of files that have none in common.
LEMMA BytesJoin ==
  ASSUME NEW files, NEW S, NEW R, S \cap R = {}, IsFiniteSet(S), IsFiniteSet(R), \A q \in S \cup R : files[q] \in Nat
  PROVE  Bytes(files, S \cup R) = Bytes(files, S) + Bytes(files, R)
<1> DEFINE B == Blocks(files, S)
           C == Blocks(files, R)
<1>1. Blocks(files, S \cup R) = B \cup C
  <2>1. ASSUME NEW x PROVE x \in Blocks(files, S \cup R) <=> x \in B \/ x \in C BY InBlocks
  <2> HIDE DEF B, C
  <2> QED BY <2>1
<1>2. B \cap C = {}
  <2> SUFFICES ASSUME NEW x \in B, x \in C PROVE FALSE OBVIOUS
  <2>1. PICK r \in S : x \in {r} \X (1..files[r]) BY InBlocks
  <2>2. PICK t \in R : x \in {t} \X (1..files[t]) BY InBlocks
  <2>3. x[1] = r /\ x[1] = t BY <2>1, <2>2
  <2> QED BY <2>3
<1>3. IsFiniteSet(B) /\ IsFiniteSet(C) BY BlocksFinite
<1> HIDE DEF B, C
<1>4. Cardinality(B \cup C) = Cardinality(B) + Cardinality(C) - Cardinality(B \cap C) BY <1>3, FS_Union
<1>5. Cardinality(B \cap C) = 0 BY <1>2, FS_EmptySet
<1>6. Cardinality(B) \in Nat /\ Cardinality(C) \in Nat BY <1>3, FS_CardinalityType
<1>7. Bytes(files, S) = Cardinality(B) /\ Bytes(files, R) = Cardinality(C) /\ Bytes(files, S \cup R) = Cardinality(B \cup C)
  BY <1>1, BytesAre DEF B, C
<1> QED BY <1>4, <1>5, <1>6, <1>7

LEMMA BytesOfNone ==
  ASSUME NEW files
  PROVE  Bytes(files, {}) = 0
<1>1. Blocks(files, {}) = {} BY InBlocks
<1> QED BY <1>1, BytesAre, FS_EmptySet

-----------------------------------------------------------------------------
\* Staging

AtMost(total, limit) == IF total > limit THEN Thrown ELSE total

LEMMA CopiesOn ==
  ASSUME NEW files, NEW q, files[q] \in Nat, NEW limit \in Nat, NEW total \in Nat
  PROVE  StagedTotal(files, limit, AtMost(total, limit), q) = AtMost(total + files[q], limit)
<1>1. CASE total > limit
  <2>1. total + files[q] > limit BY <1>1
  <2> QED BY <1>1, <2>1 DEF StagedTotal, AtMost
<1>2. CASE ~ (total > limit)
  <2>1. total # Thrown BY ThrownIsNone
  <2> QED BY <1>2, <2>1 DEF StagedTotal, AtMost
<1> QED BY <1>1, <1>2

\* The files R have been copied.
Copied(files, R, before, limit, total) ==
  /\ IsFiniteSet(Blocks(files, R)) /\ Bytes(files, R) \in Nat
  /\ total = AtMost(before + Bytes(files, R), limit)

\* Files are copied until the limit is exceeded.
LEMMA CopiesAll ==
  ASSUME NEW files, NEW Q, IsFiniteSet(Q), \A q \in Q : files[q] \in Nat,
         NEW limit \in Nat, NEW before \in Nat
  PROVE  CopyFold!Fold([files |-> files, limit |-> limit], AtMost(before, limit), SetToSeq(Q))
           = AtMost(before + Bytes(files, Q), limit)
<1> DEFINE s == SetToSeq(Q)
           n == Cardinality(Q)
           c == [files |-> files, limit |-> limit]
           start == AtMost(before, limit)
<1>1. Lists(s, Q) BY SetToSeqLists
<1>2. c.files = files /\ c.limit = limit OBVIOUS
<1> HIDE DEF s, n, c, start
<1>3. /\ n \in Nat /\ DOMAIN s = 1..n /\ Taken(s, 0) = {} /\ Taken(s, n) = Q
      /\ \A k \in Nat : k + 1 <= n => /\ Taken(s, k + 1) = Taken(s, k) \cup {s[k + 1]}
                                    /\ s[k + 1] \notin Taken(s, k) /\ s[k + 1] \in Q
  BY <1>1, TakenGoes DEF n
<1>4. PICK f : CopyFold!Goes(c, start, s, n, f) BY <1>3, CopyFold!FoldIsRun
<1> DEFINE T == {k \in Nat : k <= n => Copied(files, Taken(s, k), before, limit, f[k])}
<1>5. 0 \in T
  <2>1. Blocks(files, {}) = {} BY InBlocks
  <2>2. Bytes(files, {}) = 0 BY BytesOfNone
  <2>3. f[0] = start BY <1>4 DEF CopyFold!Goes
  <2>4. before + 0 = before OBVIOUS
  <2>5. Copied(files, {}, before, limit, f[0]) BY <2>1, <2>2, <2>3, <2>4, FS_EmptySet DEF start, Copied
  <2> QED BY <1>3, <2>5
<1>6. ASSUME NEW k \in Nat, k \in T PROVE k + 1 \in T
  <2> SUFFICES ASSUME k + 1 <= n PROVE Copied(files, Taken(s, k + 1), before, limit, f[k + 1]) OBVIOUS
  <2> DEFINE R == Taken(s, k)
             q == s[k + 1]
  <2>1. IsFiniteSet(Blocks(files, R)) /\ Bytes(files, R) \in Nat /\ f[k] = AtMost(before + Bytes(files, R), limit)
    BY <1>3, <1>6 DEF Copied
  <2>2. Taken(s, k + 1) = R \cup {q} /\ q \notin R /\ q \in Q BY <1>3
  <2>3. k + 1 \in 1..n /\ k + 1 - 1 = k BY <1>3
  <2>4. f[k + 1] = StagedTotal(files, limit, f[k], q) BY <1>2, <1>4, <2>3 DEF CopyFold!Goes, CopyStep
  <2>5. files[q] \in Nat BY <2>2
  <2> HIDE DEF R, q
  <2>6. IsFiniteSet(Blocks(files, R \cup {q})) /\ Bytes(files, R \cup {q}) = Bytes(files, R) + files[q]
    BY <2>1, <2>2, <2>5, BlocksAdd
  <2> DEFINE b == Bytes(files, R)
  <2>7. before + b \in Nat /\ before + b + files[q] = before + (b + files[q]) BY <2>1, <2>5
  <2>8. f[k + 1] = AtMost(before + (b + files[q]), limit) BY <2>1, <2>4, <2>5, <2>7, CopiesOn
  <2>9. b + files[q] \in Nat BY <2>1, <2>5
  <2>10. Copied(files, R \cup {q}, before, limit, f[k + 1]) BY <2>6, <2>8, <2>9 DEF Copied
  <2> QED BY <2>2, <2>10
<1>7. n \in T
  <2> HIDE DEF T
  <2> QED BY <1>3, <1>5, <1>6, CopyFold!Induction
<1>8. f[n] = AtMost(before + Bytes(files, Q), limit) BY <1>3, <1>7 DEF Copied
<1>9. CopyFold!Fold(c, start, s) = f[n] BY <1>4 DEF CopyFold!Goes
<1> QED BY <1>8, <1>9 DEF c, start, s

\* The files that a path reaches.
FilesAt(tree, excluded, p) == {q \in DOMAIN tree.files : Reaches(p, excluded, q)}
FailsAt(tree, excluded, p) == IsMissing(tree, p, excluded) \/ \E q \in tree.links : Reaches(p, excluded, q)

LEMMA StagesPath ==
  ASSUME NEW tree, IsTree(tree), NEW excluded, NEW limit \in Nat, NEW before \in Nat, NEW p
  PROVE  /\ StagePath(tree, excluded, limit, Thrown, p) = Thrown
         /\ StagePath(tree, excluded, limit, AtMost(before, limit), p) =
              IF FailsAt(tree, excluded, p) THEN Thrown
              ELSE AtMost(before + Bytes(tree.files, FilesAt(tree, excluded, p)), limit)
<1> DEFINE Q == FilesAt(tree, excluded, p)
           c == [files |-> tree.files, limit |-> limit]
<1>0. IsFiniteSet(Q) /\ \A q \in Q : tree.files[q] \in Nat
  <2>1. Q \in SUBSET Entries(tree) BY DEF FilesAt, Entries
  <2>2. IsFiniteSet(Entries(tree)) BY DEF IsTree
  <2>3. IsFiniteSet(Q) BY <2>1, <2>2, FS_Subset
  <2>4. Q \subseteq DOMAIN tree.files BY DEF FilesAt
  <2> QED BY <2>3, <2>4 DEF IsTree
<1>1. StagePath(tree, excluded, limit, Thrown, p) = Thrown BY DEF StagePath
<1>2. ASSUME NEW total
      PROVE  StagePath(tree, excluded, limit, total, p) =
               IF total = Thrown \/ FailsAt(tree, excluded, p) THEN Thrown
               ELSE FoldLeft(LAMBDA w, q : StagedTotal(tree.files, limit, w, q), total, SetToSeq(Q))
  BY DEF StagePath, FailsAt, FilesAt
<1>3. ASSUME NEW total
      PROVE  FoldLeft(LAMBDA w, q : StagedTotal(tree.files, limit, w, q), total, SetToSeq(Q)) = CopyFold!Fold(c, total, SetToSeq(Q))
  BY DEF CopyFold!Fold, CopyStep, FoldLeft, MapThenFoldSet, Max, CopyFold!Max
<1>4. CopyFold!Fold(c, AtMost(before, limit), SetToSeq(Q)) = AtMost(before + Bytes(tree.files, Q), limit)
  BY <1>0, CopiesAll
<1>5. CASE AtMost(before, limit) # Thrown
  <2> HIDE DEF Q, c
  <2> QED BY <1>1, <1>2, <1>3, <1>4, <1>5 DEF Q
<1>6. CASE AtMost(before, limit) = Thrown
  <2>1. before > limit BY <1>6, ThrownIsNone DEF AtMost
  <2>2. Bytes(tree.files, Q) \in Nat BY <1>0, BlocksFinite
  <2>3. before + Bytes(tree.files, Q) > limit BY <2>1, <2>2
  <2>4. AtMost(before + Bytes(tree.files, Q), limit) = Thrown BY <2>3 DEF AtMost
  <2> HIDE DEF Q
  <2> QED BY <1>1, <1>6, <2>4 DEF Q
<1> QED BY <1>1, <1>5, <1>6

-----------------------------------------------------------------------------
LEMMA One ==
  ASSUME NEW V, NEW a \in V
  PROVE  <<a>> \in Seq(V) /\ Len(<<a>>) = 1 /\ <<a>>[1] = a
OBVIOUS

\* A path with one name.
LEMMA PrefixOne ==
  ASSUME NEW V, NEW a \in V, NEW q \in Seq(V), 1 <= Len(q)
  PROVE  <<a>> \in Seq(V) /\ (IsPrefix(<<a>>, q) <=> a = q[1])
<1>1. <<a>> \in Seq(V) /\ Len(<<a>>) = 1 /\ <<a>>[1] = a BY One
<1> DEFINE p == <<a>>
<1> HIDE DEF p
<1>2. p \in Seq(V) /\ Len(p) = 1 /\ p[1] = a BY <1>1 DEF p
<1>3. IsPrefix(p, q) <=> Len(p) <= Len(q) /\ \A i \in 1..Len(p) : p[i] = q[i]
  <2>1. p \in Seq(V) /\ q \in Seq(V) BY <1>2
  <2> QED BY <2>1, PrefixIs
<1>4. (\A i \in 1..Len(p) : p[i] = q[i]) <=> p[1] = q[1] BY <1>2
<1> QED BY <1>2, <1>3, <1>4 DEF p

FilesOf(tree, excluded, s, k) == {q \in DOMAIN tree.files : \E i \in 1..k : Reaches(s[i], excluded, q)}

LEMMA FilesFinite ==
  ASSUME NEW tree, IsTree(tree), NEW Q, Q \subseteq DOMAIN tree.files
  PROVE  IsFiniteSet(Q) /\ (\A q \in Q : tree.files[q] \in Nat) /\ Bytes(tree.files, Q) \in Nat
<1>1. Q \in SUBSET Entries(tree) BY DEF Entries
<1>2. IsFiniteSet(Entries(tree)) BY DEF IsTree
<1>3. IsFiniteSet(Q) BY <1>1, <1>2, FS_Subset
<1>4. \A q \in Q : tree.files[q] \in Nat BY DEF IsTree
<1> QED BY <1>3, <1>4, BlocksFinite

\* The first k paths have been staged.
StagedTo(tree, excluded, limit, s, k, total) ==
  total = IF \E i \in 1..k : FailsAt(tree, excluded, s[i]) THEN Thrown
          ELSE AtMost(Bytes(tree.files, FilesOf(tree, excluded, s, k)), limit)

LEMMA StagesOn ==
  ASSUME NEW tree, IsTree(tree), NEW excluded, NEW limit \in Nat, NEW s, s \in Seq(Path), Apart(s),
         NEW k \in Nat, k + 1 <= Len(s), NEW total, StagedTo(tree, excluded, limit, s, k, total)
  PROVE  StagedTo(tree, excluded, limit, s, k + 1, StagePath(tree, excluded, limit, total, s[k + 1]))
<1> DEFINE p == s[k + 1]
           A == FilesOf(tree, excluded, s, k)
           B == FilesAt(tree, excluded, p)
           next == StagePath(tree, excluded, limit, total, p)
<1>0. 1..(k + 1) = 1..k \cup {k + 1} OBVIOUS
<1>1. FilesOf(tree, excluded, s, k + 1) = A \cup B BY <1>0 DEF FilesOf, FilesAt
<1>2. A \cap B = {}
  <2> SUFFICES ASSUME NEW q \in A, q \in B PROVE FALSE OBVIOUS
  <2>1. PICK i \in 1..k : Reaches(s[i], excluded, q) BY DEF FilesOf
  <2>2. i \in DOMAIN s /\ k + 1 \in DOMAIN s /\ s[i] \in Path /\ p \in Path
    <3>1. Len(s) \in Nat /\ DOMAIN s = 1..Len(s) BY LenProperties
    <3>2. i \in 1..Len(s) /\ k + 1 \in 1..Len(s) BY <3>1
    <3> QED BY <3>1, <3>2, ElementOfSeq
  <2>3. q \in Path BY DEF FilesAt, IsTree, Entries
  <2>4. IsPrefix(s[i], q) /\ IsPrefix(p, q) BY <2>1 DEF Reaches, FilesAt
  <2>5. IsPrefix(s[i], p) \/ IsPrefix(p, s[i])
    <3> HIDE DEF p
    <3> QED BY <2>2, <2>3, <2>4, PrefixesCompare DEF Path
  <2>6. i = k + 1 BY <2>2, <2>5 DEF Apart
  <2> QED BY <2>6
<1>3. A \subseteq DOMAIN tree.files /\ B \subseteq DOMAIN tree.files BY DEF FilesOf, FilesAt
<1> HIDE DEF A, B, p, next
<1>4. /\ IsFiniteSet(A) /\ IsFiniteSet(B) /\ (\A q \in A \cup B : tree.files[q] \in Nat)
      /\ Bytes(tree.files, A) \in Nat
  BY <1>3, FilesFinite
<1>5. Bytes(tree.files, A \cup B) = Bytes(tree.files, A) + Bytes(tree.files, B) BY <1>2, <1>4, BytesJoin
<1>6. (\E i \in 1..(k + 1) : FailsAt(tree, excluded, s[i])) <=> (\E i \in 1..k : FailsAt(tree, excluded, s[i])) \/ FailsAt(tree, excluded, p)
  BY <1>0 DEF p
<1>7. CASE \E i \in 1..k : FailsAt(tree, excluded, s[i])
  <2>1. total = Thrown BY <1>7 DEF StagedTo
  <2>2. next = Thrown BY <2>1, StagesPath DEF next
  <2> QED BY <1>6, <1>7, <2>2 DEF StagedTo, next, p
<1>8. CASE ~ \E i \in 1..k : FailsAt(tree, excluded, s[i])
  <2>1. total = AtMost(Bytes(tree.files, A), limit) BY <1>8 DEF StagedTo, A
  <2>2. next = IF FailsAt(tree, excluded, p) THEN Thrown ELSE AtMost(Bytes(tree.files, A) + Bytes(tree.files, B), limit)
    BY <1>4, <2>1, StagesPath DEF next, B
  <2>3. StagedTo(tree, excluded, limit, s, k + 1, next) BY <1>1, <1>5, <1>6, <1>8, <2>2 DEF StagedTo
  <2> QED BY <2>3 DEF next, p
<1> QED BY <1>7, <1>8

\* Staging paths that are apart counts every file that one of them reaches once.
LEMMA StagesAll ==
  ASSUME NEW tree, IsTree(tree), NEW excluded, NEW limit \in Nat, NEW s, s \in Seq(Path), Apart(s)
  PROVE  StagedTo(tree, excluded, limit, s, Len(s), StageAll(tree, excluded, limit, s))
<1> DEFINE n == Len(s)
           c == [tree |-> tree, excluded |-> excluded, limit |-> limit]
<1>0. n \in Nat /\ DOMAIN s = 1..n BY LenProperties
<1>1. c.tree = tree /\ c.excluded = excluded /\ c.limit = limit OBVIOUS
<1>2. StageAll(tree, excluded, limit, s) = StageFold!Fold(c, 0, s)
  BY <1>1 DEF StageAll, StageFold!Fold, StageStep, FoldLeft, MapThenFoldSet, Max, StageFold!Max
<1> HIDE DEF c, n
<1>3. PICK f : StageFold!Goes(c, 0, s, n, f) BY <1>0, StageFold!FoldIsRun
<1> DEFINE T == {k \in Nat : k <= n => StagedTo(tree, excluded, limit, s, k, f[k])}
<1>4. 0 \in T
  <2>1. f[0] = 0 BY <1>3 DEF StageFold!Goes
  <2>2. 1..0 = {} OBVIOUS
  <2>3. FilesOf(tree, excluded, s, 0) = {} BY <2>2 DEF FilesOf
  <2>4. ~ (0 > limit) OBVIOUS
  <2>5. StagedTo(tree, excluded, limit, s, 0, 0) BY <2>2, <2>3, <2>4, BytesOfNone DEF StagedTo, AtMost
  <2> QED BY <2>1, <2>5
<1>5. ASSUME NEW k \in Nat, k \in T PROVE k + 1 \in T
  <2> SUFFICES ASSUME k + 1 <= n PROVE StagedTo(tree, excluded, limit, s, k + 1, f[k + 1]) OBVIOUS
  <2>1. k + 1 \in 1..n /\ k + 1 - 1 = k BY <1>0
  <2>2. f[k + 1] = StageStep(c, f[k], s[k + 1]) BY <1>3, <2>1 DEF StageFold!Goes
  <2>3. f[k + 1] = StagePath(tree, excluded, limit, f[k], s[k + 1]) BY <1>1, <2>2 DEF StageStep
  <2>4. StagedTo(tree, excluded, limit, s, k, f[k]) BY <1>0, <1>5
  <2>5. k + 1 <= Len(s) BY DEF n
  <2> QED BY <2>3, <2>4, <2>5, StagesOn
<1>6. n \in T
  <2> HIDE DEF T
  <2> QED BY <1>0, <1>4, <1>5, StageFold!Induction
<1>7. StagedTo(tree, excluded, limit, s, n, StageAll(tree, excluded, limit, s)) BY <1>0, <1>2, <1>3, <1>6 DEF StageFold!Goes
<1> QED BY <1>7 DEF n

\* It is what staging promises of them.
LEMMA StagesCovered ==
  ASSUME NEW tree, IsTree(tree), NEW excluded, NEW limit \in Nat, NEW s, s \in Seq(Path), Apart(s),
         NEW covered, covered = {q \in Entries(tree) : \E i \in DOMAIN s : Reaches(s[i], excluded, q)}
  PROVE  StageAll(tree, excluded, limit, s) =
           IF \E i \in DOMAIN s : IsMissing(tree, s[i], excluded) THEN Thrown ELSE Staged(tree, covered, limit)
<1> DEFINE n == Len(s)
           all == StageAll(tree, excluded, limit, s)
           F == FilesOf(tree, excluded, s, n)
<1>1. DOMAIN s = 1..n BY LenProperties
<1>2. StagedTo(tree, excluded, limit, s, n, all) BY StagesAll
<1>3. covered \cap DOMAIN tree.files = F BY <1>1 DEF FilesOf, Entries
<1>4. covered \cap tree.links # {} <=> \E i \in 1..n, q \in tree.links : Reaches(s[i], excluded, q) BY <1>1 DEF Entries
<1>5. (\E i \in 1..n : FailsAt(tree, excluded, s[i])) <=> (\E i \in 1..n : IsMissing(tree, s[i], excluded)) \/ covered \cap tree.links # {}
  BY <1>4 DEF FailsAt
<1>6. Staged(tree, covered, limit) = IF covered \cap tree.links # {} THEN Thrown ELSE AtMost(Bytes(tree.files, F), limit)
  BY <1>3 DEF Staged, AtMost
<1>7. all = IF \E i \in 1..n : FailsAt(tree, excluded, s[i]) THEN Thrown ELSE AtMost(Bytes(tree.files, F), limit)
  BY <1>2 DEF StagedTo
<1> HIDE DEF all, F, n
<1> QED BY <1>1, <1>5, <1>6, <1>7 DEF all

\* prepareWorkspaceMount() stages every file below the paths once.
THEOREM CopiesAlwaysOnce ==
  ASSUME NEW tree, IsTree(tree), NEW paths, paths \subseteq Path, IsFiniteSet(paths), NEW limit \in Nat
  PROVE  StagesOnce(tree, paths, limit)
<1> DEFINE named   == paths \ {<<>>}
           covered == {q \in Entries(tree) : \E p \in named : IsPrefix(p, q)}
           missing == {p \in named : /\ \A r \in named : IsPrefix(r, p) => r = p
                                     /\ \A q \in Entries(tree) : ~ IsPrefix(p, q)}
           kept == DedupePaths(named)
<1>1. IsFiniteSet(named) /\ named \subseteq Path /\ <<>> \notin named BY FS_Difference
<1>2. DedupePaths(paths) = kept
  <2>1. named \ {<<>>} = named OBVIOUS
  <2> QED BY <2>1 DEF DedupePaths
<1>3. StageCopy(tree, paths, limit) = IF named = {} THEN Thrown ELSE StageAll(tree, {}, limit, kept)
  BY <1>2 DEF StageCopy
<1> HIDE DEF named, kept
<1>4. kept \in Seq(named) /\ Apart(kept) /\ \A p \in named : \E i \in DOMAIN kept : IsPrefix(kept[i], p)
  BY <1>1, Dedupes DEF kept, Path
<1>5. DOMAIN kept = 1..Len(kept) /\ \A i \in DOMAIN kept : kept[i] \in named /\ kept[i] \in Path
  BY <1>1, <1>4, LenProperties, ElementOfSeq
<1>6. kept \in Seq(Path) BY <1>1, <1>4, SeqMonotonic
<1>7. Entries(tree) \subseteq Path BY DEF IsTree
<1>8. \A p, q : Reaches(p, {}, q) <=> IsPrefix(p, q) BY DEF Reaches
<1>9. \A p : IsMissing(tree, p, {}) <=> \A q \in Entries(tree) : ~ IsPrefix(p, q) BY DEF IsMissing
<1>10. covered = {q \in Entries(tree) : \E i \in DOMAIN kept : Reaches(kept[i], {}, q)}
  <2> SUFFICES ASSUME NEW q \in Entries(tree)
               PROVE  (\E p \in named : IsPrefix(p, q)) <=> \E i \in DOMAIN kept : IsPrefix(kept[i], q)
    BY <1>8
  <2>1. ASSUME NEW p \in named, IsPrefix(p, q) PROVE \E i \in DOMAIN kept : IsPrefix(kept[i], q)
    <3>1. PICK i \in DOMAIN kept : IsPrefix(kept[i], p) BY <1>4
    <3>2. kept[i] \in Path /\ p \in Path /\ q \in Path BY <1>1, <1>5, <1>7
    <3>3. IsPrefix(kept[i], q) BY <2>1, <3>1, <3>2, PrefixGoesOn DEF Path
    <3> QED BY <3>3
  <2>2. ASSUME NEW i \in DOMAIN kept, IsPrefix(kept[i], q) PROVE \E p \in named : IsPrefix(p, q) BY <1>5, <2>2
  <2> QED BY <2>1, <2>2
<1>11. missing # {} <=> \E i \in DOMAIN kept : IsMissing(tree, kept[i], {})
  <2>1. ASSUME NEW p \in missing PROVE \E i \in DOMAIN kept : IsMissing(tree, kept[i], {})
    <3>1. PICK i \in DOMAIN kept : IsPrefix(kept[i], p) BY <1>4
    <3>2. kept[i] = p BY <1>5, <3>1
    <3> QED BY <1>9, <3>2
  <2>2. ASSUME NEW i \in DOMAIN kept, IsMissing(tree, kept[i], {}) PROVE missing # {}
    <3> DEFINE p == kept[i]
    <3>1. ASSUME NEW r \in named, IsPrefix(r, p) PROVE r = p
      <4>1. PICK j \in DOMAIN kept : IsPrefix(kept[j], r) BY <1>4
      <4>2. kept[j] \in Path /\ r \in Path /\ p \in Path BY <1>1, <1>5
      <4>3. IsPrefix(kept[j], p)
        <5> HIDE DEF p
        <5> QED BY <3>1, <4>1, <4>2, PrefixGoesOn DEF Path
      <4>4. j = i BY <1>4, <4>3 DEF Apart
      <4>5. IsPrefix(p, r) BY <4>1, <4>4
      <4> HIDE DEF p
      <4>6. Len(p) \in Nat /\ Len(r) \in Nat /\ Len(r) <= Len(p) BY <3>1, <4>2, PrefixIs, LenProperties DEF Path
      <4>7. p \in Seq(Segment) /\ r \in Seq(Segment) BY <4>2 DEF Path
      <4>8. Len(p) <= Len(r) BY <4>5, <4>7, PrefixIs
      <4> QED BY <3>1, <4>7, <4>8, PrefixAsLong
    <3>2. p \in missing BY <1>5, <1>9, <2>2, <3>1
    <3> QED BY <3>2
  <2> QED BY <2>1, <2>2
<1> HIDE DEF covered, missing
<1>12. StageAll(tree, {}, limit, kept) = IF missing # {} THEN Thrown ELSE Staged(tree, covered, limit)
  BY <1>4, <1>6, <1>10, <1>11, StagesCovered
<1>13. StageCopy(tree, paths, limit) = IF named = {} \/ missing # {} THEN Thrown ELSE Staged(tree, covered, limit)
  BY <1>3, <1>12
<1> QED BY <1>13 DEF StagesOnce, covered, missing, named

\* stageReadonlyWorkspaceSnapshot() takes what it is to take, and no more.
THEOREM SnapshotAlwaysSkips ==
  ASSUME NEW tree, IsTree(tree), NEW skipped, NEW output, NEW limit \in Nat
  PROVE  SnapshotSkipsOutput(tree, skipped, output, limit)
<1> DEFINE E == Entries(tree)
           heads == {<<q[1]>> : q \in E}
           H == heads \ {<<n>> : n \in skipped}
           s == SetToSeq(H)
           covered == {q \in E : q[1] \notin skipped /\ ~ IsWithin(q, output)}
<1>1. E \subseteq Path /\ <<>> \notin E /\ IsFiniteSet(E) BY DEF IsTree
<1> HIDE DEF E
<1>2. ASSUME NEW q \in E PROVE q[1] \in Segment /\ Len(q) \in Nat /\ 1 <= Len(q)
  <2>1. q \in Seq(Segment) /\ q # <<>> BY <1>1 DEF Path
  <2>2. Len(q) \in Nat /\ Len(q) # 0 BY <2>1, LenProperties, EmptySeq
  <2>3. 1 \in 1..Len(q) BY <2>2
  <2> QED BY <2>1, <2>2, <2>3, ElementOfSeq
<1>3. IsFiniteSet(H)
  <2> DEFINE g == [q \in E |-> <<q[1]>>]
  <2>1. g \in Surjection(E, heads) BY DEF Surjection
  <2> HIDE DEF g, heads
  <2>2. IsFiniteSet(heads) BY <1>1, <2>1, FS_Surjection
  <2> QED BY <2>2, FS_Difference
<1>4. ASSUME NEW h \in H PROVE \E a \in Segment : h = <<a>> /\ a \notin skipped BY <1>2
<1>5. ASSUME NEW q \in E, NEW a \in Segment PROVE <<a>> \in Path /\ (IsPrefix(<<a>>, q) <=> a = q[1])
  <2>1. q \in Seq(Segment) /\ 1 <= Len(q) BY <1>1, <1>2 DEF Path
  <2> QED BY <2>1, PrefixOne DEF Path
<1> HIDE DEF H, s
<1>6. Lists(s, H) BY <1>3, SetToSeqLists DEF s
<1>7. \A i \in DOMAIN s : s[i] \in H BY <1>6 DEF Lists
<1>8. s \in Seq(Path)
  <2>1. ASSUME NEW h \in H PROVE h \in Path
    <3>1. PICK a \in Segment : h = <<a>> BY <1>4
    <3> QED BY <3>1, One DEF Path
  <2> QED BY <1>6, <2>1 DEF Lists
<1>9. Apart(s)
  <2> SUFFICES ASSUME NEW i \in DOMAIN s, NEW j \in DOMAIN s, IsPrefix(s[i], s[j]) PROVE i = j BY DEF Apart
  <2>1. PICK a \in Segment : s[i] = <<a>> BY <1>4, <1>7
  <2>2. PICK b \in Segment : s[j] = <<b>> BY <1>4, <1>7
  <2>3. a = b
    <3>1. <<b>> \in Seq(Segment) /\ Len(<<b>>) = 1 /\ <<b>>[1] = b BY One
    <3>2. 1 <= Len(<<b>>) BY <3>1
    <3>3. IsPrefix(<<a>>, <<b>>) <=> a = <<b>>[1] BY <3>1, <3>2, PrefixOne
    <3> QED BY <2>1, <2>2, <3>1, <3>3
  <2> QED BY <1>6, <2>1, <2>2, <2>3 DEF Lists
<1>10. ASSUME NEW q \in E PROVE q[1] \notin skipped <=> \E i \in DOMAIN s : IsPrefix(s[i], q)
  <2>1. ASSUME q[1] \notin skipped PROVE \E i \in DOMAIN s : IsPrefix(s[i], q)
    <3>1. <<q[1]>> \in H BY <2>1 DEF H
    <3>2. PICK i \in DOMAIN s : s[i] = <<q[1]>> BY <1>6, <3>1 DEF Lists
    <3> QED BY <1>2, <1>5, <3>2
  <2>2. ASSUME NEW i \in DOMAIN s, IsPrefix(s[i], q) PROVE q[1] \notin skipped
    <3>1. PICK a \in Segment : s[i] = <<a>> /\ a \notin skipped BY <1>4, <1>7
    <3> QED BY <1>5, <2>2, <3>1
  <2> QED BY <2>1, <2>2
<1>11. covered = {q \in E : \E i \in DOMAIN s : Reaches(s[i], {output}, q)} BY <1>10 DEF Reaches
<1>12. ~ \E i \in DOMAIN s : IsMissing(tree, s[i], {output})
  <2> SUFFICES ASSUME NEW i \in DOMAIN s PROVE ~ IsMissing(tree, s[i], {output}) OBVIOUS
  <2>1. PICK q \in E : s[i] = <<q[1]>> BY <1>7 DEF H
  <2>2. IsPrefix(s[i], q) BY <1>2, <1>5, <2>1
  <2> QED BY <2>2 DEF IsMissing, E
<1>13. StageAll(tree, {output}, limit, s) = Staged(tree, covered, limit)
  <2> HIDE DEF covered
  <2> QED BY <1>8, <1>9, <1>11, <1>12, StagesCovered DEF E
<1>14. StageSnapshot(tree, skipped, output, limit) = StageAll(tree, {output}, limit, s) BY DEF StageSnapshot, s, H, E
<1> QED BY <1>13, <1>14 DEF SnapshotSkipsOutput, E

-----------------------------------------------------------------------------
\* The functions together

\* Whatever is legal to ask, the sandbox's functions keep what they promise.
THEOREM SandboxRulesAlwaysAgree == LegalSandbox => SandboxRulesAgree
<1> SUFFICES ASSUME LegalSandbox PROVE SandboxRulesAgree OBVIOUS
<1>1. ASSUME Rule("truncate") PROVE TruncatesWhole(input[2], input[3])
  BY <1>1, OutputAlwaysCutWhole DEF LegalSandbox
<1>2. ASSUME Rule("stage") PROVE StagesOnce(input[2], input[3], input[4])
  BY <1>2, CopiesAlwaysOnce DEF LegalSandbox
<1>3. ASSUME Rule("snapshot") PROVE SnapshotSkipsOutput(input[2], input[3], input[4], input[5])
  BY <1>3, SnapshotAlwaysSkips DEF LegalSandbox
<1>4. ASSUME Rule("archive") PROVE ExtractsByName(input[2], input[3])
  <2>1. IsSeq(input[2]) /\ \A e \in ToSet(input[2]) : IF IsHeader(e) THEN \A n \in e.names : IsName(n) ELSE IsName(e.name)
    BY <1>4 DEF LegalSandbox
  <2> QED BY <2>1, ArchivesAlwaysByName
<1>5. ASSUME Rule("proxy") PROVE ProxyKeepsList(input[2], input[3], input[4], input[5], input[6])
  BY <1>5, ProxyAlwaysKeepsList DEF LegalSandbox
<1>6. ASSUME Rule("ready") PROVE ReadyInTime(input[2], input[3], input[4], input[5])
  <2>1. IsSeq(input[2]) /\ (\A p \in ToSet(input[2]) : p.takes \in Nat) /\ input[3] \in Nat /\ input[4] \in Nat /\ input[5] \in Nat
    BY <1>6 DEF LegalSandbox
  <2> QED BY <2>1, ProxyAlwaysReadyInTime
<1>7. ASSUME Rule("merge") PROVE MergeKeepsAllowlist(input[2], input[3])
  BY <1>7, AllowlistAlwaysKept DEF LegalSandbox
<1>8. ASSUME Rule("usage") PROVE UsageSound(input[2], input[3], input[4])
  BY <1>8, UsageAlwaysSound DEF LegalSandbox
<1> QED BY <1>1, <1>2, <1>3, <1>4, <1>5, <1>6, <1>7, <1>8 DEF SandboxRulesAgree

-----------------------------------------------------------------------------
\* The web tools

FollowStep(c, acc, count) == FollowRedirect(c.web, c.policy, c.clock, acc, count)
FollowFold == INSTANCE Folding WITH Op <- FollowStep
WaitStep(c, n, x) == n + c[x].answers
WaitFold == INSTANCE Folding WITH Op <- WaitStep
ChunkStep(c, acc, x) == ReadChunk(c, acc, x)
ChunkFold == INSTANCE Folding WITH Op <- ChunkStep
SumStep(c, n, x) == n + x
SumFold == INSTANCE Folding WITH Op <- SumStep
LookStep(c, acc, h) == LookAt(c.limit, c.policy, c.clock, acc, h)
LookFold == INSTANCE Folding WITH Op <- LookStep

\* Addresses

\* Two octets are in the number that is made of them.
Word(a, b) == a * 256 + b

LEMMA OctetsOf ==
  ASSUME NEW a \in 0..255, NEW b \in 0..255
  PROVE  Word(a, b) \div 256 = a /\ Word(a, b) % 256 = b
BY SMTT(30) DEF Word

\* parseIpv4MappedIpv6() gives an address back as it was, in either form.
THEOREM MappedAlwaysAsItself == ASSUME NEW o \in [1..4 -> 0..255] PROVE MappedAsItself(o)
<1> SUFFICES ASSUME NEW w \in {"dots", "hex"}
             PROVE  IsImplicitlyBlockedHost([mapped |-> o, written |-> w]) = IsImplicitlyBlockedHost([v4 |-> o])
  BY DEF MappedAsItself
<1> DEFINE host == [mapped |-> o, written |-> w]
           plain == [v4 |-> o]
           high == o[1] * 256 + o[2]
           low == o[3] * 256 + o[4]
           hex == <<high \div 256, high % 256, low \div 256, low % 256>>
<1>1. DOMAIN host = {"mapped", "written"} /\ DOMAIN plain = {"v4"} OBVIOUS
<1>2. o[1] \in 0..255 /\ o[2] \in 0..255 /\ o[3] \in 0..255 /\ o[4] \in 0..255 OBVIOUS
<1>3. hex[1] = o[1] /\ hex[2] = o[2] /\ hex[3] = o[3]
  <2>1. high = Word(o[1], o[2]) /\ low = Word(o[3], o[4]) BY DEF Word
  <2>2. high \div 256 = o[1] /\ high % 256 = o[2] /\ low \div 256 = o[3]
    <3> HIDE DEF host, plain, hex, high, low
    <3>1. Word(o[1], o[2]) \div 256 = o[1] BY <1>2, OctetsOf
    <3>2. Word(o[1], o[2]) % 256 = o[2] BY <1>2, OctetsOf
    <3>3. Word(o[3], o[4]) \div 256 = o[3]
      <4>1. o[3] \in 0..255 /\ o[4] \in 0..255 OBVIOUS
      <4> QED BY <4>1, OctetsOf
    <3> QED BY <2>1, <3>1, <3>2, <3>3
  <2> HIDE DEF high, low
  <2> QED BY <2>2
<1>4. IsPrivateIpv4(hex) <=> IsPrivateIpv4(o)
  <2> HIDE DEF hex
  <2> QED BY <1>3 DEF IsPrivateIpv4
<1>5. IsImplicitlyBlockedHost(plain) <=> IsPrivateIpv4(o)
  <2>1. plain.v4 = o OBVIOUS
  <2> HIDE DEF plain
  <2> QED BY <1>1, <2>1 DEF IsImplicitlyBlockedHost
<1>6. IsImplicitlyBlockedHost(host) <=> IsPrivateIpv6(host)
  <2> HIDE DEF host
  <2> QED BY <1>1 DEF IsImplicitlyBlockedHost
<1>7. ParseIpv4MappedIpv6(host) = IF w = "dots" THEN <<o>> ELSE <<hex>>
  <2>1. host.mapped = o /\ host.written = w OBVIOUS
  <2> HIDE DEF host
  <2> QED BY <1>1, <2>1 DEF ParseIpv4MappedIpv6
<1>8. IsPrivateIpv6(host) <=> IsPrivateIpv4(o)
  <2> DEFINE four == ParseIpv4MappedIpv6(host)
  <2>1. four # <<>> /\ (four[1] = o \/ four[1] = hex) BY <1>7
  <2> HIDE DEF host, hex, four
  <2>2. IsPrivateIpv6(host) <=> IsPrivateIpv4(four[1]) BY <2>1 DEF IsPrivateIpv6, four
  <2> QED BY <1>4, <2>1, <2>2
<1>9. IsImplicitlyBlockedHost(host) <=> IsImplicitlyBlockedHost(plain) BY <1>5, <1>6, <1>8
<1>10. IsImplicitlyBlockedHost(host) \in BOOLEAN /\ IsImplicitlyBlockedHost(plain) \in BOOLEAN
  BY DEF IsImplicitlyBlockedHost
<1> QED BY <1>9, <1>10

-----------------------------------------------------------------------------
\* The text that is kept

\* What has been read of a text of which sum has come.
ReadOf(sum, acc) ==
  \E length \in Nat, truncated \in BOOLEAN :
    acc = [length |-> length, truncated |-> truncated] /\ (~ truncated => length = sum)

LEMMA LimitIsNat == ASSUME NEW most \in Nat PROVE GetRawContentCharLimit(most) \in Nat
BY DEF GetRawContentCharLimit, Min2, Max2, MaxRawContentChars

LEMMA ReadsChunk ==
  ASSUME NEW most \in Nat, NEW sum \in Nat, NEW c \in Nat, NEW acc, ReadOf(sum, acc)
  PROVE  ReadOf(sum + c, ReadChunk(most, acc, c))
<1>1. PICK length \in Nat, truncated \in BOOLEAN :
        acc = [length |-> length, truncated |-> truncated] /\ (~ truncated => length = sum)
  BY DEF ReadOf
<1> DEFINE limit == GetRawContentCharLimit(most)
<1>2. limit \in Nat BY LimitIsNat
<1>3. CASE truncated
  BY <1>1, <1>3 DEF ReadChunk, ReadOf
<1>4. CASE ~ truncated
  <2>1. ReadChunk(most, acc, c) = [length |-> Min2(length + c, limit), truncated |-> length + c > limit]
    BY <1>1, <1>4 DEF ReadChunk
  <2> HIDE DEF limit
  <2>2. Min2(length + c, limit) \in Nat /\ (length + c > limit) \in BOOLEAN BY <1>2 DEF Min2
  <2>3. ~ (length + c > limit) => Min2(length + c, limit) = sum + c BY <1>1, <1>2, <1>4 DEF Min2
  <2> QED BY <2>1, <2>2, <2>3 DEF ReadOf
<1> QED BY <1>3, <1>4

\* A text that is not said to be cut is whole.
LEMMA ReadsWhole ==
  ASSUME NEW chunks, IsSeq(chunks), \A i \in DOMAIN chunks : chunks[i] \in Nat, NEW most \in Nat
  PROVE  Whole(chunks) \in Nat /\ ReadOf(Whole(chunks), ReadResponseText(chunks, most))
<1> DEFINE n == Len(chunks)
           start == [length |-> 0, truncated |-> FALSE]
<1>0. n \in Nat /\ DOMAIN chunks = 1..n BY DEF IsSeq
<1>1. Whole(chunks) = SumFold!Fold(<<>>, 0, chunks)
  BY DEF Whole, SumFold!Fold, SumStep, FoldLeft, MapThenFoldSet, Max, SumFold!Max
<1>2. ReadResponseText(chunks, most) = ChunkFold!Fold(most, start, chunks)
  BY DEF ReadResponseText, ChunkFold!Fold, ChunkStep, FoldLeft, MapThenFoldSet, Max, ChunkFold!Max
<1> HIDE DEF n, start
<1>3. PICK f : SumFold!Goes(<<>>, 0, chunks, n, f) BY <1>0, SumFold!FoldIsRun
<1>4. PICK g : ChunkFold!Goes(most, start, chunks, n, g) BY <1>0, ChunkFold!FoldIsRun
<1> DEFINE T == {k \in Nat : k <= n => f[k] \in Nat /\ ReadOf(f[k], g[k])}
<1>5. 0 \in T
  <2>1. f[0] = 0 /\ g[0] = start BY <1>3, <1>4 DEF SumFold!Goes, ChunkFold!Goes
  <2>2. ReadOf(0, start) BY DEF ReadOf, start
  <2> QED BY <2>1, <2>2
<1>6. ASSUME NEW k \in Nat, k \in T PROVE k + 1 \in T
  <2> SUFFICES ASSUME k + 1 <= n PROVE f[k + 1] \in Nat /\ ReadOf(f[k + 1], g[k + 1]) OBVIOUS
  <2>1. k + 1 \in 1..n /\ k + 1 - 1 = k BY <1>0
  <2>2. f[k + 1] = f[k] + chunks[k + 1] BY <1>3, <2>1 DEF SumFold!Goes, SumStep
  <2>3. g[k + 1] = ReadChunk(most, g[k], chunks[k + 1]) BY <1>4, <2>1 DEF ChunkFold!Goes, ChunkStep
  <2>4. chunks[k + 1] \in Nat BY <1>0, <2>1
  <2>5. f[k] \in Nat /\ ReadOf(f[k], g[k]) BY <1>0, <1>6
  <2>6. ReadOf(f[k] + chunks[k + 1], ReadChunk(most, g[k], chunks[k + 1])) BY <2>4, <2>5, ReadsChunk
  <2>7. f[k] + chunks[k + 1] \in Nat BY <2>4, <2>5
  <2> QED BY <2>2, <2>3, <2>6, <2>7
<1>7. n \in T
  <2> HIDE DEF T
  <2> QED BY <1>0, <1>5, <1>6, SumFold!Induction
<1> QED BY <1>0, <1>1, <1>2, <1>3, <1>4, <1>7 DEF SumFold!Goes, ChunkFold!Goes

LEMMA TextKept ==
  ASSUME NEW site, IsSeq(site.chunks), \A i \in DOMAIN site.chunks : site.chunks[i] \in Nat, NEW most \in Nat,
         ~ Refused(NormalizeResponseBody(site, most))
  PROVE  LET body == NormalizeResponseBody(site, most)
         IN body.length <= most /\ (~ body.truncated => body.length = Normalized(site.type, Whole(site.chunks)))
<1> DEFINE raw == ReadResponseText(site.chunks, most)
           sum == Whole(site.chunks)
           shown == Normalized(site.type, raw.length)
           body == NormalizeResponseBody(site, most)
<1>1. sum \in Nat /\ ReadOf(sum, raw) BY ReadsWhole
<1>2. PICK length \in Nat, truncated \in BOOLEAN :
        raw = [length |-> length, truncated |-> truncated] /\ (~ truncated => length = sum)
  BY <1>1 DEF ReadOf
<1>3. site.type # "binary" BY DEF NormalizeResponseBody, Refused, Other
<1>4. body = [length |-> Min2(shown, most), truncated |-> truncated \/ shown > most]
  <2>1. raw.truncated = truncated BY <1>2
  <2>2. body = [length |-> ClampContent(shown, most).length, truncated |-> raw.truncated \/ ClampContent(shown, most).truncated]
    <3> HIDE DEF raw, shown
    <3> QED BY <1>3 DEF NormalizeResponseBody, raw, shown
  <2> HIDE DEF raw, shown, body
  <2> QED BY <2>1, <2>2 DEF ClampContent
<1>5. shown = Normalized(site.type, length) BY <1>2
<1>6. shown \in Int
  <2>1. length \div 30 \in Int /\ length * 2 \in Int OBVIOUS
  <2> HIDE DEF shown
  <2> QED BY <1>5, <2>1 DEF Normalized
<1> HIDE DEF raw, sum, shown, body
<1>7. body.length <= most BY <1>4, <1>6 DEF Min2
<1>8. ASSUME ~ body.truncated PROVE body.length = Normalized(site.type, sum)
  <2>1. ~ truncated /\ ~ (shown > most) BY <1>4, <1>8
  <2>2. body.length = shown BY <1>4, <1>6, <2>1 DEF Min2
  <2> QED BY <1>2, <1>5, <2>1, <2>2
<1> QED BY <1>7, <1>8 DEF body, sum

-----------------------------------------------------------------------------
\* Redirects

AreSites(web) == \A x \in DOMAIN web : IsSite(web, web[x])

\* Where a fetch is after k turns of its loop: it has been refused, goes on to a
\* name that the policy lets through, or has come to its answer.
IsPath(web, name, policy, reached) ==
  /\ reached \in Seq(DOMAIN web)
  /\ \A i \in 1..Len(reached) : Reachable(web[reached[i]], policy)
  /\ \A i \in 1..Len(reached) - 1 : reached[i + 1] = web[reached[i]].location[1]
  /\ reached # <<>> => reached[1] = name

GoesTo(web, name, policy, reached, here, k) ==
  /\ Len(reached) = k /\ k <= MaxRedirects
  /\ AssertAllowedUrl(web[here].url, policy)
  /\ here = IF reached = <<>> THEN name ELSE web[Last(reached)].location[1]

HasCome(clock, reached, here, at, k) == Len(reached) \in 1..k /\ Last(reached) = here /\ at < CutAt(clock)

FollowOf(web, name, policy, clock, k, acc) ==
  \/ acc = WhyCut(clock) \/ acc = Other
  \/ \E here \in DOMAIN web, at \in Nat, reached \in Seq(DOMAIN web), goes \in BOOLEAN :
       /\ acc = [name |-> here, at |-> at, reached |-> reached, goes |-> goes]
       /\ IsPath(web, name, policy, reached)
       /\ Waited(web, reached) \in Nat /\ Waited(web, reached) <= at
       /\ IF goes THEN GoesTo(web, name, policy, reached, here, k) ELSE HasCome(clock, reached, here, at, k)

LEMMA WaitedOnce ==
  ASSUME NEW web, NEW names, IsSeq(names), NEW x
  PROVE  Waited(web, Append(names, x)) = Waited(web, names) + web[x].answers
<1> DEFINE more == Append(names, x)
           n == Len(names)
<1>1. n \in Nat /\ DOMAIN names = 1..n BY DEF IsSeq
<1>2. DOMAIN more = 1..(n + 1) /\ more[n + 1] = x /\ \A i \in 1..n : more[i] = names[i] BY DEF IsSeq
<1>3. Waited(web, names) = WaitFold!Fold(web, 0, names)
  BY DEF Waited, WaitFold!Fold, WaitStep, FoldLeft, MapThenFoldSet, Max, WaitFold!Max
<1>4. Waited(web, more) = WaitFold!Fold(web, 0, more)
  BY DEF Waited, WaitFold!Fold, WaitStep, FoldLeft, MapThenFoldSet, Max, WaitFold!Max
<1> HIDE DEF more, n
<1>5. WaitFold!Fold(web, 0, more) = WaitStep(web, WaitFold!Fold(web, 0, names), more[n + 1])
  BY <1>1, <1>2, WaitFold!FoldGoesOn
<1> QED BY <1>2, <1>3, <1>4, <1>5 DEF WaitStep, more

\* A host whose URL and whose addresses the policy lets through is reachable.
LEMMA LetThrough ==
  ASSUME NEW site, NEW policy, AssertAllowedUrl(site.url, policy),
         AssertResolvedUrlAllowed(site.url, site.resolution, policy)
  PROVE  Reachable(site, policy)
BY DEF Reachable, AssertResolvedUrlAllowed

LEMMA CutIsNotGoing == ASSUME NEW clock PROVE Refused(WhyCut(clock)) /\ Refused(Other)
BY DEF Refused, WhyCut, Other

LEMMA OneMore ==
  ASSUME NEW S, NEW s \in Seq(S), NEW x \in S
  PROVE  /\ Append(s, x) \in Seq(S) /\ Len(Append(s, x)) = Len(s) + 1
         /\ Last(Append(s, x)) = x /\ Append(s, x) # <<>>
BY DEF Last

LEMMA FollowsRedirect ==
  ASSUME NEW web, NEW name \in DOMAIN web, NEW policy, NEW clock, IsClock(clock), AreSites(web),
         NEW k \in Nat, k <= MaxRedirects, NEW acc, FollowOf(web, name, policy, clock, k, acc)
  PROVE  FollowOf(web, name, policy, clock, k + 1, FollowRedirect(web, policy, clock, acc, k))
<1> DEFINE turn == FollowRedirect(web, policy, clock, acc, k)
<1>1. CASE acc = WhyCut(clock) \/ acc = Other
  <2>1. turn = acc BY <1>1, CutIsNotGoing DEF FollowRedirect
  <2> QED BY <1>1, <2>1 DEF FollowOf
<1>2. CASE ~ (acc = WhyCut(clock) \/ acc = Other)
  <2>1. PICK here \in DOMAIN web, at \in Nat, reached \in Seq(DOMAIN web), goes \in BOOLEAN :
          /\ acc = [name |-> here, at |-> at, reached |-> reached, goes |-> goes]
          /\ IsPath(web, name, policy, reached)
          /\ Waited(web, reached) \in Nat /\ Waited(web, reached) <= at
          /\ IF goes THEN GoesTo(web, name, policy, reached, here, k) ELSE HasCome(clock, reached, here, at, k)
    BY <1>2 DEF FollowOf
  <2>2. acc.name = here /\ acc.at = at /\ acc.reached = reached /\ acc.goes = goes /\ ~ Refused(acc) BY <2>1 DEF Refused
  <2>3. CASE ~ goes
    <3>1. turn = acc BY <2>2, <2>3 DEF FollowRedirect
    <3>2. HasCome(clock, reached, here, at, k + 1) BY <2>1, <2>3 DEF HasCome
    <3> HIDE DEF turn
    <3> QED BY <2>1, <2>3, <3>1, <3>2 DEF FollowOf, turn
  <2>4. CASE goes
    <3> DEFINE site == web[here]
               wait == IF policy.private \/ "name" \notin DOMAIN site.url.host THEN 0 ELSE site.resolves
               done == at + wait + site.answers
               further == Append(reached, here)
               next == site.location[1]
    <3>1. GoesTo(web, name, policy, reached, here, k) BY <2>1, <2>4
    <3>2. IsSite(web, site) BY DEF AreSites
    <3>3. wait \in Nat /\ site.answers \in Nat /\ done \in Nat BY <3>2 DEF IsSite
    <3>4. turn = IF wait > 0 /\ ~ ResolveWithAbort(at, wait, clock) THEN WhyCut(clock)
                 ELSE IF ~ AssertResolvedUrlAllowed(site.url, site.resolution, policy) THEN Other
                 ELSE IF done >= CutAt(clock) THEN WhyCut(clock)
                 ELSE IF site.status # "redirect" THEN [name |-> here, at |-> done, reached |-> further, goes |-> FALSE]
                 ELSE IF k = MaxRedirects \/ site.location = <<>> \/ ~ AssertAllowedUrl(web[next].url, policy) THEN Other
                 ELSE [name |-> next, at |-> done, reached |-> further, goes |-> TRUE]
      BY <2>2, <2>4 DEF FollowRedirect
    <3>5. further \in Seq(DOMAIN web) /\ Len(further) = Len(reached) + 1 /\ Last(further) = here /\ further # <<>>
      BY OneMore
    <3>6. CutAt(clock) \in Nat BY DEF CutAt, IsClock, Min2
    <3> HIDE DEF turn, site, wait, done, further, next
    <3>7. CASE turn = WhyCut(clock) \/ turn = Other BY <3>7 DEF FollowOf, turn
    <3>8. CASE ~ (turn = WhyCut(clock) \/ turn = Other)
      <4>1. AssertResolvedUrlAllowed(site.url, site.resolution, policy) /\ done < CutAt(clock) BY <3>3, <3>4, <3>6, <3>8
      <4>2. Reachable(web[here], policy) BY <3>1, <4>1, LetThrough DEF GoesTo, site
      <4>3. IsPath(web, name, policy, further)
        <5>1. \A i \in 1..Len(further) : Reachable(web[further[i]], policy)
          BY <2>1, <3>5, <4>2 DEF IsPath, further
        <5>2. ASSUME NEW i \in 1..Len(further) - 1 PROVE further[i + 1] = web[further[i]].location[1]
          <6>1. CASE i < Len(reached)
            <7>1. i \in 1..Len(reached) - 1 /\ further[i] = reached[i] /\ further[i + 1] = reached[i + 1]
              BY <6>1, <3>5 DEF further
            <7> QED BY <2>1, <7>1 DEF IsPath
          <6>2. CASE i = Len(reached)
            <7>1. reached # <<>> /\ further[i] = Last(reached) /\ further[i + 1] = here BY <6>2, <3>5 DEF further, Last
            <7> QED BY <3>1, <7>1 DEF GoesTo
          <6> QED BY <3>5, <6>1, <6>2
        <5>3. further[1] = name
          <6>1. CASE reached = <<>> BY <3>1, <6>1 DEF GoesTo, further
          <6>2. CASE reached # <<>> BY <2>1, <6>2 DEF IsPath, further
          <6> QED BY <6>1, <6>2
        <5> QED BY <3>5, <5>1, <5>2, <5>3 DEF IsPath
      <4>4. Waited(web, further) \in Nat /\ Waited(web, further) <= done
        <5>1. IsSeq(reached) BY DEF IsSeq
        <5>2. Waited(web, further) = Waited(web, reached) + site.answers BY <5>1, WaitedOnce DEF further, site
        <5>3. done = at + wait + site.answers BY DEF done
        <5> QED BY <2>1, <3>3, <5>2, <5>3
      <4>5. Len(reached) = k BY <3>1 DEF GoesTo
      <4>6. CASE turn = [name |-> here, at |-> done, reached |-> further, goes |-> FALSE]
        <5>1. HasCome(clock, further, here, done, k + 1) BY <3>5, <4>1, <4>5 DEF HasCome
        <5> QED BY <3>3, <3>5, <4>3, <4>4, <4>6, <5>1 DEF FollowOf, turn
      <4>7. CASE ~ (turn = [name |-> here, at |-> done, reached |-> further, goes |-> FALSE])
        <5>1. /\ turn = [name |-> next, at |-> done, reached |-> further, goes |-> TRUE]
              /\ k # MaxRedirects /\ site.location # <<>> /\ AssertAllowedUrl(web[next].url, policy)
          BY <3>4, <3>8, <4>7
        <5>2. next \in DOMAIN web BY <3>2, <5>1 DEF IsSite, next
        <5>3. next = web[Last(further)].location[1] BY <3>5 DEF next, site
        <5>4. GoesTo(web, name, policy, further, next, k + 1)
          BY <3>5, <4>5, <5>1, <5>3 DEF GoesTo, MaxRedirects
        <5> QED BY <3>3, <3>5, <4>3, <4>4, <5>1, <5>2, <5>4 DEF FollowOf, turn
      <4> QED BY <4>6, <4>7
    <3> QED BY <3>7, <3>8
  <2> QED BY <2>3, <2>4
<1> QED BY <1>1, <1>2

\* A fetch is refused, or comes to an answer after hosts that the policy lets through.
LEMMA FetchFollows ==
  ASSUME NEW web, NEW name \in DOMAIN web, NEW policy, NEW clock, IsClock(clock), AreSites(web),
         AssertAllowedUrl(web[name].url, policy)
  PROVE  FollowOf(web, name, policy, clock, MaxRedirects + 1, FetchWithRedirects(web, name, policy, clock))
<1> DEFINE c == [web |-> web, policy |-> policy, clock |-> clock]
           start == [name |-> name, at |-> 0, reached |-> <<>>, goes |-> TRUE]
           counts == [i \in 1..MaxRedirects + 1 |-> i - 1]
           n == MaxRedirects + 1
<1>0. n = 6 /\ n \in Nat /\ DOMAIN counts = 1..n BY DEF MaxRedirects
<1>1. FetchWithRedirects(web, name, policy, clock) = FollowFold!Fold(c, start, counts)
  BY DEF FetchWithRedirects, FollowFold!Fold, FollowStep, FoldLeft, MapThenFoldSet, Max, FollowFold!Max
<1>c. c.web = web /\ c.policy = policy /\ c.clock = clock OBVIOUS
<1>d. \A i \in 1..n : counts[i] = i - 1 OBVIOUS
<1> HIDE DEF c, start, counts, n
<1>2. PICK f : FollowFold!Goes(c, start, counts, n, f) BY <1>0, FollowFold!FoldIsRun
<1> DEFINE T == {k \in Nat : k <= n => FollowOf(web, name, policy, clock, k, f[k])}
<1>3. 0 \in T
  <2>1. f[0] = start BY <1>2 DEF FollowFold!Goes
  <2>2. Waited(web, <<>>) = 0
    <3>1. Waited(web, <<>>) = WaitFold!Fold(web, 0, <<>>)
      BY DEF Waited, WaitFold!Fold, WaitStep, FoldLeft, MapThenFoldSet, Max, WaitFold!Max
    <3> QED BY <3>1, WaitFold!FoldOfNone
  <2>3. IsPath(web, name, policy, <<>>) BY DEF IsPath
  <2>4. GoesTo(web, name, policy, <<>>, name, 0) BY DEF GoesTo, MaxRedirects
  <2>5. <<>> \in Seq(DOMAIN web) OBVIOUS
  <2>6. FollowOf(web, name, policy, clock, 0, start)
    <3>1. start = [name |-> name, at |-> 0, reached |-> <<>>, goes |-> TRUE] BY DEF start
    <3>2. 0 \in Nat /\ TRUE \in BOOLEAN /\ Waited(web, <<>>) \in Nat /\ Waited(web, <<>>) <= 0 BY <2>2
    <3> QED BY <2>3, <2>4, <2>5, <3>1, <3>2 DEF FollowOf
  <2> QED BY <2>1, <2>6
<1>4. ASSUME NEW k \in Nat, k \in T PROVE k + 1 \in T
  <2> SUFFICES ASSUME k + 1 <= n PROVE FollowOf(web, name, policy, clock, k + 1, f[k + 1]) OBVIOUS
  <2>1. k + 1 \in 1..n /\ k + 1 - 1 = k /\ k <= n /\ k <= MaxRedirects BY <1>0 DEF MaxRedirects
  <2>2. f[k + 1] = FollowRedirect(web, policy, clock, f[k], k)
    <3>1. counts[k + 1] = k BY <1>d, <2>1
    <3>2. f[k + 1] = FollowStep(c, f[k], counts[k + 1]) BY <1>2, <2>1 DEF FollowFold!Goes
    <3> QED BY <1>c, <3>1, <3>2 DEF FollowStep
  <2>3. FollowOf(web, name, policy, clock, k, f[k]) BY <1>4, <2>1
  <2> QED BY <2>1, <2>2, <2>3, FollowsRedirect
<1>5. n \in T
  <2> HIDE DEF T
  <2> QED BY <1>0, <1>3, <1>4, FollowFold!Induction
<1>6. FollowOf(web, name, policy, clock, n, f[n]) BY <1>0, <1>5
<1>7. FetchWithRedirects(web, name, policy, clock) = f[n] BY <1>1, <1>2 DEF FollowFold!Goes
<1> QED BY <1>6, <1>7 DEF n

LEMMA ContentIsNat == ASSUME NEW most \in MinContentChars..MaxContentChars PROVE most \in Nat
BY SMTT(30) DEF MinContentChars, MaxContentChars

LEMMA MoreThanOne ==
  ASSUME NEW S, NEW s \in Seq(S), Len(s) \in 1..MaxRedirects + 1, NEW n, s[1] = n
  PROVE  Len(s) > 1 <=> s # <<n>>
<1>1. CASE Len(s) > 1
  <2>1. ASSUME s = <<n>> PROVE FALSE
    <3>1. Len(s) = 1 BY <2>1
    <3> QED BY <1>1, <3>1
  <2> QED BY <1>1, <2>1
<1>2. CASE ~ (Len(s) > 1)
  <2>1. Len(s) = 1 BY <1>2 DEF MaxRedirects
  <2>2. s = <<n>> BY <2>1
  <2> QED BY <1>2, <2>2
<1> QED BY <1>1, <1>2

\* fetchPublicUrl() reaches what its policy lets through, in its time, and says what
\* of the text is missing.
THEOREM FetchAlwaysGuarded ==
  ASSUME NEW web, NEW request, NEW policy, NEW clock, IsClock(clock), AreSites(web),
         request.name \in DOMAIN web, request.maxChars \in Int
  PROVE  FetchGuarded(web, request, policy, clock)
<1> DEFINE r == FetchWithRedirects(web, request.name, policy, clock)
           body == NormalizeResponseBody(web[r.name], request.maxChars)
           told == Fetch(web, request, policy, clock)
           Cut == told = WhyCut(clock) \/ told = Other
           answer == [name |-> r.name, reached |-> r.reached, redirected |-> Len(r.reached) > 1,
                      length |-> body.length, truncated |-> body.truncated]
<1>1. CASE Cut
  <2>1. Refused(told) BY <1>1, CutIsNotGoing
  <2>2. (told.refused = "timeout" => DidTimeout(clock)) /\ (told.exhausted <=> told.refused = "timeout")
    <3> HIDE DEF told
    <3>1. CASE told = WhyCut(clock) /\ DidTimeout(clock)
      <4>1. told.refused = "timeout" /\ told.exhausted BY <3>1 DEF WhyCut
      <4> QED BY <3>1, <4>1
    <3>2. CASE told = WhyCut(clock) /\ ~ DidTimeout(clock)
      <4>1. told.refused = "other" /\ ~ told.exhausted BY <3>2 DEF WhyCut
      <4> QED BY <4>1
    <3>3. CASE told = Other
      <4>1. told.refused = "other" /\ ~ told.exhausted BY <3>3 DEF Other
      <4> QED BY <4>1
    <3> QED BY <1>1, <3>1, <3>2, <3>3
  <2> HIDE DEF told
  <2> QED BY <2>1, <2>2 DEF FetchGuarded, told
<1>2. CASE ~ Cut
  <2>0. Refused(Other) BY CutIsNotGoing
  <2>1. AssertAllowedUrl(web[request.name].url, policy) /\ request.maxChars \in MinContentChars..MaxContentChars
    <3> HIDE DEF r, body
    <3> QED BY <1>2 DEF Fetch, r, body
  <2>2. FollowOf(web, request.name, policy, clock, MaxRedirects + 1, r) BY <2>1, FetchFollows
  <2> HIDE DEF r, body
  <2>3. told = IF Refused(r) THEN r ELSE IF web[r.name].status # "ok" \/ Refused(body) THEN Other ELSE answer
    BY <2>1 DEF Fetch, r, body
  <2> HIDE DEF told, answer, Cut
  <2>4. ~ (r = WhyCut(clock) \/ r = Other) BY <1>2, <2>3, CutIsNotGoing DEF Cut
  <2>5. PICK here \in DOMAIN web, at \in Nat, reached \in Seq(DOMAIN web), goes \in BOOLEAN :
          /\ r = [name |-> here, at |-> at, reached |-> reached, goes |-> goes]
          /\ IsPath(web, request.name, policy, reached)
          /\ Waited(web, reached) \in Nat /\ Waited(web, reached) <= at
          /\ IF goes THEN GoesTo(web, request.name, policy, reached, here, MaxRedirects + 1)
                     ELSE HasCome(clock, reached, here, at, MaxRedirects + 1)
    BY <2>2, <2>4 DEF FollowOf
  <2>6. ~ goes /\ HasCome(clock, reached, here, at, MaxRedirects + 1) BY <2>5 DEF GoesTo, MaxRedirects
  <2>7. r.name = here /\ r.reached = reached /\ ~ Refused(r) BY <2>5 DEF Refused
  <2>8. ~ Refused(body) /\ told = answer BY <1>2, <2>3, <2>7 DEF Cut
  <2>9. Len(reached) \in 1..MaxRedirects + 1 /\ Last(reached) = here /\ at < CutAt(clock) BY <2>6 DEF HasCome
  <2>10. Waited(web, reached) < CutAt(clock)
    <3>1. CutAt(clock) \in Nat BY DEF CutAt, IsClock, Min2
    <3> QED BY <2>5, <2>9, <3>1
  <2>11. reached[1] = request.name /\ reached # <<>> BY <2>5, <2>9 DEF IsPath
  <2>12. body.length <= request.maxChars
         /\ (~ body.truncated => body.length = Normalized(web[here].type, Whole(web[here].chunks)))
    <3>1. IsSite(web, web[here]) BY DEF AreSites
    <3>2. request.maxChars \in Nat BY <2>1, ContentIsNat
    <3>3. body = NormalizeResponseBody(web[here], request.maxChars) BY <2>7 DEF body
    <3> QED BY <2>8, <3>1, <3>2, <3>3, TextKept DEF IsSite
  <2>13. /\ told.name = here /\ told.reached = reached /\ told.redirected = (Len(reached) > 1)
         /\ told.length = body.length /\ told.truncated = body.truncated /\ ~ Refused(told)
    BY <2>7, <2>8 DEF answer, Refused
  <2>14. told.redirected <=> reached # <<request.name>> BY <2>9, <2>11, <2>13, MoreThanOne
  <2>15. DOMAIN reached = 1..Len(reached) OBVIOUS
  <2>16. \A i \in DOMAIN reached : Reachable(web[reached[i]], policy) BY <2>5, <2>15 DEF IsPath
  <2>17. \A i \in 1..Len(reached) - 1 : reached[i + 1] = web[reached[i]].location[1] BY <2>5 DEF IsPath
  <2> QED BY <2>9, <2>10, <2>11, <2>12, <2>13, <2>14, <2>16, <2>17 DEF FetchGuarded, told
<1> QED BY <1>1, <1>2

-----------------------------------------------------------------------------
\* Hits

Told(hits, policy, n) == {i \in 1..n : MayBeTold(hits[i], policy)}
Place(T, i) == Cardinality({j \in T : j <= i})

\* The results are the hits that may be told of the first n, in their places.
AreTold(hits, policy, n, results) ==
  /\ Len(results) = Cardinality(Told(hits, policy, n))
  /\ \A i \in Told(hits, policy, n) : results[Place(Told(hits, policy, n), i)] = hits[i]

\* Where a search is after k hits.
LooksOf(hits, limit, policy, clock, k, acc) ==
  \/ acc = WhyCut(clock) \/ acc = Other
  \/ \E results \in Seq({hits[i] : i \in DOMAIN hits}), filtered \in Nat : \E at :
       /\ acc = [results |-> results, filtered |-> filtered, at |-> at]
       /\ Len(results) <= limit /\ Len(results) + filtered <= k
       /\ Len(results) < limit => Len(results) + filtered = k
       /\ AreTold(hits, policy, Len(results) + filtered, results)

LEMMA ToldIsFinite ==
  ASSUME NEW hits, NEW policy, NEW n \in Nat, NEW i
  PROVE  LET T == Told(hits, policy, n) IN
           IsFiniteSet(T) /\ Cardinality(T) \in Nat /\ (i \in T => Place(T, i) \in 1..Cardinality(T))
<1> DEFINE T == Told(hits, policy, n)
           upto == {j \in T : j <= i}
<1>1. T \subseteq 1..n BY DEF Told
<1>a. IsFiniteSet(1..n) BY FS_Interval
<1>2. IsFiniteSet(T) /\ Cardinality(T) \in Nat BY <1>1, <1>a, FS_Subset, FS_CardinalityType
<1>3. IsFiniteSet(upto) /\ Cardinality(upto) <= Cardinality(T) /\ Cardinality(upto) \in Nat
  BY <1>2, FS_Subset, FS_CardinalityType
<1>4. ASSUME i \in T PROVE Cardinality(upto) \in 1..Cardinality(T)
  <2>1. i \in upto BY <1>1, <1>4
  <2>2. Cardinality(upto) # 0 BY <1>3, <2>1, FS_EmptySet
  <2> QED BY <1>2, <1>3, <2>2
<1> QED BY <1>2, <1>4 DEF Place

LEMMA OneMoreTold ==
  ASSUME NEW hits, NEW policy, NEW n \in Nat, NEW results \in Seq({hits[i] : i \in DOMAIN hits}),
         n + 1 \in DOMAIN hits, AreTold(hits, policy, n, results), MayBeTold(hits[n + 1], policy)
  PROVE  AreTold(hits, policy, n + 1, Append(results, hits[n + 1]))
<1> DEFINE T == Told(hits, policy, n)
           U == Told(hits, policy, n + 1)
           more == Append(results, hits[n + 1])
<1>1. U = T \cup {n + 1} /\ n + 1 \notin T /\ T \subseteq 1..n BY DEF Told
<1>2. IsFiniteSet(T) /\ Cardinality(T) \in Nat /\ \A i \in T : Place(T, i) \in 1..Cardinality(T) BY ToldIsFinite
<1>3. Cardinality(U) = Cardinality(T) + 1 BY <1>1, <1>2, FS_AddElement
<1>4. Len(results) = Cardinality(T) /\ \A i \in T : results[Place(T, i)] = hits[i] BY DEF AreTold
<1>5. hits[n + 1] \in {hits[i] : i \in DOMAIN hits} OBVIOUS
<1>6. Len(more) = Cardinality(U) BY <1>3, <1>4, <1>5
<1>7. ASSUME NEW i \in U PROVE more[Place(U, i)] = hits[i]
  <2>1. CASE i = n + 1
    <3>1. {j \in U : j <= i} = U BY <1>1, <2>1
    <3>2. Place(U, i) = Len(results) + 1 BY <1>3, <1>4, <3>1 DEF Place
    <3> QED BY <2>1, <3>2, <1>5
  <2>2. CASE i # n + 1
    <3>1. i \in T /\ i \in 1..n BY <1>1, <2>2
    <3>2. {j \in U : j <= i} = {j \in T : j <= i} BY <1>1, <3>1
    <3>3. Place(U, i) = Place(T, i) BY <3>2 DEF Place
    <3>4. Place(T, i) \in 1..Len(results) BY <1>2, <1>4, <3>1
    <3>5. more[Place(T, i)] = results[Place(T, i)] BY <3>4, <1>5
    <3> QED BY <1>4, <3>1, <3>3, <3>5
  <2> QED BY <2>1, <2>2
<1> QED BY <1>6, <1>7 DEF AreTold

LEMMA NoneMoreTold ==
  ASSUME NEW hits, NEW policy, NEW n \in Nat, NEW results,
         AreTold(hits, policy, n, results), ~ MayBeTold(hits[n + 1], policy)
  PROVE  AreTold(hits, policy, n + 1, results)
<1>1. Told(hits, policy, n + 1) = Told(hits, policy, n) BY DEF Told
<1> QED BY <1>1 DEF AreTold

LEMMA LooksFurther ==
  ASSUME NEW hits, NEW limit \in Nat, NEW policy, NEW clock, NEW k \in Nat, k + 1 \in DOMAIN hits,
         NEW acc, LooksOf(hits, limit, policy, clock, k, acc)
  PROVE  LooksOf(hits, limit, policy, clock, k + 1, LookAt(limit, policy, clock, acc, hits[k + 1]))
<1> DEFINE h == hits[k + 1]
           look == LookAt(limit, policy, clock, acc, h)
<1>1. CASE acc = WhyCut(clock) \/ acc = Other
  <2>1. look = acc BY <1>1, CutIsNotGoing DEF LookAt
  <2> QED BY <1>1, <2>1 DEF LooksOf
<1>2. CASE ~ (acc = WhyCut(clock) \/ acc = Other)
  <2>1. PICK results \in Seq({hits[i] : i \in DOMAIN hits}), filtered \in Nat : \E at :
          /\ acc = [results |-> results, filtered |-> filtered, at |-> at]
          /\ Len(results) <= limit /\ Len(results) + filtered <= k
          /\ Len(results) < limit => Len(results) + filtered = k
          /\ AreTold(hits, policy, Len(results) + filtered, results)
    BY <1>2 DEF LooksOf
  <2>2. PICK at : acc = [results |-> results, filtered |-> filtered, at |-> at] BY <2>1
  <2>3. /\ Len(results) <= limit /\ Len(results) + filtered <= k
        /\ Len(results) < limit => Len(results) + filtered = k
        /\ AreTold(hits, policy, Len(results) + filtered, results)
    BY <2>1
  <2>4. acc.results = results /\ acc.filtered = filtered /\ acc.at = at /\ ~ Refused(acc) BY <2>2 DEF Refused
  <2>5. Len(results) \in Nat OBVIOUS
  <2>6. CASE Len(results) >= limit
    <3>1. look = acc BY <2>4, <2>6 DEF LookAt
    <3>2. Len(results) + filtered <= k + 1 /\ ~ (Len(results) < limit) BY <2>3, <2>5, <2>6
    <3> HIDE DEF look
    <3> QED BY <2>2, <2>3, <3>1, <3>2 DEF LooksOf, look
  <2>7. CASE ~ (Len(results) >= limit)
    <3> DEFINE wait == IF AssertAllowedUrl(h.url, policy) /\ ~ policy.private /\ "name" \in DOMAIN h.url.host THEN h.resolves ELSE 0
               shown == [results |-> Append(results, h), filtered |-> filtered, at |-> at + wait]
               unseen == [results |-> results, filtered |-> filtered + 1, at |-> at + wait]
    <3>1. Len(results) < limit /\ Len(results) + filtered = k BY <2>3, <2>5, <2>7
    <3>2. look = IF ~ h.titled THEN Other
                 ELSE IF wait > 0 /\ ~ ResolveWithAbort(at, wait, clock) THEN WhyCut(clock)
                 ELSE IF MayBeTold(h, policy) THEN shown ELSE unseen
      BY <2>4, <2>7 DEF LookAt
    <3> HIDE DEF look, wait
    <3>3. CASE look = WhyCut(clock) \/ look = Other BY <3>3 DEF LooksOf, look
    <3>4. CASE MayBeTold(h, policy) /\ look = shown
      <4> DEFINE more == Append(results, h)
      <4>1. h \in {hits[i] : i \in DOMAIN hits} OBVIOUS
      <4>2. more \in Seq({hits[i] : i \in DOMAIN hits}) /\ Len(more) = Len(results) + 1 BY <4>1
      <4>3. Len(more) <= limit /\ Len(more) + filtered = k + 1 BY <2>5, <3>1, <4>2
      <4>4. AreTold(hits, policy, k, results) BY <2>3, <3>1
      <4>5. AreTold(hits, policy, k + 1, more) BY <3>4, <4>4, OneMoreTold
      <4>6. AreTold(hits, policy, Len(more) + filtered, more) BY <4>3, <4>5
      <4>7. Len(more) + filtered <= k + 1 BY <4>3
      <4>8. look = [results |-> more, filtered |-> filtered, at |-> at + wait] BY <3>4
      <4> HIDE DEF more, shown
      <4> QED BY <4>2, <4>3, <4>6, <4>7, <4>8 DEF LooksOf, look
    <3>5. CASE ~ MayBeTold(h, policy) /\ look = unseen
      <4>1. filtered + 1 \in Nat /\ Len(results) + (filtered + 1) = k + 1 /\ Len(results) + (filtered + 1) <= k + 1
        BY <2>5, <3>1
      <4>2. AreTold(hits, policy, k, results) BY <2>3, <3>1
      <4>3. AreTold(hits, policy, k + 1, results) BY <3>5, <4>2, NoneMoreTold
      <4>4. AreTold(hits, policy, Len(results) + (filtered + 1), results) BY <4>1, <4>3
      <4>5. look = [results |-> results, filtered |-> filtered + 1, at |-> at + wait] BY <3>5
      <4> HIDE DEF unseen
      <4> QED BY <2>3, <4>1, <4>4, <4>5 DEF LooksOf, look
    <3> QED BY <3>2, <3>3, <3>4, <3>5
  <2> QED BY <2>6, <2>7
<1> QED BY <1>1, <1>2

\* A search tells hits that may be fetched, each in its place.
THEOREM SearchAlwaysFilters ==
  ASSUME NEW hits, IsSeq(hits), NEW limit \in Int, NEW policy, NEW clock
  PROVE  SearchFilters(hits, limit, policy, clock)
<1> DEFINE r == Search(hits, limit, policy, clock, 1)
           n == Len(hits)
           start == [results |-> <<>>, filtered |-> 0, at |-> 1]
           c == [limit |-> limit, policy |-> policy, clock |-> clock]
<1> SUFFICES ASSUME ~ Refused(r)
             PROVE  LET looked == Len(r.results) + r.filtered
                        told == {i \in 1..looked : MayBeTold(hits[i], policy)}
                        Nth(i) == Cardinality({j \in told : j <= i})
                    IN /\ Len(r.results) <= limit /\ looked <= n
                       /\ Len(r.results) < limit => looked = n
                       /\ Len(r.results) = Cardinality(told) /\ \A i \in told : r.results[Nth(i)] = hits[i]
  BY DEF SearchFilters
<1>0. n \in Nat /\ DOMAIN hits = 1..n BY DEF IsSeq
<1>1. r = FoldLeft(LAMBDA acc, h : LookAt(limit, policy, clock, acc, h), start, hits)
  BY CutIsNotGoing DEF Search
<1>2. limit \in Nat
  <2>1. limit \in 1..MaxSearchLimit BY CutIsNotGoing DEF Search
  <2> HIDE DEF r, start, c
  <2> QED BY <2>1 DEF MaxSearchLimit
<1>3. r = LookFold!Fold(c, start, hits)
  BY <1>1 DEF LookFold!Fold, LookStep, FoldLeft, MapThenFoldSet, Max, LookFold!Max
<1>4. c.limit = limit /\ c.policy = policy /\ c.clock = clock OBVIOUS
<1> HIDE DEF r, n, start, c
<1>5. PICK f : LookFold!Goes(c, start, hits, n, f) BY <1>0, LookFold!FoldIsRun
<1> DEFINE T == {k \in Nat : k <= n => LooksOf(hits, limit, policy, clock, k, f[k])}
<1>6. 0 \in T
  <2>1. f[0] = start BY <1>5 DEF LookFold!Goes
  <2>2. Told(hits, policy, 0) = {} BY DEF Told
  <2>3. AreTold(hits, policy, 0, <<>>) BY <2>2, FS_EmptySet DEF AreTold
  <2>4. LooksOf(hits, limit, policy, clock, 0, start)
    <3>1. <<>> \in Seq({hits[i] : i \in DOMAIN hits}) /\ Len(<<>>) + 0 = 0 /\ Len(<<>>) <= limit BY <1>2
    <3>2. AreTold(hits, policy, Len(<<>>) + 0, <<>>) BY <2>3, <3>1
    <3>3. start = [results |-> <<>>, filtered |-> 0, at |-> 1] BY DEF start
    <3>4. 0 \in Nat /\ Len(<<>>) + 0 <= 0 OBVIOUS
    <3>5. \E results \in Seq({hits[i] : i \in DOMAIN hits}), filtered \in Nat : \E at :
            /\ start = [results |-> results, filtered |-> filtered, at |-> at]
            /\ Len(results) <= limit /\ Len(results) + filtered <= 0
            /\ Len(results) < limit => Len(results) + filtered = 0
            /\ AreTold(hits, policy, Len(results) + filtered, results)
      <4> WITNESS <<>> \in Seq({hits[i] : i \in DOMAIN hits}), 0 \in Nat
      <4> WITNESS 1
      <4> QED BY <3>1, <3>2, <3>3, <3>4
    <3> QED BY <3>5 DEF LooksOf
  <2> QED BY <2>1, <2>4
<1>7. ASSUME NEW k \in Nat, k \in T PROVE k + 1 \in T
  <2> SUFFICES ASSUME k + 1 <= n PROVE LooksOf(hits, limit, policy, clock, k + 1, f[k + 1]) OBVIOUS
  <2>1. k + 1 \in 1..n /\ k + 1 - 1 = k /\ k <= n BY <1>0
  <2>2. f[k + 1] = LookAt(limit, policy, clock, f[k], hits[k + 1])
    BY <1>4, <1>5, <2>1 DEF LookFold!Goes, LookStep
  <2>3. LooksOf(hits, limit, policy, clock, k, f[k]) BY <1>7, <2>1
  <2> QED BY <1>0, <1>2, <2>1, <2>2, <2>3, LooksFurther
<1>8. n \in T
  <2> HIDE DEF T
  <2> QED BY <1>0, <1>6, <1>7, LookFold!Induction
<1>9. LooksOf(hits, limit, policy, clock, n, r) BY <1>0, <1>3, <1>5, <1>8 DEF LookFold!Goes
<1>10. ~ (r = WhyCut(clock) \/ r = Other) BY CutIsNotGoing
<1>11. PICK results \in Seq({hits[i] : i \in DOMAIN hits}), filtered \in Nat : \E at :
         /\ r = [results |-> results, filtered |-> filtered, at |-> at]
         /\ Len(results) <= limit /\ Len(results) + filtered <= n
         /\ Len(results) < limit => Len(results) + filtered = n
         /\ AreTold(hits, policy, Len(results) + filtered, results)
  BY <1>9, <1>10 DEF LooksOf
<1>12. r.results = results /\ r.filtered = filtered BY <1>11
<1> QED BY <1>11, <1>12 DEF AreTold, Told, Place

-----------------------------------------------------------------------------
\* Every promise of WebRulesAgree, for whatever is legal.
THEOREM WebRulesAlwaysAgree == LegalWeb => WebRulesAgree
<1> SUFFICES ASSUME LegalWeb PROVE WebRulesAgree OBVIOUS
<1>1. ASSUME Rule("mapped") PROVE MappedAsItself(input[2])
  BY <1>1, MappedAlwaysAsItself DEF LegalWeb
<1>2. ASSUME Rule("fetch") PROVE FetchGuarded(input[2], input[3], input[4], input[5])
  <2>1. /\ AreSites(input[2]) /\ IsClock(input[5])
        /\ input[3].name \in DOMAIN input[2] /\ input[3].maxChars \in Int
    BY <1>2 DEF LegalWeb, AreSites
  <2> QED BY <2>1, FetchAlwaysGuarded
<1>3. ASSUME Rule("search") PROVE SearchFilters(input[2], input[3], input[4], input[5])
  BY <1>3, SearchAlwaysFilters DEF LegalWeb
<1> QED BY <1>1, <1>2, <1>3 DEF WebRulesAgree

\* The tools that reach out keep what they promise, in every behaviour that asks
\* what is legal.
THEOREM ToolKeeps == ToolSpec => []ToolRulesAgree
<1> DEFINE Legal == LegalSandbox /\ LegalWeb
<1>1. input = <<>> => Legal BY DEF LegalSandbox, LegalWeb, Rule
<1>2. Legal /\ [Legal']_input => Legal'
  <2>1. ASSUME Legal, UNCHANGED input PROVE Legal' BY <2>1 DEF LegalSandbox, LegalWeb, Rule
  <2> QED BY <2>1
<1>3. Legal => ToolRulesAgree BY SandboxRulesAlwaysAgree, WebRulesAlwaysAgree DEF ToolRulesAgree
<1> QED BY <1>1, <1>2, <1>3, PTL DEF ToolSpec
================================================================================
