---------------------------- MODULE SandboxSessions ----------------------------
(***************************************************************************)
(* Sessions of plugin-tools-terminal-sandbox (src/index.ts): the Map of    *)
(* registered sessions, and the Docker containers, networks and staging    *)
(* directories behind them.  A step is the code between two awaits.  The   *)
(* container, the proxy container and the staging directory that a call of *)
(* createSession() or run() makes are named by that call; a network is     *)
(* named by the session id, as in the code.  Docker is external: a network *)
(* name is taken once, a network with a running container on it is not     *)
(* removed, `rm --force` always removes.                                   *)
(***************************************************************************)
EXTENDS SandboxRules

CONSTANTS Calls,      \* calls made on the plugin
          Ids,        \* session ids that callers supply; nobody shares a fresh one
          Requests,   \* what a call may ask for: [kind, id, policy]
          Configured, \* the default policy of the plugin's configuration
          Faults,     \* the points where Docker or the file system may fail
          MaxLog,     \* bound: blocked attempts a proxy logs
          None

ASSUME SandboxAssumption == /\ None \notin Ids \cup Calls
                            /\ MaxLog \in Nat
                            /\ PolicyAccepted(Configured)
                            /\ \A r \in Requests : /\ PolicyAccepted(r.policy)
                                                   /\ r.kind # "destroyAll" => r.id \in Ids

VARIABLES
  pc,        \* where a call is
  op,        \* its request
  sessions,  \* the Map sessions: key -> the call that created the session
  box,       \* the container a call created
  proxy,     \* its allowlist proxy container
  net,       \* networks by name: the call that created it
  dirs,      \* staging directories on disk
  release,   \* progress of destroy() for the session a call created
  victims,   \* the sessions a call of destroy() took from the Map
  active,    \* the session an exec() captured
  cut,       \* exec() calls interrupted by their timer or by their signal
  stops,     \* stopContainer() calls nobody waits for
  result,    \* whether a call returned or rejected
  gone,      \* exec calls whose inspection found the container not running
  log,       \* per proxy: lines logged, offset read up to, lines reported
  chunk      \* the part of the log an exec is reading

docker  == <<box, proxy, net, dirs>>
execs   == <<active, cut, stops, gone, log, chunk>>
vars    == <<pc, op, sessions, docker, release, victims, result, execs>>

Key(c)    == op[c].id
Policy(r) == MergePolicy(DefaultPolicyOf(Configured), r.policy)
Fails(p)  == p \in Faults

Init ==
  /\ pc = [c \in Calls |-> "idle"]
  /\ op = [c \in Calls |-> None]
  /\ sessions = [k \in Ids |-> None]
  /\ box = [c \in Calls |-> "none"]
  /\ proxy = [c \in Calls |-> "none"]
  /\ net = [k \in Ids |-> None]
  /\ dirs = {}
  /\ release = [c \in Calls |-> "none"]
  /\ victims = [c \in Calls |-> {}]
  /\ active = [c \in Calls |-> None]
  /\ cut = {}
  /\ stops = {}
  /\ result = [c \in Calls |-> "none"]
  /\ gone = {}
  /\ log = [c \in Calls |-> [size |-> 0, offset |-> 0, reported |-> {}]]
  /\ chunk = [c \in Calls |-> {}]

Goto(c, p)   == pc' = [pc EXCEPT ![c] = p]
Settle(c, r) == /\ Goto(c, "settled") /\ result' = [result EXCEPT ![c] = r]

-----------------------------------------------------------------------------
\* createSession()

\* A failure in the try block of createSession() ends with the removal of the
\* staging directory.
GiveUp(c) == dirs' = dirs \ {c} /\ Settle(c, "rejected")

\* The id is looked up before the first await.  What follows is behind awaits
\* but reads and writes nothing of another call: the checks of the root, Docker,
\* the image and the working directory; the temporary directory and the staging
\* into it, which may fail before the try block is entered; the output
\* directory, the first await of the try block.
Create(c, r) ==
  /\ pc[c] = "idle" /\ r.kind \in {"create", "run"}
  /\ op' = [op EXCEPT ![c] = r]
  /\ \/ /\ sessions[r.id] # None \/ Fails("prepare")
        /\ Settle(c, "rejected") /\ UNCHANGED dirs
     \/ /\ sessions[r.id] = None
        /\ \/ Fails("staging") /\ Settle(c, "rejected") /\ dirs' = dirs \cup {c}
           \/ Fails("output") /\ GiveUp(c)
           \/ /\ dirs' = dirs \cup {c} /\ UNCHANGED result
              /\ Goto(c, IF Policy(r).network.mode = "allowlist" THEN "network" ELSE "container")
  /\ UNCHANGED <<sessions, box, proxy, net, release, victims, execs>>

\* Mutant: the clean-up removes a network it did not create.
CreateNetworkUndone(c) ==
  /\ pc[c] = "network"
  /\ IF net[Key(c)] # None
     THEN GiveUp(c) /\ net' = [net EXCEPT ![Key(c)] = None]
     ELSE net' = [net EXCEPT ![Key(c)] = c] /\ Goto(c, "proxy") /\ UNCHANGED <<dirs, result>>
  /\ UNCHANGED <<op, sessions, box, proxy, release, victims, execs>>

\* prepareAllowlistResources(): the internal network, by its name.
CreateNetwork(c) ==
  /\ pc[c] = "network"
  /\ \/ /\ net[Key(c)] # None \/ Fails("network")
        /\ GiveUp(c) /\ UNCHANGED net
     \/ /\ net[Key(c)] = None
        /\ net' = [net EXCEPT ![Key(c)] = c] /\ Goto(c, "proxy") /\ UNCHANGED <<dirs, result>>
  /\ UNCHANGED <<op, sessions, box, proxy, release, victims, execs>>

\* The proxy: create, connect, start, waitForAllowlistProxyReady within its
\* deadline.  Its own catch block removes the proxy, then the network.
StartProxy(c) ==
  /\ pc[c] = "proxy"
  /\ \/ /\ Fails("proxy") /\ Goto(c, "unproxy")
        /\ \E s \in {"none", "running"} : proxy' = [proxy EXCEPT ![c] = s]
     \/ proxy' = [proxy EXCEPT ![c] = "running"] /\ Goto(c, "container")
  /\ UNCHANGED <<op, sessions, box, net, dirs, release, victims, result, execs>>

UndoProxy(c) ==
  /\ pc[c] = "unproxy"
  /\ proxy' = [proxy EXCEPT ![c] = IF @ = "none" THEN @ ELSE "removed"]
  /\ net' = [net EXCEPT ![Key(c)] = None]
  /\ GiveUp(c)
  /\ UNCHANGED <<op, sessions, box, release, victims, execs>>

\* docker.createContainer and docker.startContainer.  On success the session is
\* registered, whatever the Map now holds under its id, and createSession()
\* returns; run() goes on to exec().  On failure the catch block removes the
\* container first ...
StartContainer(c) ==
  /\ pc[c] = "container"
  /\ box' = [box EXCEPT ![c] = "running"]
  /\ sessions' = [sessions EXCEPT ![Key(c)] = c]
  /\ IF op[c].kind = "run"
     THEN active' = [active EXCEPT ![c] = c] /\ Goto(c, "usage") /\ UNCHANGED result
     ELSE Settle(c, "returned") /\ UNCHANGED active
  /\ UNCHANGED <<op, proxy, net, dirs, release, victims, cut, stops, gone, log, chunk>>

Abandon(c) ==
  /\ pc[c] = "container" /\ Fails("create")
  /\ \E s \in {"none", "removed"} : box' = [box EXCEPT ![c] = s]
  /\ IF proxy[c] = "none" THEN GiveUp(c)
     ELSE Goto(c, "unallow") /\ UNCHANGED <<dirs, result>>
  /\ UNCHANGED <<op, sessions, proxy, net, release, victims, execs>>

\* Mutant: the clean-up forgets the proxy.
AbandonNetwork(c) ==
  /\ pc[c] = "unallow"
  /\ net' = [net EXCEPT ![Key(c)] = None]
  /\ GiveUp(c)
  /\ UNCHANGED <<op, sessions, box, proxy, release, victims, execs>>

\* ... then proxy and network at once: the network's removal is refused while
\* the proxy still runs.
AbandonAllowlist(c) ==
  /\ pc[c] = "unallow"
  /\ proxy' = [proxy EXCEPT ![c] = "removed"]
  /\ \/ net' = [net EXCEPT ![Key(c)] = None]
     \/ proxy[c] = "running" /\ UNCHANGED net
  /\ GiveUp(c)
  /\ UNCHANGED <<op, sessions, box, release, victims, execs>>

-----------------------------------------------------------------------------
\* destroy() and destroyAll()

\* A session is taken from the Map before the first await, so only one call
\* releases it.  exec() and run() name the session by its id.
Take(c, keys) ==
  LET taken == {sessions[k] : k \in keys} \ {None} IN
  /\ sessions' = [k \in Ids |-> IF k \in keys THEN None ELSE sessions[k]]
  /\ victims' = [victims EXCEPT ![c] = taken]
  /\ release' = [t \in Calls |-> IF t \in taken THEN "stop" ELSE release[t]]

DestroyKeys(r) ==
  CASE r.kind = "destroy"    -> {r.id}
    [] r.kind = "destroyAll" -> {k \in Ids : sessions[k] # None}

Destroy(c, r) ==
  /\ pc[c] = "idle" /\ r.kind \in {"destroy", "destroyAll"}
  /\ op' = [op EXCEPT ![c] = r]
  /\ Take(c, DestroyKeys(r)) /\ Goto(c, "releasing")
  /\ UNCHANGED <<docker, result, execs>>

\* The stages of one session's release, each behind an await of all its parts.
StopBox(t) ==
  /\ release[t] = "stop"
  /\ box' = [box EXCEPT ![t] = IF @ = "running" THEN "stopped" ELSE @]
  /\ proxy' = [proxy EXCEPT ![t] = IF @ = "running" THEN "stopped" ELSE @]
  /\ release' = [release EXCEPT ![t] = "remove"]
  /\ UNCHANGED <<pc, op, sessions, net, dirs, victims, result, execs>>

RemoveBox(t) ==
  /\ release[t] = "remove"
  /\ box' = [box EXCEPT ![t] = "removed"]
  /\ proxy' = [proxy EXCEPT ![t] = IF @ = "none" THEN @ ELSE "removed"]
  /\ release' = [release EXCEPT ![t] = "rest"]
  /\ UNCHANGED <<pc, op, sessions, net, dirs, victims, result, execs>>

ReleaseRest(t) ==
  /\ release[t] = "rest"
  /\ LET owner == net[Key(t)]
         busy  == owner # None /\ "running" \in {proxy[owner], box[owner]}
     IN net' = [net EXCEPT ![Key(t)] = IF proxy[t] = "none" \/ busy THEN @ ELSE None]
  /\ dirs' = dirs \ {t}
  /\ release' = [release EXCEPT ![t] = "done"]
  /\ UNCHANGED <<pc, op, sessions, box, proxy, victims, result, execs>>

Released(c) == \A t \in victims[c] : release[t] = "done"

\* destroy() returns to its caller; run()'s finally block and exec()'s end are
\* callers too.
DestroyReturns(c) ==
  /\ pc[c] = "releasing" /\ Released(c)
  /\ Settle(c, IF result[c] = "none" THEN "returned" ELSE result[c])
  /\ UNCHANGED <<op, sessions, docker, release, victims, execs>>

-----------------------------------------------------------------------------
\* exec()

\* An exec() settles; run()'s finally block then destroys the session by id.
Leave(c, r) ==
  IF op[c].kind = "run"
  THEN /\ Take(c, {Key(c)}) /\ Goto(c, "releasing")
       /\ result' = [result EXCEPT ![c] = r]
  ELSE Settle(c, r) /\ UNCHANGED <<sessions, victims, release>>

\* A signal that is already aborted ends it before Docker is asked.
Exec(c, r) ==
  /\ pc[c] = "idle" /\ r.kind = "exec"
  /\ op' = [op EXCEPT ![c] = r]
  /\ IF sessions[r.id] = None
     THEN Settle(c, "rejected") /\ UNCHANGED active
     ELSE /\ active' = [active EXCEPT ![c] = sessions[r.id]]
          /\ \/ Settle(c, "returned")
             \/ Goto(c, "usage") /\ UNCHANGED result
  /\ UNCHANGED <<sessions, docker, release, victims, cut, stops, gone, log, chunk>>

\* After the usage snapshot the timer and the abort listener are armed and
\* docker.exec is called.  A signal aborted meanwhile kills the command at once,
\* and the listener never fires.
IssueExec(c) ==
  /\ pc[c] = "usage"
  /\ Goto(c, "running") \/ Goto(c, "inspect")
  /\ UNCHANGED <<op, sessions, docker, release, victims, result, execs>>

\* The proxy appends to its log while a command runs.
LogBlocked(t) ==
  /\ proxy[t] = "running" /\ log[t].size < MaxLog
  /\ \E c \in Calls : active[c] = t /\ pc[c] = "running"
  /\ log' = [log EXCEPT ![t].size = @ + 1]
  /\ UNCHANGED <<pc, op, sessions, docker, release, victims, result, active, cut, stops, gone, chunk>>

\* The timer or the caller's signal: the container is stopped, without waiting
\* for it, and docker.exec is aborted.
Interrupt(c) ==
  /\ pc[c] = "running" /\ c \notin cut
  /\ cut' = cut \cup {c}
  /\ stops' = stops \cup {active[c]}
  /\ UNCHANGED <<pc, op, sessions, docker, release, victims, result, active, gone, log, chunk>>

StopLands(t) ==
  /\ t \in stops /\ stops' = stops \ {t}
  /\ box' = [box EXCEPT ![t] = IF @ = "running" THEN "stopped" ELSE @]
  /\ UNCHANGED <<pc, op, sessions, proxy, net, dirs, release, victims, result, active, cut, gone, log, chunk>>

\* docker.exec settles, killed by the abort, with what the command did just
\* before, or with the absence of the daemon; any other error leaves at once.
ExecSettles(c) ==
  /\ pc[c] = "running"
  /\ \/ Goto(c, "inspect") /\ UNCHANGED <<sessions, victims, release, result>>
     \/ Fails("exec") /\ Leave(c, "rejected")
  /\ UNCHANGED <<op, docker, execs>>

\* inspectContainer(): a removed container is not reported as not running.
Inspect(c) ==
  /\ pc[c] = "inspect" /\ Goto(c, "sync")
  /\ gone' = IF box[active[c]] = "stopped" THEN gone \cup {c} ELSE gone
  /\ UNCHANGED <<op, sessions, docker, release, victims, result, active, cut, stops, log, chunk>>

\* syncArtifactsFromContainer(): its failure rejects the exec before the
\* session is destroyed.
Sync(c) ==
  /\ pc[c] = "sync"
  /\ LET outcomes == CopyOutcomes(box[active[c]], Fails("copy")) IN
     \/ /\ outcomes \cap {"copied", "unavailable"} # {}
        /\ Goto(c, IF proxy[active[c]] = "none" THEN "finish" ELSE "stat")
        /\ UNCHANGED <<sessions, victims, release, result>>
     \/ "failed" \in outcomes /\ Leave(c, "rejected")
  /\ UNCHANGED <<op, docker, execs>>

\* Mutant: the offset moves before the file is read.
StatLogAhead(c) ==
  /\ pc[c] = "stat"
  /\ LET l == log[active[c]] IN
     IF l.size <= l.offset THEN Goto(c, "finish") /\ UNCHANGED <<chunk, log>>
     ELSE /\ chunk' = [chunk EXCEPT ![c] = (l.offset + 1)..l.size] /\ Goto(c, "read")
          /\ log' = [log EXCEPT ![active[c]].offset = l.size]
  /\ UNCHANGED <<op, sessions, docker, release, victims, result, active, cut, stops, gone>>

\* readAllowlistBlockLog(): the size is compared with the offset before the
\* file is opened, the offset moves when it has been read.
StatLog(c) ==
  /\ pc[c] = "stat"
  /\ LET l == log[active[c]] IN
     IF l.size <= l.offset THEN Goto(c, "finish") /\ UNCHANGED chunk
     ELSE chunk' = [chunk EXCEPT ![c] = (l.offset + 1)..l.size] /\ Goto(c, "read")
  /\ UNCHANGED <<op, sessions, docker, release, victims, result, active, cut, stops, gone, log>>

ReadLog(c) ==
  /\ pc[c] = "read" /\ Goto(c, "finish")
  /\ log' = [log EXCEPT ![active[c]].offset = Max(chunk[c]), ![active[c]].reported = @ \cup chunk[c]]
  /\ chunk' = [chunk EXCEPT ![c] = {}]
  /\ UNCHANGED <<op, sessions, docker, release, victims, result, active, cut, stops, gone>>

\* Mutant: only a container found stopped ends the session.
MustDestroyGone(c) == c \in gone

\* An interrupted exec, or one whose container ended, destroys the session that
\* has its id now.
MustDestroy(c) == c \in cut \cup gone

Finish(c) ==
  /\ pc[c] = "finish"
  /\ IF MustDestroy(c)
     THEN Take(c, {Key(c)}) /\ Goto(c, "ending") /\ UNCHANGED result
     ELSE Leave(c, "returned")
  /\ UNCHANGED <<op, docker, execs>>

\* destroy() has returned and the artifacts are listed.
ExecEnds(c) ==
  /\ pc[c] = "ending" /\ Released(c)
  /\ Leave(c, "returned")
  /\ UNCHANGED <<op, docker, execs>>

-----------------------------------------------------------------------------
Begin(c) == \E r \in Requests : Create(c, r) \/ Exec(c, r) \/ Destroy(c, r)

Creating(c) == \/ CreateNetwork(c) \/ StartProxy(c) \/ UndoProxy(c)
               \/ StartContainer(c) \/ Abandon(c) \/ AbandonAllowlist(c)

Executing(c) == \/ IssueExec(c) \/ Interrupt(c) \/ ExecSettles(c) \/ Inspect(c) \/ Sync(c)
                \/ StatLog(c) \/ ReadLog(c) \/ Finish(c) \/ ExecEnds(c) \/ DestroyReturns(c)

World(t) == \/ StopBox(t) \/ RemoveBox(t) \/ ReleaseRest(t)
            \/ StopLands(t) \/ LogBlocked(t)

Next == \E c \in Calls : Begin(c) \/ Creating(c) \/ Executing(c) \/ World(c)

Spec == Init /\ [][Next]_vars

-----------------------------------------------------------------------------
\* Properties

CreatePhases == {"network", "proxy", "unproxy", "container", "unallow"}
InCreation(c) == pc[c] \in CreatePhases
Registered(c) == \E k \in Ids : sessions[k] = c
Live(state)   == state \in {"running", "stopped"}

\* Every container that exists, proxies included, is one that a call is still
\* creating, that the Map holds (so that destroy() can release it) or that is
\* being released: createSession() and destroy() between them strand none.
ContainersAccounted ==
  \A t \in Calls : Live(box[t]) \/ Live(proxy[t]) =>
     InCreation(t) \/ Registered(t) \/ release[t] \in {"stop", "remove"}

\* A registered allowlist session keeps its network: no other call's clean-up,
\* which names the network by session id, removes it under the session.
SessionKeepsNetwork ==
  \A t \in Calls : Registered(t) /\ Policy(op[t]).network.mode = "allowlist" => net[Key(t)] = t

\* An exec() that returns after a timeout or an abort has given up the session
\* it ran in: nobody finds the stopped container under that id again.
InterruptClearsSession ==
  \A c \in Calls : /\ pc[c] = "settled" /\ c \in cut /\ result[c] = "returned"
                   => ~ Registered(active[c])

\* The read offset of a block log never passes a line that no exec() reports,
\* however the reads of concurrent exec() calls overlap.
BlockedReported == \A t \in Calls : 1..log[t].offset \subseteq log[t].reported

\* With no call in flight and no session registered, nothing that Docker or the
\* file system held for a session is left (the contract of destroy(), "releases
\* all backend resources", and the smoke check "cleanup leaves no leaked
\* containers or networks behind").
NothingLeft ==
  (\A c \in Calls : pc[c] \in {"idle", "settled"}) /\ (\A k \in Ids : sessions[k] = None)
    => /\ \A t \in Calls : ~ Live(box[t]) /\ ~ Live(proxy[t])
       /\ \A k \in Ids : net[k] = None
       /\ dirs = {}
=============================================================================
