----------------------------- MODULE SandboxRules ------------------------------
(***************************************************************************)
(* The functions of plugin-tools-terminal-sandbox and of the sandbox       *)
(* contract that compute on data: policies, staged paths, captured output, *)
(* archives, usage, the proxy's verdicts and its readiness.  Paths are     *)
(* sequences of segments, texts sequences of bytes that lead or continue a *)
(* character, sizes and times numbers.                                     *)
(***************************************************************************)
EXTENDS Integers, Sequences, FiniteSets, SequencesExt, FiniteSetsExt, TLC

CONSTANT Thrown       \* no result: the function throws

ASSUME ThrownIsNone == Thrown \notin Nat

-----------------------------------------------------------------------------
\* Policies: partial functions from sections to partial functions.

MergeSection(base, next) ==
  [f \in DOMAIN base \cup DOMAIN next |-> IF f \in DOMAIN next THEN next[f] ELSE base[f]]

\* mergeSandboxPolicy: a section of next overrides field by field.
MergePolicy(base, next) ==
  [s \in DOMAIN base \cup DOMAIN next |->
     IF s \notin DOMAIN next THEN base[s]
     ELSE IF s \notin DOMAIN base THEN next[s]
     ELSE MergeSection(base[s], next[s])]

\* parseSandboxPolicy: limits are positive; an allowlist is there, and not
\* empty, exactly in allowlist mode.
PolicyAccepted(p) ==
  /\ "resources" \in DOMAIN p => \A f \in DOMAIN p.resources : p.resources[f] > 0
  /\ "network" \in DOMAIN p =>
       /\ p.network.mode \in {"isolated", "allowlist", "open"}
       /\ (p.network.mode = "allowlist") <=> ("allowlist" \in DOMAIN p.network)
       /\ "allowlist" \in DOMAIN p.network => p.network.allowlist # {}
  /\ "files" \in DOMAIN p => p.files.mode \in {"readonly-mount", "copy", "none"}

ParsePolicy(p) == IF PolicyAccepted(p) THEN p ELSE Thrown

SandboxDefaultPolicy ==
  [resources |-> [timeoutMs |-> 30000, timeoutGraceMs |-> 5000, memoryMb |-> 512, diskMb |-> 100],
   network   |-> [mode |-> "isolated"],
   files     |-> [mode |-> "readonly-mount"]]

\* parseConfig: the configured default policy on top of the built-in one.
DefaultPolicyOf(configured) ==
  IF ParsePolicy(configured) = Thrown THEN Thrown
  ELSE MergePolicy(SandboxDefaultPolicy, configured)

-----------------------------------------------------------------------------
\* Workspace-relative paths and staging.  A path does not end in a separator:
\* normalize() keeps one, and what is compared with such a path is not below it.

\* path.normalize(), one segment after another
Walk(stack, seg) ==
  CASE seg \in {"", "."} -> stack
    [] seg = ".." /\ stack # <<>> /\ Last(stack) # ".." -> Front(stack)
    [] OTHER      -> Append(stack, seg)

\* normalizeRelativeSandboxPath, on [absolute, segments]
NormalizePath(raw) ==
  LET segs == FoldLeft(Walk, <<>>, raw.segments)
  IN IF raw.absolute \/ ".." \in ToSet(segs) THEN Thrown ELSE segs

IsWithin(p, ancestor) == IF ancestor = <<>> THEN p = <<>> ELSE IsPrefix(ancestor, p)

\* Mutant: a path inside another one is kept.
DedupeByName(paths) == SetToSeq(paths \ {<<>>})

ByDepth(paths) ==
  CHOOSE s \in [1..Cardinality(paths) -> paths] :
    IsInjective(s) /\ \A i, j \in DOMAIN s : i < j => Len(s[i]) <= Len(s[j])

Prune(kept, p) == IF \E q \in ToSet(kept) : IsPrefix(q, p) THEN kept ELSE Append(kept, p)

\* dedupeRelativeSandboxPaths: by depth, keeping what no kept path contains.
DedupePaths(paths) == FoldLeft(Prune, <<>>, ByDepth(paths \ {<<>>}))

\* A workspace: files, a function from paths to sizes; links; and what is neither
\* copied nor refused, as directories with nothing in them.
Entries(tree) == DOMAIN tree.files \cup tree.links \cup tree.rest

\* enforceStagedInputLimit
StagedTotal(files, limit, total, q) ==
  IF total = Thrown \/ total + files[q] > limit THEN Thrown ELSE total + files[q]

Reaches(p, excluded, q) == IsPrefix(p, q) /\ \A e \in excluded : ~ IsWithin(q, e)

\* What there is at p or below it, unless p is excluded before it is looked at.
IsMissing(tree, p, excluded) ==
  (\A e \in excluded : ~ IsWithin(p, e)) /\ \A q \in Entries(tree) : ~ IsPrefix(p, q)

\* stageWorkspacePath: the files below a path, one after another, unless
\* excluded; a link, nothing there or the limit ends it.
StagePath(tree, excluded, limit, before, p) ==
  LET copy(total, q) == StagedTotal(tree.files, limit, total, q)
  IN IF before = Thrown \/ IsMissing(tree, p, excluded) \/ \E q \in tree.links : Reaches(p, excluded, q)
     THEN Thrown
     ELSE FoldLeft(copy, before, SetToSeq({q \in DOMAIN tree.files : Reaches(p, excluded, q)}))

StageAll(tree, excluded, limit, paths) ==
  FoldLeft(LAMBDA total, p : StagePath(tree, excluded, limit, total, p), 0, paths)

\* prepareWorkspaceMount in mode copy, and in mode readonly-mount
\* (stageReadonlyWorkspaceSnapshot).
StageCopy(tree, paths, limit) ==
  IF paths \ {<<>>} = {} THEN Thrown ELSE StageAll(tree, {}, limit, DedupePaths(paths))

StageSnapshot(tree, skipped, outputBase, limit) ==
  StageAll(tree, {outputBase}, limit, SetToSeq({<<q[1]>> : q \in Entries(tree)} \ {<<n>> : n \in skipped}))

-----------------------------------------------------------------------------
\* Captured output

\* Mutant: cut at the limit, inside a character.
TruncateAtLimit(text, max) == Min({Len(text), max})

\* truncateOutput: back from the limit to a byte that does not continue a
\* character.  Bytes are counted from 0 in the code.
TruncateAt(text, max) ==
  IF Len(text) <= max THEN Len(text)
  ELSE Max({0} \cup {b \in 1..max : text[b + 1] = "lead"})

-----------------------------------------------------------------------------
\* Archives copied out of a container: a header is [type, names], with the name
\* that the next entry goes by if it gives one; an entry is [type, name].

IsHeader(e) == e.type \in {"L", "x"}

\* resolveTarEntryPath
EntryPath(name) == NormalizePath(name)

\* Mutant: a header's name is forgotten.
ReadEntryForgetful(acc, e) ==
  LET path == EntryPath(e.name)
  IN IF ~ acc.ok \/ IsHeader(e) THEN acc
     ELSE IF path = Thrown \/ (e.type = "link" /\ path # <<>>) THEN [acc EXCEPT !.ok = FALSE]
     ELSE [acc EXCEPT !.written = IF e.type = "file" /\ path # <<>> THEN @ \cup {path} ELSE @]

ReadEntry(acc, e) ==
  LET path == EntryPath(IF acc.pending = {} THEN e.name ELSE CHOOSE n \in acc.pending : TRUE)
  IN IF ~ acc.ok THEN acc
     ELSE IF IsHeader(e) THEN [acc EXCEPT !.pending = IF e.names = {} THEN @ ELSE e.names]
     ELSE IF path = Thrown \/ (e.type = "link" /\ path # <<>>) THEN [acc EXCEPT !.ok = FALSE]
     ELSE [acc EXCEPT !.pending = {},
                      !.written = IF e.type = "file" /\ path # <<>> THEN @ \cup {path} ELSE @]

\* extractTarArchiveToDirectory: a long-name ("L") or pax ("x") header names
\* the next entry; links and unsafe paths refuse the archive, and so does a
\* missing end.
ExtractTar(entries, terminated) ==
  LET done == FoldLeft(ReadEntry, [ok |-> TRUE, pending |-> {}, written |-> {}], entries)
  IN IF done.ok /\ terminated THEN done.written ELSE Thrown

-----------------------------------------------------------------------------
\* Usage: snapshots are [cpu, peak], each a number or -1 when the container did
\* not tell.

\* summarizeUsage and buildResourceUsage
CpuTime(snapshots) ==
  LET first == snapshots[1].cpu
      last == Last(snapshots).cpu
  IN IF snapshots = <<>> \/ last = -1 THEN -1
     ELSE IF first = -1 THEN last ELSE Max({0, last - first})

PeakMemory(snapshots) == Max({-1} \cup {snapshots[i].peak : i \in DOMAIN snapshots})

\* safeReadUsageSnapshot and parseUsageSnapshot: the snapshot before and, unless
\* the timer fired, the one after; a container that does not answer gives none.
Tells(snapshot) == snapshot.cpu # -1 \/ snapshot.peak # -1

Snapshots(before, after, timedOut) ==
  (IF Tells(before) THEN <<before>> ELSE <<>>) \o (IF ~ timedOut /\ Tells(after) THEN <<after>> ELSE <<>>)

\* copyFromContainer: node, python and tar need a running container, docker cp
\* any container; syncArtifactsFromContainer swallows an absent daemon.
CopyOutcomes(boxState, mayFail) ==
  (IF boxState \in {"running", "stopped"} THEN {"copied"} ELSE {"failed"})
    \cup (IF mayFail THEN {"unavailable", "failed"} ELSE {})

-----------------------------------------------------------------------------
\* The allowlist proxy

\* matchesHost: "*.domain" stands for every host strictly below the domain.
\* Hosts are sequences of labels, most significant first.
MatchesHost(host, e) == IF e.wild THEN IsStrictPrefix(e.host, host) ELSE host = e.host

\* isAllowed
IsAllowed(list, host, port) ==
  \E e \in list : MatchesHost(host, e) /\ e.port \in {0, port}

\* isExplicitlyAllowedIp
ExplicitlyAllowed(list, address, port) ==
  \E e \in list : ~ e.wild /\ e.host = <<address>> /\ e.port \in {0, port}

\* The record that is connected to: IPv4 is preferred.
Preferred(records) ==
  LET v4 == {i \in DOMAIN records : records[i].family = 4}
  IN records[IF v4 = {} THEN 1 ELSE Min(v4)].address

\* Mutant: only the address connected to is looked at.
ResolveHostFirst(list, records, restricted, port) ==
  IF records = <<>> \/ (Preferred(records) \in restricted /\ ~ ExplicitlyAllowed(list, Preferred(records), port))
  THEN Thrown ELSE Preferred(records)

\* resolveAllowedHost: one refused record refuses the host.
ResolveHost(list, records, restricted, port) ==
  LET refused(r) == r.address \in restricted /\ ~ ExplicitlyAllowed(list, r.address, port)
  IN IF records = <<>> \/ \E i \in DOMAIN records : refused(records[i]) THEN Thrown ELSE Preferred(records)

\* The request and connect handlers: where the proxy connects to, if anywhere.
ProxyTarget(list, host, port, records, restricted) ==
  IF IsAllowed(list, host, port) THEN ResolveHost(list, records, restricted, port) ELSE Thrown

\* A probe takes its time to answer, or is aborted; what is not a success is
\* followed by a pause.
Probe(allowed, acc, p, deadline, pause) ==
  IF acc.ready \/ acc.now >= deadline THEN acc
  ELSE IF p.ok /\ p.takes <= allowed THEN [ready |-> TRUE, now |-> acc.now + p.takes]
  ELSE [ready |-> FALSE, now |-> acc.now + Min({p.takes, allowed}) + pause]

\* Mutant: every probe is given its full time.
WaitReadyFull(probes, deadline, probeTime, pause) ==
  FoldLeft(LAMBDA acc, p : Probe(probeTime, acc, p, deadline, pause), [ready |-> FALSE, now |-> 0], probes)

\* waitForAllowlistProxyReady: probes of at most ProbeTime, a pause between
\* them, until the deadline.  probes: the time each would take, and whether it
\* succeeds.  Gives when the loop stands where, and whether the proxy is ready.
WaitReady(probes, deadline, probeTime, pause) ==
  FoldLeft(LAMBDA acc, p : Probe(Max({1, Min({probeTime, deadline - acc.now})}), acc, p, deadline, pause),
           [ready |-> FALSE, now |-> 0], probes)
=============================================================================
