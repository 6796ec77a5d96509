----------------------------- MODULE ToolPromises ------------------------------
(***************************************************************************)
(* What the functions of SandboxRules and of WebRules promise: what is     *)
(* staged and what is not, where output is cut, what an archive may write, *)
(* whom the proxy connects to and when it is ready, what policies and      *)
(* usage say, and what a fetch or a search reaches and tells.              *)
(***************************************************************************)
EXTENDS SandboxRules, WebRules, FunctionInput

(***************************************************************************)
(* Staging                                                                 *)
(***************************************************************************)
\* The bytes of some files, each counted once.
Bytes(files, S) == Cardinality(UNION {{q} \X (1..files[q]) : q \in S})

\* Staging is refused exactly when a link is covered or the files that are exceed
\* the limit, and else stages just these.
Staged(tree, covered, limit) ==
  LET total == Bytes(tree.files, covered \cap DOMAIN tree.files)
  IN IF covered \cap tree.links # {} \/ total > limit THEN Thrown ELSE total

\* Overlapping copyInPaths count every file once, and a path that no other one
\* covers has to be there.
StagesOnce(tree, paths, limit) ==
  LET named   == paths \ {<<>>}
      covered == {q \in Entries(tree) : \E p \in named : IsPrefix(p, q)}
      missing == {p \in named : /\ \A r \in named : IsPrefix(r, p) => r = p
                                /\ \A q \in Entries(tree) : ~ IsPrefix(p, q)}
  IN StageCopy(tree, paths, limit) = IF named = {} \/ missing # {} THEN Thrown ELSE Staged(tree, covered, limit)

\* The snapshot never takes the outputs of earlier sessions back in, nor the
\* directories it is not to contain, and takes all the rest.
SnapshotSkipsOutput(tree, skipped, output, limit) ==
  StageSnapshot(tree, skipped, output, limit) =
    Staged(tree, {q \in Entries(tree) : q[1] \notin skipped /\ ~ IsWithin(q, output)}, limit)

(***************************************************************************)
(* Output and archives                                                     *)
(***************************************************************************)
\* Truncated text fits the limit, ends between two characters and gives up no
\* character that would fit.
TruncatesWhole(t, m) ==
  LET ends == {b \in 0..Len(t) : b \in {0, Len(t)} \/ t[b + 1] = "lead"} IN
  (t = <<>> \/ t[1] = "lead") => TruncateAt(t, m) = Max({b \in ends : b <= m})

\* The name an entry goes by: the last one that was given since the entry before
\* it, or else its own.
NameOf(entries, i) ==
  LET given == {j \in 1..(i - 1) : /\ \A k \in j..(i - 1) : IsHeader(entries[k])
                                   /\ entries[j].names # {}}
  IN IF given = {} THEN entries[i].name ELSE CHOOSE n \in entries[Max(given)].names : TRUE

\* Every file of an archive is written under its own name, long or short; an
\* archive that has a link, a path out of the destination or no end is refused, and
\* even of that nothing is written outside the destination.
ExtractsByName(entries, terminated) ==
  LET PathOf(i) == EntryPath(NameOf(entries, i))
      plain   == {i \in DOMAIN entries : ~ IsHeader(entries[i])}
      refused == {i \in plain : PathOf(i) = Thrown \/ (entries[i].type = "link" /\ PathOf(i) # <<>>)}
      files   == {PathOf(i) : i \in {j \in plain : entries[j].type = "file"}} \ {<<>>}
  IN /\ ExtractTar(entries, terminated) = IF refused # {} \/ ~ terminated THEN Thrown ELSE files
     /\ \A p \in files : p # Thrown => {".", ".."} \cap ToSet(p) = {}

(***************************************************************************)
(* The allowlist proxy                                                     *)
(***************************************************************************)
\* Whatever the name servers answer, the proxy connects to a host of the list, at
\* an address they gave, and only when the list names every restricted one.
ProxyKeepsList(list, host, records, restricted, port) ==
  LET target   == ProxyTarget(list, host, port, records, restricted)
      Open(e)  == e.port \in {0, port}
      given    == {records[i].address : i \in DOMAIN records}
      named(a) == \E e \in list : e.host = <<a>> /\ Open(e)
  IN target # Thrown => /\ \E e \in list : MatchesHost(host, e) /\ Open(e)
                        /\ target \in given /\ \A a \in given \cap restricted : named(a)

\* The proxy is ready by the deadline or not at all, and the loop gives up at most
\* a pause later.
ReadyInTime(probes, deadline, probeTime, pause) ==
  LET w == WaitReady(probes, deadline, probeTime, pause)
  IN /\ w.now <= deadline + pause
     /\ w.ready => w.now <= deadline

(***************************************************************************)
(* Policies and usage                                                      *)
(***************************************************************************)
\* A merged policy in allowlist mode has an allowlist.
MergeKeepsAllowlist(p, q) ==
  PolicyAccepted(p) /\ PolicyAccepted(q) =>
    LET network == MergePolicy(DefaultPolicyOf(p), q).network
    IN network.mode = "allowlist" => "allowlist" \in DOMAIN network /\ network.allowlist # {}

\* CPU time is never negative, and is told of a command only that was not timed
\* out, from its own readings; the peak is the greater of those that were told.
UsageSound(before, after, timedOut) ==
  LET told == Snapshots(before, after, timedOut)
      time == CpuTime(told)
  IN /\ time >= -1
     /\ time > 0 => ~ timedOut /\ time = after.cpu - (IF before.cpu = -1 THEN 0 ELSE before.cpu)
     /\ PeakMemory(told) = Max(IF timedOut THEN {before.peak} ELSE {before.peak, after.peak})

(***************************************************************************)
(* The web tools                                                           *)
(***************************************************************************)
\* An IPv4 address is as internal in IPv6 as it is by itself, in each form.
MappedAsItself(octets) ==
  \A w \in {"dots", "hex"} : IsImplicitlyBlockedHost([mapped |-> octets, written |-> w]) = IsImplicitlyBlockedHost([v4 |-> octets])

\* A host that the policy lets through, under each of its addresses.
Reachable(site, policy) ==
  /\ AssertAllowedUrl(site.url, policy)
  /\ policy.private \/ \A i \in DOMAIN site.resolution : "name" \in DOMAIN site.url.host =>
       ~ IsImplicitlyBlockedHost(site.resolution[i])

Whole(chunks) == FoldLeft(LAMBDA n, c : n + c, 0, chunks)
Waited(web, names) == FoldLeft(LAMBDA n, x : n + web[x].answers, 0, names)

\* Whatever answered, and whatever it led to, is a host that the policy lets
\* through; a request ends in its time, is said to have timed out only when its
\* time was over before the caller gave up, follows at most five redirects, and
\* tells when not all of the text is there.
FetchGuarded(web, request, policy, clock) ==
  LET r == Fetch(web, request, policy, clock)
  IN IF Refused(r) THEN (r.refused = "timeout" => DidTimeout(clock)) /\ (r.exhausted <=> r.refused = "timeout")
     ELSE /\ \A i \in DOMAIN r.reached : Reachable(web[r.reached[i]], policy)
          /\ r.reached[1] = request.name /\ Last(r.reached) = r.name
          /\ \A i \in 1..Len(r.reached) - 1 : r.reached[i + 1] = web[r.reached[i]].location[1]
          /\ Len(r.reached) <= MaxRedirects + 1 /\ (r.redirected <=> r.reached # <<request.name>>)
          /\ Waited(web, r.reached) < CutAt(clock)
          /\ r.length <= request.maxChars
          /\ ~ r.truncated => r.length = Normalized(web[r.name].type, Whole(web[r.name].chunks))

\* Never more hits than asked for, in the order of the provider, each of a host that
\* may be fetched and none of those left out; and with fewer, every hit is told or
\* counted.
SearchFilters(hits, limit, policy, clock) ==
  LET r == Search(hits, limit, policy, clock, 1)
      looked == Len(r.results) + r.filtered
      told   == {i \in 1..looked : MayBeTold(hits[i], policy)}
      Nth(i) == Cardinality({j \in told : j <= i})
  IN ~ Refused(r) =>
       /\ Len(r.results) <= limit /\ looked <= Len(hits)
       /\ Len(r.results) < limit => looked = Len(hits)
       /\ Len(r.results) = Cardinality(told) /\ \A i \in told : r.results[Nth(i)] = hits[i]

------------------------------------------------------------------------------
\* What may be asked: a finite workspace whose files have sizes; paths, sequences
\* of names that are not empty; records, probes and entries in sequences; times
\* that are numbers; and a network section that says its mode.
Segment == STRING \ {""}
Path    == Seq(Segment)

IsTree(tree) ==
  /\ Entries(tree) \subseteq Path \ {<<>>} /\ IsFiniteSet(Entries(tree))
  /\ tree.files \in [DOMAIN tree.files -> Nat]
IsReading(snapshot) == snapshot.cpu \in Nat \cup {-1} /\ snapshot.peak \in Nat \cup {-1}
IsName(name) == name.segments \in Seq(STRING)

LegalSandbox ==
  /\ Rule("truncate") => IsSeq(input[2]) /\ input[3] \in Nat
  /\ Rule("stage")    => IsTree(input[2]) /\ input[3] \subseteq Path /\ IsFiniteSet(input[3]) /\ input[4] \in Nat
  /\ Rule("snapshot") => IsTree(input[2]) /\ input[4] \in Path /\ input[5] \in Nat
  /\ Rule("archive")  => /\ IsSeq(input[2])
                         /\ \A e \in ToSet(input[2]) : IF IsHeader(e) THEN \A n \in e.names : IsName(n) ELSE IsName(e.name)
  /\ Rule("proxy")    => input[4] \in Seq(ToSet(input[4]))
  /\ Rule("ready")    => /\ IsSeq(input[2]) /\ \A p \in ToSet(input[2]) : p.takes \in Nat
                         /\ input[3] \in Nat /\ input[4] \in Nat /\ input[5] \in Nat
  /\ Rule("merge")    => \A p \in {input[2], input[3]} : p # Thrown /\ ("network" \in DOMAIN p => "mode" \in DOMAIN p.network)
  /\ Rule("usage")    => IsReading(input[2]) /\ IsReading(input[3]) /\ input[4] \in BOOLEAN

\* Output, staging, archives, the proxy, readiness, policies and usage of the
\* sandbox (plugin-tools-terminal-sandbox) keep what they promise.
SandboxRulesAgree ==
  /\ Rule("truncate") => TruncatesWhole(input[2], input[3])
  /\ Rule("stage")    => StagesOnce(input[2], input[3], input[4])
  /\ Rule("snapshot") => SnapshotSkipsOutput(input[2], input[3], input[4], input[5])
  /\ Rule("archive")  => ExtractsByName(input[2], input[3])
  /\ Rule("proxy")    => ProxyKeepsList(input[2], input[3], input[4], input[5], input[6])
  /\ Rule("ready")    => ReadyInTime(input[2], input[3], input[4], input[5])
  /\ Rule("merge")    => MergeKeepsAllowlist(input[2], input[3])
  /\ Rule("usage")    => UsageSound(input[2], input[3], input[4])


\* Octets, a web whose sites lead to sites of it, and hits in a sequence.
IsSite(web, site) ==
  /\ site.answers \in Nat /\ site.resolves \in Nat
  /\ site.location = <<>> \/ site.location[1] \in DOMAIN web
  /\ IsSeq(site.chunks) /\ \A i \in DOMAIN site.chunks : site.chunks[i] \in Nat
IsClock(clock) == clock.timeout \in Nat /\ clock.abort \in Nat

LegalWeb ==
  /\ Rule("mapped") => input[2] \in [1..4 -> 0..255]
  /\ Rule("fetch")  => /\ \A x \in DOMAIN input[2] : IsSite(input[2], input[2][x])
                       /\ input[3].name \in DOMAIN input[2] /\ input[3].maxChars \in Int
                       /\ IsClock(input[5])
  /\ Rule("search") => IsSeq(input[2]) /\ input[3] \in Int

\* What a fetch or a search reaches is what its policy lets through, in its time,
\* and what it tells is whole or said to be cut (plugin-tools-web/src/index.ts).
WebRulesAgree ==
  /\ Rule("mapped") => MappedAsItself(input[2])
  /\ Rule("fetch")  => FetchGuarded(input[2], input[3], input[4], input[5])
  /\ Rule("search") => SearchFilters(input[2], input[3], input[4], input[5])

------------------------------------------------------------------------------
\* The tools of an agent that reach out of the workspace, the sandboxed terminal
\* and the web tools, keep what they promise.
ToolRulesAgree == SandboxRulesAgree /\ WebRulesAgree

ToolSpec == input = <<>> /\ [][(LegalSandbox /\ LegalWeb)']_input
================================================================================
