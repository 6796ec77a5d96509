------------------------------- MODULE WebRules -------------------------------
(***************************************************************************)
(* The web tools (plugin-tools-web): which hosts a fetch or a search may   *)
(* reach, redirects, the clock of a request, and the text that is kept.    *)
(* A host is [name: its labels from the top level down], [v4: its octets], *)
(* [v6: what its text begins with], or [mapped: the octets of an IPv4      *)
(* address in IPv6, written with "dots" or in "hex"].  Of a request that   *)
(* cannot be made the outcome is [refused: why, exhausted].                *)
(***************************************************************************)
EXTENDS Integers, Sequences, FiniteSets, SequencesExt

MaxRedirects == 5
MinContentChars == 256
MaxContentChars == 50000
MaxRawContentChars == 250000
MaxSearchLimit == 20
Min2(a, b) == IF a < b THEN a ELSE b
Max2(a, b) == IF a < b THEN b ELSE a
Refused(r) == "refused" \in DOMAIN r

(***************************************************************************)
(* Hosts                                                                   *)
(***************************************************************************)
\* A wildcard is for what is below its labels, not for them.
MatchesHostPattern(host, p) ==
  "name" \in DOMAIN host /\ IF p.wild THEN IsStrictPrefix(p.labels, host.name) ELSE host.name = p.labels

IsPrivateIpv4(o) ==
  \/ o[1] \in {0, 10, 127} \/ o[1] >= 224
  \/ o[1] = 100 /\ o[2] \in 64..127
  \/ o[1] = 172 /\ o[2] \in 16..31
  \/ <<o[1], o[2]>> \in {<<169, 254>>, <<192, 168>>, <<198, 18>>, <<198, 19>>}
  \/ <<o[1], o[2], o[3]>> \in {<<192, 0, 0>>, <<192, 0, 2>>, <<192, 88, 99>>, <<198, 51, 100>>, <<203, 0, 113>>}

\* Mutant: a mapped address in hexadecimal is not read.
ParseDotsOnly(host) == IF "mapped" \in DOMAIN host /\ host.written = "dots" THEN <<host.mapped>> ELSE <<>>

\* The two groups of hexadecimal digits are taken apart into octets.
ParseIpv4MappedIpv6(host) ==
  LET o == host.mapped
      high == o[1] * 256 + o[2]
      low  == o[3] * 256 + o[4]
  IN IF "mapped" \notin DOMAIN host THEN <<>>
     ELSE IF host.written = "dots" THEN <<o>>
     ELSE <<<<high \div 256, high % 256, low \div 256, low % 256>>>>

IsPrivateIpv6(host) ==
  LET four == ParseIpv4MappedIpv6(host)
  IN IF four # <<>> THEN IsPrivateIpv4(four[1])
     ELSE "v6" \in DOMAIN host => host.v6 \in {"::", "fc", "fd", "fe8", "fe9", "fea", "feb", "ff", "2001:db8:"}

IsImplicitlyBlockedHost(host) ==
  \/ "name" \in DOMAIN host /\ host.name # <<>> /\ host.name[1] = "localhost"
  \/ "v4" \in DOMAIN host /\ IsPrivateIpv4(host.v4)
  \/ {"v6", "mapped"} \cap DOMAIN host # {} /\ IsPrivateIpv6(host)

(***************************************************************************)
(* The policy of a request                                                 *)
(***************************************************************************)
\* policy: [allowed, blocked: patterns, private: whether internal hosts may be
\* reached]; url: [scheme, host].
AssertAllowedUrl(url, policy) ==
  /\ url.scheme \in {"http", "https"}
  /\ \A p \in policy.blocked : ~ MatchesHostPattern(url.host, p)
  /\ policy.private \/ ~ IsImplicitlyBlockedHost(url.host)
  /\ policy.allowed = {} \/ \E p \in policy.allowed : MatchesHostPattern(url.host, p)

\* Mutant: one good address is enough.
ResolvedAny(url, resolution, policy) ==
  \/ policy.private \/ "name" \notin DOMAIN url.host
  \/ resolution # <<>> /\ \E i \in DOMAIN resolution : ~ IsImplicitlyBlockedHost(resolution[i])

\* A name must resolve, and to public addresses only; <<>> stands for a name that
\* resolves to nothing or not at all.
AssertResolvedUrlAllowed(url, resolution, policy) ==
  \/ policy.private \/ "name" \notin DOMAIN url.host
  \/ resolution # <<>> /\ \A i \in DOMAIN resolution :
       "name" \notin DOMAIN resolution[i] /\ ~ IsImplicitlyBlockedHost(resolution[i])

(***************************************************************************)
(* The clock of a request: it is cut when the time is over or the caller   *)
(* aborts, whatever comes first                                            *)
(***************************************************************************)
\* CreateAbortSignal(): clock is [timeout, abort], the times of both.
CutAt(clock) == Min2(clock.timeout, clock.abort)
DidTimeout(clock) == clock.timeout < clock.abort
WhyCut(clock) == [refused |-> IF DidTimeout(clock) THEN "timeout" ELSE "other", exhausted |-> DidTimeout(clock)]
Other == [refused |-> "other", exhausted |-> FALSE]

\* One await of `ticks', raced with the signal.
ResolveWithAbort(at, ticks, clock) == at + ticks < CutAt(clock)

(***************************************************************************)
(* Fetching                                                                *)
(***************************************************************************)
\* web maps the name of a URL to [url, resolution, resolves: ticks, answers: ticks,
\* status, location: <<name>> or <<>>, type, chunks: lengths of the text].  A fetch
\* goes on to a name, or has come to its answer; reached are the names that answered.

\* One turn of the loop in fetchWithRedirects(), after count redirects.
FollowRedirect(web, policy, clock, acc, count) ==
  LET site == web[acc.name]
      wait == IF policy.private \/ "name" \notin DOMAIN site.url.host THEN 0 ELSE site.resolves
      done == acc.at + wait + site.answers
      next == site.location[1]
      come(name, goes) == [name |-> name, at |-> done, reached |-> Append(acc.reached, acc.name), goes |-> goes]
  IN IF Refused(acc) \/ ~ acc.goes THEN acc
     ELSE IF wait > 0 /\ ~ ResolveWithAbort(acc.at, wait, clock) THEN WhyCut(clock)
     ELSE IF ~ AssertResolvedUrlAllowed(site.url, site.resolution, policy) THEN Other
     ELSE IF done >= CutAt(clock) THEN WhyCut(clock)
     ELSE IF site.status # "redirect" THEN come(acc.name, FALSE)
     ELSE IF count = MaxRedirects \/ site.location = <<>> \/ ~ AssertAllowedUrl(web[next].url, policy) THEN Other
     ELSE come(next, TRUE)

FetchWithRedirects(web, name, policy, clock) ==
  FoldLeft(LAMBDA acc, count : FollowRedirect(web, policy, clock, acc, count),
           [name |-> name, at |-> 0, reached |-> <<>>, goes |-> TRUE], [i \in 1..MaxRedirects + 1 |-> i - 1])

\* Texts are told by their lengths.
ClampContent(length, most) == [length |-> Min2(length, most), truncated |-> length > most]
GetRawContentCharLimit(most) == Min2(MaxRawContentChars, Max2(most, most * 8 + 4096))

\* Mutant: a text that was cut while it was read is not said to be.
ReadChunkUnmarked(most, acc, c) ==
  [length |-> Min2(acc.length + c, GetRawContentCharLimit(most)), truncated |-> FALSE]

\* A chunk is added to what was read, unless that was cut.
ReadChunk(most, acc, c) ==
  LET n == acc.length + c
      limit == GetRawContentCharLimit(most)
  IN IF acc.truncated THEN acc ELSE [length |-> Min2(n, limit), truncated |-> n > limit]

ReadResponseText(chunks, most) ==
  FoldLeft(LAMBDA acc, c : ReadChunk(most, acc, c), [length |-> 0, truncated |-> FALSE], chunks)

\* What is made of a text: of markup little stays, JSON is laid out anew.
Normalized(type, length) ==
  IF type = "html" THEN length \div 30 ELSE IF type = "json" THEN length * 2 ELSE length

NormalizeResponseBody(site, most) ==
  LET raw  == ReadResponseText(site.chunks, most)
      kept == ClampContent(Normalized(site.type, raw.length), most)
  IN IF site.type = "binary" THEN Other
     ELSE [length |-> kept.length, truncated |-> raw.truncated \/ kept.truncated]

Fetch(web, request, policy, clock) ==
  LET r == FetchWithRedirects(web, request.name, policy, clock)
      body == NormalizeResponseBody(web[r.name], request.maxChars)
  IN IF ~ AssertAllowedUrl(web[request.name].url, policy) \/ request.maxChars \notin MinContentChars..MaxContentChars
     THEN Other
     ELSE IF Refused(r) THEN r
     ELSE IF web[r.name].status # "ok" \/ Refused(body) THEN Other
     ELSE [name |-> r.name, reached |-> r.reached, redirected |-> Len(r.reached) > 1,
           length |-> body.length, truncated |-> body.truncated]

(***************************************************************************)
(* Searching                                                               *)
(***************************************************************************)
\* hits: [titled, url, resolution, resolves].  A hit that has no title spoils the
\* whole search; one that the policy refuses is counted; the rest is not looked at
\* when there are enough.
MayBeTold(h, policy) == AssertAllowedUrl(h.url, policy) /\ AssertResolvedUrlAllowed(h.url, h.resolution, policy)

LookAt(limit, policy, clock, acc, h) ==
  LET wait == IF AssertAllowedUrl(h.url, policy) /\ ~ policy.private /\ "name" \in DOMAIN h.url.host THEN h.resolves ELSE 0
  IN IF Refused(acc) \/ Len(acc.results) >= limit THEN acc
     ELSE IF ~ h.titled THEN Other
     ELSE IF wait > 0 /\ ~ ResolveWithAbort(acc.at, wait, clock) THEN WhyCut(clock)
     ELSE IF MayBeTold(h, policy)
          THEN [results |-> Append(acc.results, h), filtered |-> acc.filtered, at |-> acc.at + wait]
          ELSE [results |-> acc.results, filtered |-> acc.filtered + 1, at |-> acc.at + wait]

Search(hits, limit, policy, clock, answers) ==
  IF limit \notin 1..MaxSearchLimit THEN Other
  ELSE IF answers >= CutAt(clock) THEN WhyCut(clock)
  ELSE FoldLeft(LAMBDA acc, h : LookAt(limit, policy, clock, acc, h), [results |-> <<>>, filtered |-> 0, at |-> answers], hits)
===============================================================================
