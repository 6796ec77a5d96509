----------------------------- MODULE WorkspaceRules ----------------------------
(***************************************************************************)
(* The tools that work in a workspace: its paths, the files tools, the     *)
(* repository map, the local terminal, language servers, MCP servers and   *)
(* skills, and the scopes of what runs (plugin-workspace-fs, -tools-files, *)
(* -repo-map, -tools-terminal, -lsp, -mcp, -agent-skills, core/scope).     *)
(*                                                                         *)
(* A path is a sequence of names, a file system a function from the paths  *)
(* there are, with those above them, to [kind, ...]: a link has its `to`.  *)
(***************************************************************************)
EXTENDS Integers, Sequences, FiniteSets, SequencesExt, Folds, TLC

Field(r, f, other) == IF f \in DOMAIN r THEN r[f] ELSE other
Up(p) == SubSeq(p, 1, Len(p) - 1)

(***************************************************************************)
(* Paths                                                                   *)
(***************************************************************************)
\* path.resolve(): a segment is relative, or <<"/", ...>> and begins anew.
Resolve(root, segment) ==
  FoldLeft(LAMBDA p, n : CASE n = "/" -> <<>> [] n = "." -> p [] n = ".." /\ p = <<>> -> p [] n = ".." -> Up(p) [] OTHER -> Append(p, n),
           root, segment)

\* A name that begins with two dots is taken for the way out.
StartsWithDots(n) == n \in {"..", "..more"}
IsInsideRoot(root, p) ==
  IsPrefix(root, p) /\ (p = root \/ ~ StartsWithDots(p[Len(root) + 1]))

Escapes == <<"escapes the workspace root">>
ResolveWorkspacePath(root, segment) ==
  LET p == Resolve(root, segment) IN IF IsInsideRoot(root, p) THEN p ELSE Escapes

\* realpath() of the file system: {} if there is nothing, or links go round.
RECURSIVE RealPath(_, _, _)
RealPath(fs, p, hops) ==
  LET links == {i \in 1..Len(p) : SubSeq(p, 1, i) \in DOMAIN fs /\ fs[SubSeq(p, 1, i)].kind = "link"}
      first == CHOOSE i \in links : \A j \in links : i <= j
  IN CASE hops = 0 -> {}
       [] links = {} -> {p} \cap DOMAIN fs
       [] OTHER -> RealPath(fs, fs[SubSeq(p, 1, first)].to \o SubSeq(p, first + 1, Len(p)), hops - 1)
Real(fs, p) == RealPath(fs, p, 6)

\* Mutant: what is not there yet is taken as it is written.
RealPathOrWritten(fs, p) == IF Real(fs, p) = {} THEN p ELSE CHOOSE q \in Real(fs, p) : TRUE

\* The real path of the nearest ancestor that is there, and the rest as written.
ResolveRealPath(fs, p) ==
  LET n == CHOOSE i \in 0..Len(p) : /\ Real(fs, SubSeq(p, 1, i)) # {}
                                    /\ \A j \in i + 1..Len(p) : Real(fs, SubSeq(p, 1, j)) = {}
  IN (CHOOSE q \in Real(fs, SubSeq(p, 1, n)) : TRUE) \o SubSeq(p, n + 1, Len(p))

ResolveSafeWorkspacePath(fs, root, segment) ==
  LET p == ResolveWorkspacePath(root, segment)
      realRoot == IF Real(fs, root) = {} THEN root ELSE CHOOSE q \in Real(fs, root) : TRUE
      real == ResolveRealPath(fs, p)
  IN IF p = Escapes \/ ~ IsInsideRoot(realRoot, real) THEN Escapes ELSE real

\* A path that is accepted is inside of the workspace and leads through no link
\* that leads anywhere; and a path to something inside is accepted, but for the
\* names that begin with two dots (plugin-workspace-fs, resolveSafeWorkspacePath).
PathsStayInside(fs, root, segment) ==
  LET p == ResolveSafeWorkspacePath(fs, root, segment)
      written == Resolve(root, segment)
      realRoot == CHOOSE q \in Real(fs, root) : TRUE
      dotted == \E i \in DOMAIN written : StartsWithDots(written[i])
  IN /\ p # Escapes =>
          /\ IsPrefix(realRoot, p)
          /\ \A i \in DOMAIN p : Real(fs, SubSeq(p, 1, i)) \subseteq {SubSeq(p, 1, i)}
     /\ IsPrefix(root, written) /\ ~ dotted /\ Real(fs, written) # {} =>
          (p # Escapes) = (\A q \in Real(fs, written) : IsPrefix(realRoot, q))

(***************************************************************************)
(* Files: a text is a sequence of pieces                                   *)
(***************************************************************************)
Occurrences(text, old) == {i \in 1..Len(text) + 1 : IsPrefix(old, SubSeq(text, i, Len(text)))}
ReplaceOnce(text, i, edit) == SubSeq(text, 1, i - 1) \o edit.new \o SubSeq(text, i + Len(edit.old), Len(text))

\* Mutant: each edit is written as it is made.
EditWritesEach(text, edits) ==
  FoldLeft(LAMBDA acc, e : IF acc.threw \/ Occurrences(acc.file, e.old) = {} THEN [acc EXCEPT !.threw = TRUE]
                           ELSE [acc EXCEPT !.file = ReplaceOnce(@, CHOOSE i \in Occurrences(@, e.old) : \A j \in Occurrences(@, e.old) : i <= j, e)],
           [file |-> text, threw |-> FALSE], edits)

\* The first place of each edit's old text in what the edits before it made; the
\* file is written when all have been found.
EditText(text, edits) ==
  LET First(t, old) == CHOOSE i \in Occurrences(t, old) : \A j \in Occurrences(t, old) : i <= j
      end == FoldLeft(LAMBDA acc, e : IF acc.threw \/ Occurrences(acc.file, e.old) = {} THEN [acc EXCEPT !.threw = TRUE]
                                      ELSE [acc EXCEPT !.file = ReplaceOnce(@, First(@, e.old), e)],
                      [file |-> text, threw |-> FALSE], edits)
  IN IF end.threw THEN [file |-> text, threw |-> TRUE] ELSE end

\* An edit that is not found leaves the file as it was, with all the others of
\* its call; otherwise one call of them all does what a call for each would
\* (plugin-tools-files, editText).
EditsAllOrNone(text, edits) ==
  LET all  == EditText(text, edits)
      each == FoldLeft(LAMBDA acc, e : IF acc.threw THEN acc ELSE EditText(acc.file, <<e>>), [file |-> text, threw |-> FALSE], edits)
  IN all.threw = each.threw /\ all.file = (IF all.threw THEN text ELSE each.file)

\* A pattern with a star or a question mark becomes an expression for the whole
\* path: the pieces between the stars, in order, the first at the start and the
\* last at the end.  Without one it may be anywhere.  Case is left out.
Wild(pattern) == \E i \in DOMAIN pattern : pattern[i] \in {"*", "?"}
PieceAt(path, i, piece) ==
  /\ i + Len(piece) - 1 <= Len(path)
  /\ \A k \in DOMAIN piece : piece[k] \in {"?", path[i + k - 1]}
Pieces(pattern) ==
  FoldLeft(LAMBDA acc, c : IF c = "*" THEN Append(acc, <<>>) ELSE [acc EXCEPT ![Len(acc)] = Append(@, c)], <<<<>>>>, pattern)

\* Mutant: the end of the expression is not anchored.
TestOpen(path, pattern) ==
  LET ps == Pieces(pattern)
  IN \E at \in [DOMAIN ps -> 1..Len(path) + 1] :
       /\ \A k \in DOMAIN ps : PieceAt(path, at[k], ps[k]) /\ (k > 1 => at[k] >= at[k - 1] + Len(ps[k - 1]))
       /\ at[1] = 1

TestGlob(path, pattern) ==
  LET ps == Pieces(pattern)   last == Len(ps)
  IN \E at \in [DOMAIN ps -> 1..Len(path) + 1] :
       /\ \A k \in DOMAIN ps : PieceAt(path, at[k], ps[k]) /\ (k > 1 => at[k] >= at[k - 1] + Len(ps[k - 1]))
       /\ at[1] = 1 /\ at[last] + Len(ps[last]) = Len(path) + 1

MatchesPattern(path, pattern) ==
  CASE pattern = <<>> -> FALSE
    [] Wild(pattern)  -> TestGlob(path, pattern)
    [] OTHER          -> \E i \in 1..Len(path) + 1 : PieceAt(path, i, pattern)

\* What a star and a question mark stand for, letter by letter.
RECURSIVE Globs(_, _)
Globs(path, pattern) ==
  CASE pattern = <<>> -> path = <<>>
    [] pattern[1] = "*" -> Globs(path, Tail(pattern)) \/ (path # <<>> /\ Globs(Tail(path), pattern))
    [] OTHER -> path # <<>> /\ pattern[1] \in {"?", path[1]} /\ Globs(Tail(path), Tail(pattern))

\* find() and grep() stop when they have found as many as they may, after the
\* one that makes it so: a limit of none finds one.
TakeUpTo(found, limit) ==
  FoldLeft(LAMBDA acc, m : IF acc.full THEN acc ELSE [got |-> Append(acc.got, m), full |-> Len(acc.got) + 1 >= limit],
           [got |-> <<>>, full |-> FALSE], found).got

Find(files, pattern, limit) == TakeUpTo(SelectSeq(files, LAMBDA f : MatchesPattern(f, pattern)), limit)

From(i) == IF i < 1 THEN 1 ELSE i
GrepMatch(f, lines, i, context) ==
  [path |-> f, line |-> i, before |-> SubSeq(lines, From(i - context), i - 1),
   after |-> SubSeq(lines, i + 1, IF i + context > Len(lines) THEN Len(lines) ELSE i + context)]
Grep(files, lines, wanted, limit, context) ==
  TakeUpTo(FlattenSeq([k \in DOMAIN files |->
             LET hits == SelectSeq([i \in DOMAIN lines[files[k]] |-> i], LAMBDA i : lines[files[k]][i] = wanted)
             IN [h \in DOMAIN hits |-> GrepMatch(files[k], lines[files[k]], hits[h], context)]]), limit)

\* A pattern matches what it says, and a search gives the first of the matches,
\* each with the lines around it (plugin-tools-files, find and grep).
FindsWhatMatches(files, pattern, limit) ==
  LET all == SelectSeq(files, LAMBDA f : pattern # <<>> /\ Globs(f, IF Wild(pattern) THEN pattern ELSE <<"*">> \o pattern \o <<"*">>))
  IN Find(files, pattern, limit) = SubSeq(all, 1, IF From(limit) > Len(all) THEN Len(all) ELSE From(limit))

GrepsInOrder(lines, wanted, limit, context) ==
  LET files == [k \in DOMAIN lines |-> k]
      found == Grep(files, lines, wanted, limit, context)
      hits  == {<<k, i>> \in UNION {{k} \X DOMAIN lines[k] : k \in DOMAIN lines} : lines[k][i] = wanted}
      Earlier(h, g) == h[1] < g[1] \/ (h[1] = g[1] /\ h[2] < g[2])
  IN /\ \A n \in DOMAIN found :
          LET at == <<found[n].path, found[n].line>>
              around == found[n].before \o <<wanted>> \o found[n].after
          IN /\ at \in hits /\ Cardinality({h \in hits : Earlier(h, at)}) = n - 1
             /\ around = SubSeq(lines[at[1]], at[2] - Len(found[n].before), at[2] + Len(found[n].after))
     /\ Len(found) < From(limit) => Len(found) = Cardinality(hits)

(***************************************************************************)
(* The map of a repository, where the names are numbers, in their order    *)
(***************************************************************************)
Children(tree, p) == SetToSortSeq({q \in DOMAIN tree : Len(q) = Len(p) + 1 /\ IsPrefix(p, q)}, LAMBDA a, b : Last(a) < Last(b))

\* Mutant: the limit is asked for before a directory only.
RECURSIVE WalkWide(_, _, _, _, _)
WalkWide(tree, p, depth, opts, files) ==
  CASE depth > opts.maxDepth \/ tree[p] = "link" -> files
    [] tree[p] = "file" -> Append(files, p)
    [] Len(files) >= opts.maxFiles -> files
    [] OTHER -> FoldLeft(LAMBDA acc, c : IF tree[c] = "dir" /\ Last(c) \in opts.exclude THEN acc ELSE WalkWide(tree, c, depth + 1, opts, acc),
                         files, Children(tree, p))

RECURSIVE WalkRepo(_, _, _, _, _)
WalkRepo(tree, p, depth, opts, files) ==
  CASE Len(files) >= opts.maxFiles \/ depth > opts.maxDepth \/ tree[p] = "link" -> files
    [] tree[p] = "file" -> Append(files, p)
    [] OTHER -> FoldLeft(LAMBDA acc, c : IF tree[c] = "dir" /\ Last(c) \in opts.exclude THEN acc ELSE WalkRepo(tree, c, depth + 1, opts, acc),
                         files, Children(tree, p))

\* The files tools list what is below a path, through no link.
RECURSIVE WalkFiles(_, _)
WalkFiles(tree, p) ==
  CASE tree[p] = "link" -> <<>>
    [] tree[p] = "file" -> <<p>>
    [] OTHER -> FlattenSeq([k \in DOMAIN Children(tree, p) |-> WalkFiles(tree, Children(tree, p)[k])])

\* A map has no more files than it may, none that is excluded or too deep, and only
\* those that the files tools find; one that does not say it was cut has them all
\* (plugin-repo-map, plugin-tools-files).
MapComplete(tree, opts) ==
  LET files == WalkRepo(tree, <<>>, 0, opts, <<>>)
      Reached(p) == \A i \in 1..Len(p) - 1 : tree[SubSeq(p, 1, i)] = "dir"
      there  == {p \in DOMAIN tree : tree[p] = "file" /\ Reached(p)}
      wanted == {p \in there : Len(p) <= opts.maxDepth /\ \A i \in 1..Len(p) - 1 : p[i] \notin opts.exclude}
      truncated == Len(files) >= opts.maxFiles
  IN /\ Len(files) <= opts.maxFiles /\ Cardinality(Range(files)) = Len(files)
     /\ Range(files) \subseteq wanted /\ Range(WalkFiles(tree, <<>>)) = there
     /\ ~ truncated => Range(files) = wanted

(***************************************************************************)
(* The local terminal                                                      *)
(***************************************************************************)
Minimal == {"PATH", "HOME", "LC_X"}      \* the names listed, and those that begin with LC_
ProcessEnvSnapshot(env, inherit) == [k \in {n \in DOMAIN env : inherit \/ n \in Minimal} |-> env[k]]
MergeEnv(env, base, override, inherit) == override @@ base @@ ProcessEnvSnapshot(env, inherit)

TimeoutSeconds(ms) == From((ms + 999) \div 1000)
RunResult(timeoutMs, exit) == [exit |-> exit, timedOut |-> timeoutMs # {} /\ exit = "null"]

\* What a command is given of the environment was asked for, by the call before
\* the plugin and by the plugin before the process; and its time is not shorter
\* than asked for, nor longer by a second (plugin-tools-terminal, run).
RunsAsAsked(env, base, override, inherit) ==
  LET given == MergeEnv(env, base, override, inherit)
  IN \A k \in DOMAIN given :
       \/ k \in DOMAIN override /\ given[k] = override[k]
       \/ k \in DOMAIN base \ DOMAIN override /\ given[k] = base[k]
       \/ k \in DOMAIN env \ (DOMAIN base \cup DOMAIN override) /\ given[k] = env[k] /\ (inherit \/ k \in Minimal)
TimesOut(ms, exit) ==
  /\ TimeoutSeconds(ms) * 1000 >= ms /\ (ms > 0 => TimeoutSeconds(ms) * 1000 < ms + 1000)
  /\ RunResult({ms}, exit).timedOut = (exit = "null") /\ ~ RunResult({}, exit).timedOut

(***************************************************************************)
(* A request to a language server.  What it writes is a sequence of        *)
(* pieces: of a message the name of the header, its size, the blank line   *)
(* and the body, each as <<piece, message>>; a chunk holds some of them.   *)
(***************************************************************************)
Pieced(id) == <<<<"name", id>>, <<"size", id>>, <<"blank", id>>, <<"body", id>>, <<"body", id>>>>

\* The next message of a buffer: its id with what is left, {} if more must come.
\* Without a size in what comes before the blank line, or with a body that is no
\* message, there is an error.
TryReadMessage(buffer) ==
  LET blank == SelectInSeq(buffer, LAMBDA x : x[1] = "blank")
      sized == \E i \in 1..blank - 2 : buffer[i][1] = "name" /\ buffer[i + 1][1] = "size"
      body  == SubSeq(buffer, blank + 1, blank + 2)
  IN CASE blank = 0 -> {}
       [] ~ sized -> {[error |-> TRUE]}
       [] Len(buffer) < blank + 2 -> {}
       [] OTHER -> {IF body = SubSeq(Pieced(body[1][2]), 4, 5)
                    THEN [error |-> FALSE, id |-> body[1][2], rest |-> SubSeq(buffer, blank + 3, Len(buffer))]
                    ELSE [error |-> TRUE]}

\* Mutant: of a chunk one message is read.
ReadOne(state, chunk) ==
  LET buffer == state.buffer \o chunk   read == TryReadMessage(buffer)
  IN IF read = {} THEN [state EXCEPT !.buffer = buffer]
     ELSE LET m == CHOOSE r \in read : TRUE IN
          CASE m.error -> [state EXCEPT !.at = "error"]
            [] m.id = state.waits -> [state EXCEPT !.at = "answered"]
            [] OTHER -> [state EXCEPT !.buffer = m.rest]

\* Messages are read off until the one that is waited for: what a chunk has after
\* it is dropped.
RECURSIVE ReadAll(_, _)
ReadAll(state, chunk) ==
  LET buffer == state.buffer \o chunk   read == TryReadMessage(buffer)
  IN IF read = {} THEN [state EXCEPT !.buffer = buffer]
     ELSE LET m == CHOOSE r \in read : TRUE IN
          CASE m.error -> [state EXCEPT !.at = "error"]
            [] m.id = state.waits -> [state EXCEPT !.at = "answered"]
            [] OTHER -> ReadAll([state EXCEPT !.buffer = m.rest], <<>>)
OnData(state, chunk) == ReadAll(state, chunk)

Waiting(id) == [waits |-> id, buffer |-> <<>>, at |-> "waiting"]

\* initialize is request 1, the caller's is request 2: it is sent when 1 has been
\* answered, and waited for with a buffer of its own.
Exchange(chunks) ==
  FoldLeft(LAMBDA s, c : CASE s.at # "waiting" -> s
                           [] OnData(s, c).at = "answered" /\ s.waits = 1 -> Waiting(2)
                           [] OTHER -> OnData(s, c),
           Waiting(1), chunks)

\* However the server's messages are cut into chunks, the request gets its own
\* answer, unless the chunk that answers initialize ends inside of the header of
\* a message, of which the rest is then no message (plugin-lsp, waitForResponse).
AnswersItsOwn(ids, cuts) ==
  LET stream == FlattenSeq([i \in DOMAIN ids |-> Pieced(ids[i])])
      ends   == SetToSortSeq(cuts \cup {0, Len(stream)}, LAMBDA a, b : a < b)
      chunks == [k \in 1..Len(ends) - 1 |-> SubSeq(stream, ends[k] + 1, ends[k + 1])]
      answered == 5 * (CHOOSE i \in DOMAIN ids : ids[i] = 1)       \* where the answer to initialize ends
      asked  == CHOOSE e \in Range(ends) : e >= answered /\ \A x \in Range(ends) : x >= answered => e <= x
      order  == (CHOOSE i \in DOMAIN ids : ids[i] = 2) * 5 - 5 >= asked     \* 2 is not answered before
      inHeader == asked < Len(stream) /\ asked % 5 \in {1, 2}
  IN order => Exchange(chunks).at = (IF inHeader THEN "error" ELSE "answered")

(***************************************************************************)
(* MCP servers and skills                                                  *)
(***************************************************************************)
Trimmed(n) == CASE n = " a " -> "a" [] n = " " -> "" [] OTHER -> n
NormalizeServer(server) ==
  LET needs == IF server.transport = "stdio" THEN "command" ELSE "url"
      id == Trimmed(server.id)
  IN IF id = "" \/ Trimmed(Field(server, needs, "")) = "" THEN {} ELSE {[server EXCEPT !.id = id]}

\* Mutant: an id is compared as it was given.
RegisterAsGiven(servers, server) ==
  IF NormalizeServer(server) = {} \/ \E i \in DOMAIN servers : servers[i].id = server.id
  THEN servers ELSE Append(servers, CHOOSE s \in NormalizeServer(server) : TRUE)

RegisterServer(servers, server) ==
  IF NormalizeServer(server) = {} \/ \E i \in DOMAIN servers : servers[i].id = Trimmed(server.id)
  THEN servers ELSE Append(servers, CHOOSE s \in NormalizeServer(server) : TRUE)

McpStep(servers, op) ==
  IF op.op = "register" THEN RegisterServer(servers, op.server) ELSE SelectSeq(servers, LAMBDA s : s.id # op.id)

\* No id is there twice, every server has what its transport needs, and the one
\* registered first stays until it is removed (plugin-mcp, createMcpRegistry).
ServersKept(ops) ==
  LET After(n) == FoldLeft(McpStep, <<>>, SubSeq(ops, 1, n))
  IN \A n \in 0..Len(ops) :
       /\ \A i, j \in DOMAIN After(n) : After(n)[i].id = After(n)[j].id => i = j
       /\ \A i \in DOMAIN After(n) : NormalizeServer(After(n)[i]) = {After(n)[i]}
       /\ n > 0 /\ ops[n].op = "register" => IsPrefix(After(n - 1), After(n))
       /\ n > 0 /\ ops[n].op = "remove" => \A i \in DOMAIN After(n) : After(n)[i].id # ops[n].id

\* Skills are loaded from the sources there are, the project's first, and of two
\* with one name, whatever its case, the first is kept.
Sources(options, there) ==
  SelectSeq((IF options.project THEN <<"project">> ELSE <<>>) \o options.custom
              \o (IF options.user THEN <<"user">> ELSE <<>>) \o (IF options.global THEN <<"global">> ELSE <<>>),
            LAMBDA s : s \in there)
DedupeSkills(skills) ==
  FoldLeft(LAMBDA kept, s : IF \E i \in DOMAIN kept : kept[i].key = s.key THEN kept ELSE Append(kept, s), <<>>, skills)
LoadSkills(options, skillsIn) ==
  LET sources == Sources(options, DOMAIN skillsIn)
  IN DedupeSkills(FlattenSeq([i \in DOMAIN sources |->
       [k \in DOMAIN skillsIn[sources[i]] |-> [key |-> skillsIn[sources[i]][k], from |-> sources[i]]]]))

\* Every name that a source has is there once, from the source that comes first
\* (plugin-agent-skills, load).
NearestSkillWins(options, skillsIn) ==
  LET skills == LoadSkills(options, skillsIn)
      sources == Sources(options, DOMAIN skillsIn)
      Has(s, name) == name \in Range(skillsIn[s])
  IN \A name \in UNION {Range(skillsIn[s]) : s \in Range(sources)} :
       LET named == {i \in DOMAIN skills : skills[i].key = name}
           first == CHOOSE i \in DOMAIN sources : Has(sources[i], name) /\ \A j \in 1..i - 1 : ~ Has(sources[j], name)
       IN Cardinality(named) = 1 /\ \A i \in named : skills[i].from = sources[first]

(***************************************************************************)
(* Scopes                                                                  *)
(***************************************************************************)
CreateRootScope(id) == [id |-> id, rootId |-> id, lineage |-> <<id>>]

\* Mutant: the root of a bare parent is the parent of the parent.
RootIdOfParent(parent) == Field(parent, "rootId", Field(parent, "parentId", parent.id))

NormalizeParentLineage(parent) ==
  IF Field(parent, "lineage", <<>>) # <<>> THEN parent.lineage ELSE <<parent.id>>
ResolveRootId(parent) == Field(parent, "rootId", NormalizeParentLineage(parent)[1])

CreateChildScope(parent, id) ==
  [id |-> id, rootId |-> ResolveRootId(parent), parentId |-> parent.id,
   lineage |-> Append(NormalizeParentLineage(parent), id)]

\* ensureScope() keeps the scope a value has; withScope() replaces it.
EnsureScope(value, scope) == IF "scope" \in DOMAIN value THEN value ELSE ("scope" :> scope) @@ value

\* Below a parent whose own fields agree, as far as it has them, a scope's lineage
\* begins with its root and ends with its parent and itself (core/scope,
\* createChildScope).
Agrees(parent) ==
  IF Field(parent, "lineage", <<>>) = <<>> THEN Field(parent, "rootId", parent.id) = parent.id
  ELSE Last(parent.lineage) = parent.id /\ Field(parent, "rootId", parent.lineage[1]) = parent.lineage[1]
LineageNamesRoot(parent, ids) ==
  LET last == FoldLeft(LAMBDA p, id : CreateChildScope(p, id), parent, ids)
      n == Len(last.lineage)
  IN Agrees(parent) /\ ids # <<>> =>
       /\ last.lineage[1] = last.rootId
       /\ last.lineage[n] = last.id /\ last.lineage[n - 1] = last.parentId
       /\ SubSeq(last.lineage, n - Len(ids) + 1, n) = ids
       /\ EnsureScope([scope |-> last], CreateRootScope("x")).scope = last
=============================================================================
