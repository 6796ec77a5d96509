----------------------------- MODULE StorageRules -----------------------------
(***************************************************************************)
(* What is kept: the storage in memory and the one on SQLite, messages on  *)
(* a storage, and the memories of an agent in files (plugin-storage-memory,*)
(* plugin-storage-sqlite, plugin-messaging, plugin-memory-files).  A step  *)
(* gives [state, threw]; its number is the time.                           *)
(***************************************************************************)
EXTENDS Integers, Sequences, FiniteSets, SequencesExt, Functions

Put(f, key, value) == [k \in DOMAIN f \cup {key} |-> IF k = key THEN value ELSE f[k]]
Field(r, f, other) == IF f \in DOMAIN r THEN r[f] ELSE other
Done(s)  == [state |-> s, threw |-> FALSE]
Threw(s) == [state |-> s, threw |-> TRUE]
Run(Do(_, _, _), init, ops) ==       \* a program: each operation on what the last left
  FoldLeftDomain(LAMBDA s, i : Do(s, ops[i], i).state, init, ops)

\* normalizeName(): names are trimmed, and may not be blank.
NormalizeName(n) == CASE n = " a " -> "a" [] n = " " -> "" [] OTHER -> n
Cloneable(value) == value # "function"

(***************************************************************************)
(* In memory: namespaces of records by key                                 *)
(***************************************************************************)
GetMemoryNamespaceState(m, ns) == IF ns \in DOMAIN m THEN m ELSE Put(m, ns, <<>>)

WriteMemoryRecord(m, op, now) ==
  LET ns == NormalizeName(op.ns)   key == NormalizeName(op.key)
      touched == GetMemoryNamespaceState(m, ns)
      old == touched[ns]
      record == IF key \in DOMAIN old
                THEN [value |-> op.value, version |-> old[key].version + 1, created |-> old[key].created, updated |-> now]
                ELSE [value |-> op.value, version |-> 1, created |-> now, updated |-> now]
  IN IF ns = "" THEN Threw(m)
     ELSE IF key = "" \/ ~ Cloneable(op.value) THEN Threw(touched)
     ELSE Done([touched EXCEPT ![ns] = Put(@, key, record)])

RemoveMemoryRecord(m, op) ==
  LET ns == NormalizeName(op.ns)   key == NormalizeName(op.key)
  IN IF ns = "" THEN Threw(m)
     ELSE IF ns \notin DOMAIN m THEN Done(m)
     ELSE IF key = "" THEN Threw(m)
     ELSE Done([m EXCEPT ![ns] = RestrictDomain(@, LAMBDA k : k # key)])

DeleteNamespace(m, op) ==
  IF NormalizeName(op.ns) = "" THEN Threw(m) ELSE Done(RestrictDomain(m, LAMBDA n : n # NormalizeName(op.ns)))

\* restore() takes the names of namespaces as they are, and trims those of keys.
RestoreMemory(m, op) ==
  LET entries == op.entries
      names == {entries[i].ns : i \in DOMAIN entries}
      Of(ns) == FoldLeft(LAMBDA f, e : IF e.ns = ns THEN Put(f, NormalizeName(e.key), e.record) ELSE f, <<>>, entries)
  IN IF \E i \in DOMAIN entries : NormalizeName(entries[i].key) = "" THEN Threw(m)
     ELSE Done([ns \in names |-> Of(ns)])

OnMemoryRecords(m, op, now) ==
  CASE op.op = "set" -> WriteMemoryRecord(m, op, now)
    [] op.op = "delete" -> RemoveMemoryRecord(m, op)
    [] op.op = "deleteNamespace" -> DeleteNamespace(m, op)
    [] op.op = "clear" -> Done(<<>>)
    [] op.op = "restore" -> RestoreMemory(m, op)

\* The operation of a transaction works on a draft, or past it on the storage, and
\* stops where it throws; the draft replaces whatever is there then, unless the
\* operation threw or gave a promise.
Body(Do(_, _, _), op, start, now) ==
  FoldLeft(LAMBDA acc, b :
             IF acc.threw THEN acc
             ELSE LET r == Do(acc[b.on], b, now) IN [acc EXCEPT ![b.on] = r.state, !.threw = r.threw],
           start, op.body)

\* Mutant: a draft is committed though a promise is still to settle.
CommitsPromise(m, op, now) ==
  LET end == Body(OnMemoryRecords, op, [outer |-> m, draft |-> m, threw |-> FALSE], now)
  IN IF end.threw \/ op.ends = "throw" THEN Threw(end.outer) ELSE Done(end.draft)

TransactionInMemory(m, op, now) ==
  LET end == Body(OnMemoryRecords, op, [outer |-> m, draft |-> m, threw |-> FALSE], now)
  IN IF end.threw \/ op.ends # "return" THEN Threw(end.outer) ELSE Done(end.draft)

OnMemory(m, op, now) == IF op.op = "transaction" THEN TransactionInMemory(m, op, now) ELSE OnMemoryRecords(m, op, now)

(***************************************************************************)
(* On SQLite: one table, its rows by <<namespace, key>>                    *)
(***************************************************************************)
WriteSqliteRecord(db, op, now) ==
  LET at == <<NormalizeName(op.ns), NormalizeName(op.key)>>
      row == IF at \in DOMAIN db
             THEN [db[at] EXCEPT !.value = op.value, !.version = @ + 1, !.updated = now]
             ELSE [value |-> op.value, version |-> 1, created |-> now, updated |-> now]
  IN IF ~ Cloneable(op.value) \/ at[1] = "" \/ at[2] = "" THEN Threw(db) ELSE Done(Put(db, at, row))

RemoveSqliteRecord(db, op) ==
  LET at == <<NormalizeName(op.ns), NormalizeName(op.key)>>
  IN IF at[1] = "" \/ at[2] = "" THEN Threw(db) ELSE Done(RestrictDomain(db, LAMBDA r : r # at))

DeleteSqliteNamespace(db, op) ==
  IF NormalizeName(op.ns) = "" THEN Threw(db) ELSE Done(RestrictDomain(db, LAMBDA r : r[1] # NormalizeName(op.ns)))

\* A second row of the same key, or a blank name, undoes the whole.
RestoreSqlite(db, op) ==
  LET At(e) == <<NormalizeName(e.ns), NormalizeName(e.key)>>
      entries == op.entries
      ats == {At(entries[i]) : i \in DOMAIN entries}
  IN IF (\E i, j \in DOMAIN entries : i # j /\ At(entries[i]) = At(entries[j])) \/ \E at \in ats : at[1] = "" \/ at[2] = "" THEN Threw(db)
     ELSE Done([at \in ats |-> entries[CHOOSE i \in DOMAIN entries : At(entries[i]) = at].record])

OnSqliteRecords(db, op, now) ==
  CASE op.op = "set" -> WriteSqliteRecord(db, op, now)
    [] op.op = "delete" -> RemoveSqliteRecord(db, op)
    [] op.op = "deleteNamespace" -> DeleteSqliteNamespace(db, op)
    [] op.op = "clear" -> Done(<<>>)
    [] op.op = "restore" -> RestoreSqlite(db, op)

\* There is one connection: what goes past the transaction is in it.
RunSqliteTransaction(db, op, now) ==
  LET Same(s, b, n) == OnSqliteRecords(s, b, n)
      end == FoldLeft(LAMBDA acc, b : IF acc.threw THEN acc ELSE Same(acc.state, b, now), Done(db), op.body)
  IN IF end.threw \/ op.ends # "return" THEN Threw(db) ELSE Done(end.state)

OnSqlite(db, op, now) ==
  IF op.op # "transaction" THEN OnSqliteRecords(db, op, now)
  ELSE IF \E i \in DOMAIN op.body : op.body[i].op = "restore" THEN Threw(db)       \* BEGIN inside of BEGIN
  ELSE RunSqliteTransaction(db, op, now)

(***************************************************************************)
(* Messages on a storage, by id                                            *)
(***************************************************************************)
DefaultThreadId(from, to) == {from, to}       \* both, sorted

SendMessage(box, op, now) ==
  IF op.id \in DOMAIN box THEN Threw(box)
  ELSE Done(Put(box, op.id, [from |-> op.from, to |-> op.to, thread |-> Field(op, "thread", DefaultThreadId(op.from, op.to)),
                             words |-> op.words, at |-> now]))

MarkRead(box, op, now) ==
  IF op.id \notin DOMAIN box THEN Done(box) ELSE Done([box EXCEPT ![op.id] = Put(@, "readAt", now)])

\* Mutant: an agent's messages to others stay.
ClearReceived(box, op) ==
  Done(RestrictDomain(box, LAMBDA id : "agent" \in DOMAIN op /\ op.agent # box[id].to))

ClearMessages(box, op) ==
  Done(RestrictDomain(box, LAMBDA id : "agent" \in DOMAIN op /\ op.agent \notin {box[id].from, box[id].to}))

OnMessages(box, op, now) ==
  CASE op.op = "send" -> SendMessage(box, op, now)
    [] op.op = "read" -> MarkRead(box, op, now)
    [] op.op = "clear" -> ClearMessages(box, op)

\* sort(): the members of a set, those that come before others first.
Sorted(S, before) ==
  CHOOSE s \in [1..Cardinality(S) -> S] : ToSet(s) = S /\ \A i, j \in DOMAIN s : <<s[i], s[j]>> \in before => i < j
SortMessages(box, ids) == Sorted(ids, {p \in ids \X ids : box[p[1]].at < box[p[2]].at})
Inbox(box, agent, unreadOnly) ==
  Reverse(SortMessages(box, {id \in DOMAIN box : box[id].to = agent /\ ~ (unreadOnly /\ "readAt" \in DOMAIN box[id])}))
Thread(box, thread) == SortMessages(box, {id \in DOMAIN box : box[id].thread = thread})

Score(box, id, tokens) == Cardinality(box[id].words \cap tokens)
SearchMessages(box, agent, tokens, limit) ==
  LET found == {id \in DOMAIN box : agent \in {box[id].from, box[id].to} /\ Score(box, id, tokens) > 0}
      best  == Sorted(found, {p \in found \X found :
                                \/ Score(box, p[1], tokens) > Score(box, p[2], tokens)
                                \/ Score(box, p[1], tokens) = Score(box, p[2], tokens) /\ box[p[1]].at > box[p[2]].at})
  IN SubSeq(best, 1, IF limit < Len(best) THEN limit ELSE Len(best))

(***************************************************************************)
(* The memories of an agent, a file for each                               *)
(***************************************************************************)
\* Mutant: a memory that is told again is as if told for the first time.
RememberAnew(disk, op, now) ==
  Done(Put(disk, op.id, [text |-> op.text, tags |-> Field(op, "tags", {}), created |-> now, updated |-> now]))

\* remember() keeps the text and the tags of the entry; its namespace and kind are
\* not written.
Remember(disk, op, now) ==
  LET created == IF op.id \in DOMAIN disk THEN disk[op.id].created ELSE now
  IN Done(Put(disk, op.id, [text |-> op.text, tags |-> Field(op, "tags", {}), created |-> created, updated |-> now]))

Forget(disk, op) == Done(RestrictDomain(disk, LAMBDA id : id # op.id))

OnFiles(disk, op, now) == IF op.op = "remember" THEN Remember(disk, op, now) ELSE Forget(disk, op)

MatchesFilter(entry, filter) ==
  /\ \A f \in {"namespace", "kind"} \cap DOMAIN filter : f \in DOMAIN entry /\ entry[f] = filter[f]
  /\ Field(filter, "tags", {}) \subseteq entry.tags

\* loadEntries() lists the directory, then reads each file as it is by then: "gone",
\* "half" written, or an entry.  One that is gone is told like a directory that is
\* not there; one that is half written makes the whole fail.
LoadEntries(files) ==
  IF \E id \in DOMAIN files : files[id] = <<"half">> THEN Threw({})
  ELSE IF \E id \in DOMAIN files : files[id] = <<"gone">> THEN Done({})
  ELSE Done({Put(files[id][2], "id", id) : id \in DOMAIN files})

ListMemories(files, filter) ==
  LET r == LoadEntries(files) IN [r EXCEPT !.state = {e \in @ : MatchesFilter(e, filter)}]

===============================================================================
