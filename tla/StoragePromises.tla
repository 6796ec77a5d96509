---------------------------- MODULE StoragePromises ----------------------------
(***************************************************************************)
(* What the storages, the messages and the memories of StorageRules promise*)
(* after any operations, and which operations may be asked of them.        *)
(***************************************************************************)
EXTENDS StorageRules, FunctionInput

(***************************************************************************)
(* What may be asked                                                       *)
(***************************************************************************)
IsRecord(r) == r = [value |-> r.value, version |-> r.version, created |-> r.created, updated |-> r.updated]

\* A snapshot has each key of each namespace once.
IsSnapshot(entries) ==
  /\ IsSeq(entries)
  /\ \A i \in DOMAIN entries : IsRecord(entries[i].record)
  /\ \A i, j \in DOMAIN entries : entries[i].ns = entries[j].ns /\ entries[i].key = entries[j].key => i = j
IsSimple(op) ==
  /\ op.op \in {"set", "delete", "deleteNamespace", "clear", "restore"}
  /\ op.op = "restore" => IsSnapshot(op.entries)
IsOperation(op) ==
  /\ op.op # "transaction" => IsSimple(op)
  /\ op.op = "transaction" => IsSeq(op.body) /\ \A i \in DOMAIN op.body : IsSimple(op.body[i])

(***************************************************************************)
(* The storages                                                            *)
(***************************************************************************)
\* Whatever is done to both, they hold the same records with the same versions and
\* times, and refuse the same operations, except for what differs by design: an
\* operation that goes past its transaction, a restore in one, a snapshot whose
\* names are not trimmed, and a blank key that is deleted where there is nothing,
\* which only one of them refuses, and then with the transaction it is in.
DeletesBlank(op) == op.op = "delete" /\ NormalizeName(op.key) = ""
Alike(op) ==
  CASE op.op = "transaction" -> \A i \in DOMAIN op.body : op.body[i].on = "draft" /\ op.body[i].op # "restore" /\ ~ DeletesBlank(op.body[i])
    [] op.op = "restore" -> \A i \in DOMAIN op.entries : NormalizeName(op.entries[i].ns) = op.entries[i].ns /\ op.entries[i].ns # ""
                              /\ NormalizeName(op.entries[i].key) = op.entries[i].key
    [] OTHER -> TRUE
Rows(m) == {<<at, m[at[1]][at[2]]>> : at \in UNION {{ns} \X DOMAIN m[ns] : ns \in DOMAIN m}}

StoragesAgree(ops, last) ==
  LET m  == Run(OnMemory, <<>>, ops)
      db == Run(OnSqlite, <<>>, ops)
      m2 == OnMemory(m, last, Len(ops) + 1)
      db2 == OnSqlite(db, last, Len(ops) + 1)
  IN (\A i \in DOMAIN ops : Alike(ops[i])) =>
       /\ Rows(m) = {<<at, db[at]>> : at \in DOMAIN db}
       /\ Alike(last) => m2.threw = db2.threw \/ DeletesBlank(last)
       /\ db2.threw => db2.state = db
       /\ m2.threw /\ Alike(last) => Rows(m2.state) = Rows(m)

(***************************************************************************)
(* The messages                                                            *)
(***************************************************************************)
\* A message that was sent is in the inbox of whom it is for, the newest first, and
\* in its thread, both ways of a conversation in one, until it is cleared; it stays
\* as it was sent, whoever sends its id again before it is cleared; read ones leave
\* the unread; and what is cleared for an agent is all it sent or got, and nothing
\* else.
Cleared(ops, i, j) ==
  \E n \in (i + 1)..j : ops[n].op = "clear" /\ ("agent" \in DOMAIN ops[n] => ops[n].agent \in {ops[i].from, ops[i].to})
TakesSend(ops, taken, i) ==
  ops[i].op = "send" /\ \A h \in taken : h < i /\ ops[h].id = ops[i].id => Cleared(ops, h, i)

Newest(box, s) == \A x, y \in DOMAIN s : x < y => box[s[y]].at <= box[s[x]].at
FindsBest(box, agent, tokens, limit) ==
  LET s == SearchMessages(box, agent, tokens, limit)
  IN /\ \A x, y \in DOMAIN s : x < y => Score(box, s[x], tokens) >= Score(box, s[y], tokens)
     /\ Len(s) < limit => \A id \in DOMAIN box : agent \in {box[id].from, box[id].to} /\ box[id].words \cap tokens # {} => id \in ToSet(s)

Delivered(ops, agents, box, i) ==
  LET b == box[ops[i].id]
  IN /\ b.from = ops[i].from /\ b.to = ops[i].to /\ b.words = ops[i].words /\ b.at = i
     /\ "readAt" \in DOMAIN b <=> \E n \in (i + 1)..Len(ops) : ops[n].op = "read" /\ ops[n].id = ops[i].id
     /\ \A a \in agents : ops[i].id \in ToSet(Inbox(box, a, FALSE)) <=> a = b.to
     /\ \A a \in agents : ops[i].id \in ToSet(Inbox(box, a, TRUE)) <=> a = b.to /\ "readAt" \notin DOMAIN b
     /\ ops[i].id \in ToSet(Thread(box, b.thread))
BoxTells(ops, agents, box, kept) ==
  /\ DOMAIN box = {ops[i].id : i \in kept}
  /\ \A i \in kept : Delivered(ops, agents, box, i)
  /\ \A i, j \in kept : "thread" \notin DOMAIN ops[i] /\ "thread" \notin DOMAIN ops[j] /\ ops[i].from = ops[j].to /\ ops[i].to = ops[j].from =>
       Thread(box, box[ops[i].id].thread) = Thread(box, box[ops[j].id].thread)
  /\ \A a \in agents : Newest(box, Inbox(box, a, FALSE)) /\ FindsBest(box, a, {"v", "w"}, 2)

MessagesDelivered(ops, agents) ==
  \E taken \in SUBSET DOMAIN ops :
    /\ \A i \in DOMAIN ops : i \in taken <=> TakesSend(ops, taken, i)
    /\ BoxTells(ops, agents, Run(OnMessages, <<>>, ops), {i \in taken : ~ Cleared(ops, i, Len(ops))})

(***************************************************************************)
(* The memories                                                            *)
(***************************************************************************)
\* What was remembered and not forgotten since is there, as it was told the last
\* time and since when it was told first; a list that nothing disturbs has each of
\* them that has the tags asked for; and one that is disturbed has all of them or
\* none, never a part.
Since(ops, k, id) ==
  {i \in 1..k : ops[i].id = id /\ ops[i].op = "remember" /\ \A j \in (i + 1)..k : ops[j].id = id => ops[j].op = "remember"}
DiskTells(ops, disk) ==
  LET told == [id \in {ops[i].id : i \in DOMAIN ops} |-> Since(ops, Len(ops), id)]
  IN /\ DOMAIN disk = {id \in DOMAIN told : told[id] # {}}
     /\ \A id \in DOMAIN disk : LET last == CHOOSE i \in told[id] : \A j \in told[id] : j <= i
                                    first == CHOOSE i \in told[id] : \A j \in told[id] : i <= j
                                IN /\ disk[id].text = ops[last].text /\ disk[id].tags = Field(ops[last], "tags", {})
                                   /\ disk[id].created = first /\ disk[id].updated = last

Found(disk, bad, how) == [id \in DOMAIN disk |-> IF id \in bad THEN <<how>> ELSE <<"entry", disk[id]>>]
ListsTell(disk, filter, disturbed, how) ==
  LET list == ListMemories(Found(disk, {}, how), filter)
      torn == ListMemories(Found(disk, disturbed, how), filter)
  IN /\ {"namespace", "kind"} \cap DOMAIN filter = {} =>
          {e.id : e \in list.state} = {id \in DOMAIN disk : Field(filter, "tags", {}) \subseteq disk[id].tags}
     /\ torn.state = list.state \/ torn.state = {}

MemoriesKept(ops, filter, disturbed, how) ==
  LET disk == Run(OnFiles, <<>>, ops) IN DiskTells(ops, disk) /\ ListsTell(disk, filter, disturbed, how)

------------------------------------------------------------------------------
\* Any operations on a storage, and one more on top of them; on a box; and on the
\* memories, with a list of them that finds some files as the last argument says.
Legal ==
  /\ Rule("storage")  => IsSeq(input[2]) /\ (\A i \in DOMAIN input[2] : IsOperation(input[2][i])) /\ IsOperation(input[3])
  /\ Rule("messages") => IsSeq(input[2]) /\ \A i \in DOMAIN input[2] : input[2][i].op \in {"send", "read", "clear"}
  /\ Rule("memories") => IsSeq(input[2]) /\ (\A i \in DOMAIN input[2] : input[2][i].op \in {"remember", "forget"}) /\ input[5] \in {"gone", "half"}

\* Both storages keep the same, messages arrive and stay until they are cleared,
\* and memories are found until they are forgotten (plugin-storage-memory,
\* plugin-storage-sqlite, plugin-messaging, plugin-memory-files).
StoredRulesAgree ==
  /\ Rule("storage")  => StoragesAgree(input[2], input[3])
  /\ Rule("messages") => MessagesDelivered(input[2], {"p", "q", "r"})
  /\ Rule("memories") => MemoriesKept(input[2], input[3], input[4], input[5])

StoredSpec == input = <<>> /\ [][Legal']_input
================================================================================
