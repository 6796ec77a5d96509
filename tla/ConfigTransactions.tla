-------------------------- MODULE ConfigTransactions --------------------------
(***************************************************************************)
(* Transactions on the canonical configuration files (plugin-config-yaml,  *)
(* src/transactions.ts) as the console's applyConfig calls them            *)
(* (plugin-web-ui, src/server.ts).  A call looks its idempotency key up,   *)
(* reads the revision, plans and backs up its edits, writes them one by    *)
(* one through temporary files, resolves the result again and either       *)
(* answers or restores the backups.  Every file access is an await, so     *)
(* calls interleave there; accesses fail and the process may crash.        *)
(***************************************************************************)
EXTENDS Naturals, Sequences, FiniteSets, Functions

CONSTANTS
  Calls,       \* calls of applyConfig
  FileOrder,   \* the files, in the order in which discovery sorts them
  Places,      \* the sets of files that discovery looks for in one step
  Framework,   \* framework.yaml
  Contents,    \* what an edit may write
  Rejected,    \* contents that an edit's schema allows and resolution does not
  Starting,    \* contents the files may have at first
  Requests,    \* what callers ask for: a sequence of edits and a key
  Callers,     \* "serial": one call at a time; "free": any number
  MaxFaults,   \* bound: file accesses that fail
  Invalid,     \* stands for edits that normalizeEdit or the schema refuses
  Absent, Torn, None

Files == Range(FileOrder)
Keys == {r.key : r \in Requests} \ {None}

Failures == {"verify_failed", "write_failed"}
Answers == {"applied", "refused"} \cup Failures

\* Discovery looks for every file, each request has an edit (the preview
\* refuses an empty list), framework.yaml is never deleted (the edits of that
\* concern cannot), and the names that stand for no content are distinct.
ASSUME ConfigAssumption ==
  /\ FileOrder \in Seq(Files) /\ Framework \in Files
  /\ Places \in Seq(SUBSET Files) /\ Places # <<>> /\ UNION Range(Places) = Files
  /\ Rejected \subseteq Contents /\ Starting \subseteq Contents
  /\ {Invalid, Absent, Torn, None} \cap (Contents \cup Files) = {}
  /\ Torn \notin {Invalid, Absent} /\ None \notin Answers /\ None \notin Requests
  /\ Callers \subseteq {"serial", "free"}
  /\ MaxFaults \in Nat
  /\ \A r \in Requests :
       /\ r.edits \in Seq([file : Files, next : Contents \cup {Absent, Invalid},
                           was : Contents \cup {Absent, None}])
       /\ r.edits # <<>>
       /\ \A i \in DOMAIN r.edits : r.edits[i].file = Framework => r.edits[i].next # Absent

VARIABLES
  disk,     \* file |-> its content, Torn while it is being overwritten
  temps,    \* <<file, call>> |-> content of the temporary file so named
  call,     \* call |-> where applyConfig stands
  stored,   \* key |-> the answer kept for it
  callers,  \* who calls
  faults,   \* accesses that failed so far
  crashed,  \* has the process crashed?
  before    \* history: call |-> the files when it began

vars == <<disk, temps, call, stored, callers, faults, crashed, before>>

-----------------------------------------------------------------------------
(***************************************************************************)
(* Calls                                                                   *)
(***************************************************************************)

Blank == [phase |-> "idle", request |-> None, expected |-> None,
          reading |-> None, place |-> 1, unread |-> {}, seen |-> <<>>,
          refused |-> FALSE, edit |-> 1, backups |-> <<>>, temp |-> None,
          answer |-> None, repeated |-> FALSE]

Ended == {"answered", "rejected", "lost"}
Active(c) == call[c].phase \notin Ended \cup {"idle"}
Edits(c) == call[c].request.edits
Edit(c) == Edits(c)[call[c].edit]
LastEdit(c) == call[c].edit = Len(Edits(c))

\* The next call of an asynchronous sequence may begin.
Allowed == callers = "free" \/ \A c \in Calls : ~ Active(c)

Put(c, rec) == call' = [call EXCEPT ![c] = rec]

StartReading(rec, purpose) ==
  [rec EXCEPT !.phase = "listing", !.reading = purpose, !.place = 1,
              !.unread = {}, !.seen = <<>>]

\* The call settles; with a key its answer is stored first.
Answer(rec, answer) ==
  [rec EXCEPT !.answer = answer,
              !.phase = IF rec.request.key = None THEN "answered" ELSE "storing"]

StartRestoring(rec, failure) ==
  [rec EXCEPT !.phase = "restoring", !.edit = 1, !.answer = failure]

\* The hash over the files that were listed and could still be read.
Revision(seen) == Restrict(seen, {f \in DOMAIN seen : seen[f] # Absent})

\* What resolveCanonicalConfig and the startup validation accept.
Resolves(seen) ==
  /\ Framework \in DOMAIN seen
  /\ \A f \in DOMAIN seen : seen[f] \in Contents \ Rejected

Present(files) == Restrict(files, {f \in Files : files[f] # Absent})

-----------------------------------------------------------------------------
(***************************************************************************)
(* Reading the configuration: for a snapshot, a preview or a verification  *)
(***************************************************************************)

\* discoverCanonicalConfig looks for the files of one place.
ListPlace(c) ==
  /\ call[c].phase = "listing"
  /\ LET found == {f \in Places[call[c].place] : disk[f] # Absent}
     IN Put(c, [call[c] EXCEPT
          !.unread = @ \cup found,
          !.place = @ + 1,
          !.phase = IF call[c].place = Len(Places) THEN "loading" ELSE @])
  /\ UNCHANGED <<disk, temps, stored, callers, faults, crashed, before>>

\* The first file not read yet, which may be gone since it was listed.
LoadFile(c) ==
  /\ call[c].phase = "loading"
  /\ \E i \in DOMAIN FileOrder :
       LET f == FileOrder[i]
       IN /\ f \in call[c].unread
          /\ \A j \in 1 .. (i - 1) : FileOrder[j] \notin call[c].unread
          /\ Put(c, [call[c] EXCEPT
               !.unread = @ \ {f},
               !.seen = [g \in DOMAIN @ \cup {f} |-> IF g = f THEN disk[f] ELSE @[g]]])
  /\ UNCHANGED <<disk, temps, stored, callers, faults, crashed, before>>

\* The files have been read for this purpose.
Loaded(c, purpose) ==
  /\ call[c].phase = "loading"
  /\ call[c].unread = {}
  /\ call[c].reading = purpose

-----------------------------------------------------------------------------
(***************************************************************************)
(* Operations                                                              *)
(***************************************************************************)

Init ==
  /\ disk \in {d \in [Files -> Starting \cup {Absent}] : Resolves(Present(d))}
  /\ temps = [t \in Files \X Calls |-> Absent]
  /\ call = [c \in Calls |-> Blank]
  /\ stored = [k \in Keys |-> None]
  /\ callers \in Callers
  /\ faults = 0
  /\ crashed = FALSE
  /\ before = [c \in Calls |-> None]

\* getConfig tells a caller the revision it may base its edits on.
Snapshot(c) ==
  /\ call[c].phase = "idle"
  /\ call[c].expected = None
  /\ Allowed
  /\ Put(c, StartReading(call[c], "snapshot"))
  /\ UNCHANGED <<disk, temps, stored, callers, faults, crashed, before>>

SnapshotTaken(c) ==
  /\ Loaded(c, "snapshot")
  /\ Put(c, [Blank EXCEPT !.expected = Revision(call[c].seen)])
  /\ UNCHANGED <<disk, temps, stored, callers, faults, crashed, before>>

\* A caller repeats a request it has no answer to with the same key.
ApplyConfig(c, r) ==
  /\ call[c].phase = "idle"
  /\ Allowed
  /\ \A d \in Calls \ {c} :
       r.key # None /\ call[d].request # None /\ call[d].request.key = r.key =>
         call[d].request = r /\ call[d].expected = call[c].expected
  /\ Put(c, LET rec == [call[c] EXCEPT !.request = r]
            IN IF r.key = None THEN StartReading(rec, "preview")
                               ELSE [rec EXCEPT !.phase = "lookup"])
  /\ before' = [before EXCEPT ![c] = disk]
  /\ UNCHANGED <<disk, temps, stored, callers, faults, crashed>>

\* Mutant: the answer kept for the key is not looked at.
LookUpNothing(c) ==
  /\ call[c].phase = "lookup"
  /\ Put(c, StartReading(call[c], "preview"))
  /\ UNCHANGED <<disk, temps, stored, callers, faults, crashed, before>>

LookUp(c) ==
  /\ call[c].phase = "lookup"
  /\ LET kept == stored[call[c].request.key]
     IN Put(c, IF kept = None THEN StartReading(call[c], "preview")
               ELSE [call[c] EXCEPT !.phase = "answered", !.answer = kept,
                                    !.repeated = TRUE])
  /\ UNCHANGED <<disk, temps, stored, callers, faults, crashed, before>>

Store(c) ==
  /\ call[c].phase = "storing"
  /\ stored' = [stored EXCEPT ![call[c].request.key] = call[c].answer]
  /\ Put(c, [call[c] EXCEPT !.phase = "answered"])
  /\ UNCHANGED <<disk, temps, callers, faults, crashed, before>>

\* Mutant: the expected revision is not compared.
CheckNoRevision(c) ==
  /\ Loaded(c, "preview")
  /\ Put(c, [call[c] EXCEPT !.phase = "planning"])
  /\ UNCHANGED <<disk, temps, stored, callers, faults, crashed, before>>

CheckRevision(c) ==
  /\ Loaded(c, "preview")
  /\ Put(c, [call[c] EXCEPT
       !.phase = "planning",
       !.refused = call[c].expected \notin {None, Revision(call[c].seen)}])
  /\ UNCHANGED <<disk, temps, stored, callers, faults, crashed, before>>

\* Each edit is checked and its expected hash compared with the file as it
\* is now; failures are collected and end the call after the last edit.
PlanEdit(c) ==
  /\ call[c].phase = "planning"
  /\ LET refused == \/ call[c].refused
                    \/ Edit(c).next = Invalid
                    \/ Edit(c).was \notin {None, disk[Edit(c).file]}
         rec == [call[c] EXCEPT !.refused = refused]
     IN Put(c, IF ~ LastEdit(c) THEN [rec EXCEPT !.edit = @ + 1]
               ELSE IF refused THEN Answer(rec, "refused")
               ELSE [rec EXCEPT !.phase = "backup", !.edit = 1])
  /\ UNCHANGED <<disk, temps, stored, callers, faults, crashed, before>>

\* A file that cannot be read is taken for one that did not exist.
BackUp(c) ==
  /\ call[c].phase = "backup"
  /\ \E failed \in BOOLEAN :
       /\ failed => faults < MaxFaults /\ disk[Edit(c).file] # Absent
       /\ faults' = faults + (IF failed THEN 1 ELSE 0)
       /\ LET content == IF failed THEN Absent ELSE disk[Edit(c).file]
              rec == [call[c] EXCEPT !.backups = Append(@, content)]
          IN Put(c, IF LastEdit(c) THEN [rec EXCEPT !.phase = "writing", !.edit = 1]
                                   ELSE [rec EXCEPT !.edit = @ + 1])
  /\ UNCHANGED <<disk, temps, stored, callers, crashed, before>>

\* On to the next edit, or to the verification after the last.
Written(c) ==
  Put(c, IF LastEdit(c) THEN StartReading(call[c], "verify")
         ELSE [call[c] EXCEPT !.phase = "writing", !.edit = @ + 1])

DeleteFile(c) ==
  /\ call[c].phase = "writing"
  /\ Edit(c).next = Absent
  /\ disk' = [disk EXCEPT ![Edit(c).file] = Absent]
  /\ Written(c)
  /\ UNCHANGED <<temps, stored, callers, faults, crashed, before>>

\* Mutant: the file is opened for writing in place.
WriteInPlace(c) ==
  /\ call[c].phase = "writing"
  /\ Edit(c).next # Absent
  /\ disk' = [disk EXCEPT ![Edit(c).file] = Torn]
  /\ temps' = [temps EXCEPT ![<<Edit(c).file, c>>] = Edit(c).next]
  /\ Put(c, [call[c] EXCEPT !.phase = "renaming", !.temp = c])
  /\ UNCHANGED <<stored, callers, faults, crashed, before>>

\* The temporary file is named after the file, the process and the
\* millisecond: a call that writes the same file at the same time may have
\* chosen the same name.
WriteTemp(c) ==
  /\ call[c].phase = "writing"
  /\ Edit(c).next # Absent
  /\ \E d \in {c} \cup {d \in Calls : /\ call[d].phase = "renaming"
                                      /\ Edit(d).file = Edit(c).file} :
       /\ temps' = [temps EXCEPT ![<<Edit(c).file, d>>] = Edit(c).next]
       /\ Put(c, [call[c] EXCEPT !.phase = "renaming", !.temp = d])
  /\ UNCHANGED <<disk, stored, callers, faults, crashed, before>>

RenameTemp(c) ==
  /\ call[c].phase = "renaming"
  /\ LET t == <<Edit(c).file, call[c].temp>>
     IN IF temps[t] = Absent
        THEN /\ Put(c, StartRestoring(call[c], "write_failed"))
             /\ UNCHANGED <<disk, temps>>
        ELSE /\ disk' = [disk EXCEPT ![Edit(c).file] = temps[t]]
             /\ temps' = [temps EXCEPT ![t] = Absent]
             /\ Written(c)
  /\ UNCHANGED <<stored, callers, faults, crashed, before>>

WriteFails(c) ==
  /\ call[c].phase \in {"writing", "renaming"}
  /\ faults < MaxFaults
  /\ faults' = faults + 1
  /\ Put(c, StartRestoring(call[c], "write_failed"))
  /\ UNCHANGED <<disk, temps, stored, callers, crashed, before>>

Verify(c) ==
  /\ Loaded(c, "verify")
  /\ Put(c, IF Resolves(call[c].seen) THEN Answer(call[c], "applied")
            ELSE StartRestoring(call[c], "verify_failed"))
  /\ UNCHANGED <<disk, temps, stored, callers, faults, crashed, before>>

-----------------------------------------------------------------------------
(***************************************************************************)
(* Rollback                                                                *)
(***************************************************************************)

Backup(c) == call[c].backups[call[c].edit]

Restored(c) ==
  Put(c, IF LastEdit(c) THEN Answer(call[c], call[c].answer)
         ELSE [call[c] EXCEPT !.phase = "restoring", !.edit = @ + 1])

\* Mutant: files that did not exist are left in place.
KeepCreated(c) ==
  /\ call[c].phase = "restoring"
  /\ Backup(c) = Absent
  /\ Restored(c)
  /\ UNCHANGED <<disk, temps, stored, callers, faults, crashed, before>>

RemoveCreated(c) ==
  /\ call[c].phase = "restoring"
  /\ Backup(c) = Absent
  /\ disk' = [disk EXCEPT ![Edit(c).file] = Absent]
  /\ Restored(c)
  /\ UNCHANGED <<temps, stored, callers, faults, crashed, before>>

\* The backup is written in place: the file is first emptied, then filled.
Truncate(c) ==
  /\ call[c].phase = "restoring"
  /\ Backup(c) # Absent
  /\ disk' = [disk EXCEPT ![Edit(c).file] = Torn]
  /\ Put(c, [call[c] EXCEPT !.phase = "filling"])
  /\ UNCHANGED <<temps, stored, callers, faults, crashed, before>>

Fill(c) ==
  /\ call[c].phase = "filling"
  /\ disk' = [disk EXCEPT ![Edit(c).file] = Backup(c)]
  /\ Restored(c)
  /\ UNCHANGED <<temps, stored, callers, faults, crashed, before>>

\* A rollback after a failed verification is inside the try and starts
\* over in the catch; one that fails in the catch rejects the call.
RestoreFails(c) ==
  /\ call[c].phase \in {"restoring", "filling"}
  /\ faults < MaxFaults
  /\ faults' = faults + 1
  /\ Put(c, IF call[c].answer = "verify_failed"
            THEN StartRestoring(call[c], "write_failed")
            ELSE [call[c] EXCEPT !.phase = "rejected", !.answer = None])
  /\ UNCHANGED <<disk, temps, stored, callers, crashed, before>>

\* The process dies with its calls; the next one has another process id, so
\* it never meets the temporary files.  The answers survive in a durable
\* storage and are lost with one in memory.
Crash ==
  /\ ~ crashed
  /\ \E c \in Calls : Active(c)
  /\ crashed' = TRUE
  /\ call' = [c \in Calls |-> IF Active(c) THEN [call[c] EXCEPT !.phase = "lost"]
                                           ELSE call[c]]
  /\ temps' = [t \in Files \X Calls |-> Absent]
  /\ stored' \in {stored, [k \in Keys |-> None]}
  /\ UNCHANGED <<disk, callers, faults, before>>

Reading(c) == ListPlace(c) \/ LoadFile(c)

Applying(c) ==
  \/ LookUp(c) \/ Store(c)
  \/ CheckRevision(c) \/ PlanEdit(c) \/ BackUp(c)
  \/ DeleteFile(c) \/ WriteTemp(c) \/ RenameTemp(c) \/ WriteFails(c)
  \/ Verify(c)

RollingBack(c) ==
  RemoveCreated(c) \/ Truncate(c) \/ Fill(c) \/ RestoreFails(c)

Next ==
  \/ \E c \in Calls : Snapshot(c) \/ SnapshotTaken(c)
  \/ \E c \in Calls, r \in Requests : ApplyConfig(c, r)
  \/ \E c \in Calls : Reading(c) \/ Applying(c) \/ RollingBack(c)
  \/ Crash

Spec == Init /\ [][Next]_vars

-----------------------------------------------------------------------------
(***************************************************************************)
(* Properties                                                              *)
(***************************************************************************)

Touched(c) == {Edits(c)[i].file : i \in DOMAIN Edits(c)}

\* What the edits make of some files.
Edited(c, files) ==
  [f \in Files |->
     LET writes == {i \in DOMAIN Edits(c) : Edits(c)[i].file = f}
     IN IF writes = {} THEN files[f]
        ELSE Edits(c)[CHOOSE i \in writes : \A j \in writes : j <= i].next]

\* No other call writes the files of c while it runs.
Undisturbed(c) ==
  \/ callers = "serial"
  \/ \A d \in Calls \ {c} :
       call[d].request = None \/ Touched(d) \cap Touched(c) = {}

\* No file was taken for missing because its backup could not be read.
BackedUp(c) ==
  \A i \in DOMAIN call[c].backups :
    call[c].backups[i] = Absent => before[c][Edits(c)[i].file] = Absent

RollbackBegan(c) == call[c].answer \in Failures \/ call[c].phase = "rejected"
Answered(c) == call[c].phase = "answered" /\ ~ call[c].repeated

\* A call that answers that it failed has put every file that it names back
\* as it was, wherever it failed, also when the rollback itself failed once.
RollbackRestores ==
  [][\A c \in Calls :
       /\ call[c].phase \in {"restoring", "filling"}
       /\ call'[c].phase \in {"storing", "answered"}
       /\ Undisturbed(c) /\ BackedUp(c)
       => \A f \in Touched(c) : disk'[f] = before[c][f]]_vars

\* A call that follows another and names the revision it is based on is
\* applied to that revision only, and completely.
AppliedToRevision ==
  [][\A c \in Calls :
       /\ Loaded(c, "verify") /\ call'[c].answer = "applied"
       /\ callers = "serial" /\ call[c].expected # None
       => /\ Present(before[c]) = call[c].expected
          /\ disk' = Edited(c, before[c])]_vars

\* Between calls that follow each other the configuration resolves, however
\* they ended, unless the process crashed or a rollback could not be done.
QuietDiskResolves ==
  /\ callers = "serial"
  /\ ~ crashed
  /\ \A c \in Calls : ~ Active(c) /\ call[c].phase # "rejected" /\ BackedUp(c)
  => Resolves(Present(disk))

\* Nobody, neither an overlapping call nor a process started after a crash,
\* finds a file half written, except where a rollback went on.
FilesWhole ==
  \A f \in Files : disk[f] = Torn =>
    \E c \in Calls : RollbackBegan(c) /\ f \in Touched(c)

\* What is on disk is whole, and resolves when no call is under way.
FilesSound == QuietDiskResolves /\ FilesWhole

\* A repeated call is answered like the first and writes nothing again,
\* unless they overlap or the process crashed in between.
RetriesApplyOnce ==
  callers = "serial" /\ ~ crashed =>
    \A c, d \in Calls :
      /\ c # d
      /\ call[c].phase = "answered" /\ call[d].phase = "answered"
      /\ call[c].request.key # None /\ call[c].request.key = call[d].request.key
      => call[c].answer = call[d].answer /\ (call[c].repeated \/ call[d].repeated)

\* Of two calls based on the same revision that both change the files, at
\* most one is applied; the other meets a conflict (docs/decisions/
\* 0028-web-ui-plugin-console.md:23, "atomic write, rollback, conflict
\* detection").  The revision is only compared before the first write.
ConflictsDetected ==
  \A c, d \in Calls :
    /\ c # d
    /\ Answered(c) /\ Answered(d)
    /\ call[c].expected # None /\ call[c].expected = call[d].expected
    /\ \A e \in {c, d} : Present(Edited(e, before[e])) # call[e].expected
    => ~ (call[c].answer = "applied" /\ call[d].answer = "applied")
=============================================================================
