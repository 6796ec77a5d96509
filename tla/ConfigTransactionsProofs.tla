----------------------- MODULE ConfigTransactionsProofs -----------------------
(***************************************************************************)
(* Proofs about ConfigTransactions for every set of calls, files, places,  *)
(* contents and requests and any number of failing accesses.               *)
(*                                                                         *)
(* The inductive invariant follows a call through its phases.  Kept says   *)
(* what the files named by an undisturbed call and its backups hold, in    *)
(* either mode; Inside what a call that is alone has read and written;     *)
(* Resolving and Keyed relate the disk and the kept answers to the calls.  *)
(***************************************************************************)
EXTENDS ConfigTransactions, TLAPS

Fields == {"phase", "request", "expected", "reading", "place", "unread", "seen",
           "refused", "edit", "backups", "temp", "answer", "repeated"}
Values == Contents \cup {Absent, Invalid, Torn}

\* Where a call stands.
Reads(c, purpose) == call[c].phase \in {"listing", "loading"} /\ call[c].reading = purpose
Early(c) == call[c].phase \in {"lookup", "planning", "backup"} \/ Reads(c, "preview")
Writing(c) == call[c].phase \in {"writing", "renaming"}
Restoring(c) == call[c].phase \in {"restoring", "filling"}
Going(c) == Early(c) \/ Writing(c) \/ Reads(c, "verify")

FileOf(c, i) == Edits(c)[i].file
KeyOf(c) == IF call[c].request = None THEN None ELSE call[c].request.key

Basic ==
  /\ disk \in [Files -> Values]
  /\ temps \in [Files \X Calls -> Values \ {Torn}]
  /\ DOMAIN call = Calls /\ \A c \in Calls : DOMAIN call[c] = Fields
  /\ stored \in [Keys -> Answers \cup {None}]
  /\ DOMAIN before = Calls
  /\ \A c \in Calls : call[c].request # None => before[c] \in [Files -> Values]

\* What the record of a call holds in each phase.
Shape(c) ==
  /\ \/ call[c].phase = "idle" \/ Reads(c, "snapshot") \/ Going(c) \/ Restoring(c)
     \/ call[c].phase = "storing" \/ call[c].phase \in Ended
  /\ call[c].phase = "idle" \/ Reads(c, "snapshot") =>
       /\ call[c].request = None /\ call[c].edit = 1
       /\ call[c].backups = <<>> /\ call[c].answer = None
  /\ Going(c) => call[c].request \in Requests /\ call[c].answer = None
  /\ Restoring(c) => call[c].request \in Requests /\ call[c].answer \in Failures
  /\ call[c].phase = "storing" =>
       /\ call[c].request \in Requests /\ call[c].answer \in Answers
       /\ call[c].request.key # None
  /\ call[c].phase = "answered" => call[c].request \in Requests /\ call[c].answer \in Answers
  /\ call[c].repeated => call[c].phase = "answered"
  /\ call[c].phase = "lookup" \/ Reads(c, "preview") => call[c].edit = 1
  /\ call[c].phase = "lookup" => call[c].request.key # None
  /\ call[c].backups \in Seq(Values)
  /\ Early(c) =>
       Len(call[c].backups) = (IF call[c].phase = "backup" THEN call[c].edit - 1 ELSE 0)
  /\ Writing(c) \/ Reads(c, "verify") \/ Restoring(c) =>
       Len(call[c].backups) = Len(Edits(c))
  /\ call[c].phase \in {"planning", "backup"} \/ Writing(c) \/ Restoring(c) =>
       call[c].edit \in 1 .. Len(Edits(c))
  /\ call[c].phase = "renaming" => call[c].temp \in Calls

\* Unless another call names its files: until the first write they are as they
\* were, its backups hold what they held, and a rollback has restored those of
\* the edits before the current one.
Kept(c) ==
  call[c].request # None /\ Active(c) /\ Undisturbed(c) =>
    /\ Early(c) => \A i \in DOMAIN Edits(c) : disk[FileOf(c, i)] = before[c][FileOf(c, i)]
    /\ \A i \in DOMAIN call[c].backups :
         call[c].backups[i] \in {Absent, before[c][FileOf(c, i)]}
    /\ Restoring(c) /\ BackedUp(c) =>
         \A i \in 1 .. (call[c].edit - 1) :
           \/ disk[FileOf(c, i)] = before[c][FileOf(c, i)]
           \/ call[c].phase = "filling" /\ FileOf(c, i) = Edit(c).file

\* The files after the first n edits of c.
Made(c, n) ==
  \A f \in Files :
    \/ disk[f] = before[c][f] /\ \A i \in 1 .. n : FileOf(c, i) # f
    \/ \E i \in 1 .. n : /\ FileOf(c, i) = f /\ disk[f] = Edits(c)[i].next
                         /\ \A j \in (i + 1) .. n : FileOf(c, j) # f

\* A call that nobody overlaps.
InsideReading(c) ==
  /\ call[c].phase = "listing" =>
       /\ call[c].place \in 1 .. Len(Places)
       /\ call[c].unread = {f \in Files : /\ disk[f] # Absent
                                          /\ \E i \in 1 .. (call[c].place - 1) : f \in Places[i]}
       /\ call[c].seen = <<>>
  /\ call[c].phase = "loading" =>
       /\ DOMAIN call[c].seen \cup call[c].unread = {f \in Files : disk[f] # Absent}
       /\ call[c].seen = [f \in DOMAIN call[c].seen |-> disk[f]]

InsideWriting(c) ==
  call[c].request # None =>
    /\ \A f \in Files \ Touched(c) : disk[f] = before[c][f]
    /\ call[c].phase = "planning" =>
         call[c].refused \/ call[c].expected \in {None, Present(before[c])}
    /\ call[c].phase = "backup" \/ Writing(c) \/ Reads(c, "verify") =>
         call[c].expected \in {None, Present(before[c])}
    /\ Writing(c) => Made(c, call[c].edit - 1)
    /\ call[c].phase = "renaming" =>
         /\ call[c].temp = c /\ Edit(c).next # Absent
         /\ temps[<<Edit(c).file, c>>] = Edit(c).next
    /\ Reads(c, "verify") => Made(c, Len(Edits(c)))

Inside(c) == callers = "serial" /\ Active(c) => InsideReading(c) /\ InsideWriting(c)

OneAtATime ==
  callers = "serial" => \A c, d \in Calls : Active(c) /\ Active(d) => c = d

\* Nothing has happened that may leave files that do not resolve.
Calm ==
  /\ callers = "serial" /\ ~ crashed
  /\ \A c \in Calls : call[c].phase # "rejected" /\ BackedUp(c)

\* Where the files that resolve are to be found.
Rests(c) ==
  IF ~ Active(c) \/ call[c].request = None \/ call[c].phase = "storing"
  THEN Resolves(Present(disk))
  ELSE Resolves(Present(before[c]))

Resolving ==
  Calm => /\ (\A c \in Calls : ~ Active(c)) => Resolves(Present(disk))
          /\ \A c \in Calls : Active(c) => Rests(c)

\* The answer kept for a key is the one that was given, once.
Keyed ==
  callers = "serial" /\ ~ crashed =>
    \A c \in Calls : KeyOf(c) # None =>
      /\ Active(c) /\ call[c].phase # "lookup" => stored[KeyOf(c)] = None
      /\ call[c].phase = "answered" =>
           /\ call[c].answer = stored[KeyOf(c)]
           /\ \A d \in Calls \ {c} :
                call[d].phase = "answered" /\ KeyOf(d) = KeyOf(c) =>
                  call[c].repeated \/ call[d].repeated

Each == \A c \in Calls : Shape(c) /\ Kept(c) /\ Inside(c)

IInv == Basic /\ Each /\ OneAtATime /\ Resolving /\ Keyed /\ FilesWhole

-----------------------------------------------------------------------------
(***************************************************************************)
(* What the edits of a request are, and the fields of changed records.     *)
(***************************************************************************)
LEMMA EditFacts ==
  ASSUME NEW c \in Calls, call[c].request \in Requests
  PROVE  /\ Len(Edits(c)) \in Nat \ {0}
         /\ DOMAIN Edits(c) = 1 .. Len(Edits(c))
         /\ \A i \in 1 .. Len(Edits(c)) :
              /\ FileOf(c, i) \in Files
              /\ Edits(c)[i].next \in Values \ {Torn}
         /\ Touched(c) = {FileOf(c, i) : i \in 1 .. Len(Edits(c))}
         /\ KeyOf(c) \in Keys \cup {None}
         /\ call[c].request # None
<1> DEFINE es == call[c].request.edits
           E == [file : Files, next : Contents \cup {Absent, Invalid}, was : Contents \cup {Absent, None}]
<1>1. es \in Seq(E) /\ es # <<>> /\ call[c].request # None
  BY ConfigAssumption
<1> HIDE DEF E
<1>2. Len(es) \in Nat \ {0} /\ DOMAIN es = 1 .. Len(es) /\ \A i \in 1 .. Len(es) : es[i] \in E
  BY <1>1
<1>3. \A e \in E : e.file \in Files /\ e.next \in Values \ {Torn}
  BY ConfigAssumption DEF E, Values
<1>4. KeyOf(c) \in Keys \cup {None}
  BY <1>1 DEF KeyOf, Keys
<1> QED BY <1>1, <1>2, <1>3, <1>4 DEF Edits, FileOf, Touched

LEMMA HasRequest ==
  ASSUME NEW c \in Calls, Shape(c), Active(c), call[c].request # None
  PROVE  call[c].request \in Requests
BY DEF Shape, Active, Ended

LEMMA PutFacts ==
  ASSUME Basic, NEW c \in Calls, NEW rec, DOMAIN rec = Fields, Put(c, rec)
  PROVE  /\ call'[c] = rec
         /\ DOMAIN call' = Calls /\ \A d \in Calls : DOMAIN call'[d] = Fields
         /\ \A d \in Calls \ {c} : call'[d] = call[d]
BY DEF Basic, Put

LEMMA StartReadingFacts ==
  ASSUME NEW rec, DOMAIN rec = Fields, NEW purpose
  PROVE  LET x == StartReading(rec, purpose)
         IN /\ DOMAIN x = Fields
            /\ x.phase = "listing" /\ x.reading = purpose /\ x.place = 1
            /\ x.unread = {} /\ x.seen = <<>>
            /\ x.request = rec.request /\ x.expected = rec.expected
            /\ x.refused = rec.refused /\ x.edit = rec.edit /\ x.backups = rec.backups
            /\ x.temp = rec.temp /\ x.answer = rec.answer /\ x.repeated = rec.repeated
BY DEF StartReading, Fields

LEMMA AnswerFacts ==
  ASSUME NEW rec, DOMAIN rec = Fields, NEW answer
  PROVE  LET x == Answer(rec, answer)
         IN /\ DOMAIN x = Fields
            /\ x.phase = (IF rec.request.key = None THEN "answered" ELSE "storing")
            /\ x.answer = answer
            /\ x.request = rec.request /\ x.expected = rec.expected
            /\ x.refused = rec.refused /\ x.edit = rec.edit /\ x.backups = rec.backups
            /\ x.temp = rec.temp /\ x.repeated = rec.repeated
            /\ x.reading = rec.reading /\ x.place = rec.place
            /\ x.unread = rec.unread /\ x.seen = rec.seen
BY DEF Answer, Fields

LEMMA StartRestoringFacts ==
  ASSUME NEW rec, DOMAIN rec = Fields, NEW failure
  PROVE  LET x == StartRestoring(rec, failure)
         IN /\ DOMAIN x = Fields
            /\ x.phase = "restoring" /\ x.edit = 1 /\ x.answer = failure
            /\ x.request = rec.request /\ x.expected = rec.expected
            /\ x.refused = rec.refused /\ x.backups = rec.backups
            /\ x.temp = rec.temp /\ x.repeated = rec.repeated
            /\ x.reading = rec.reading /\ x.place = rec.place
            /\ x.unread = rec.unread /\ x.seen = rec.seen
BY DEF StartRestoring, Fields

LEMMA BlankFacts == DOMAIN Blank = Fields
BY DEF Blank, Fields

-----------------------------------------------------------------------------
(***************************************************************************)
(* A step of c and the other calls.  Moves says what a step of c may do to *)
(* them: c alone changes its record, and it changes only files it names.   *)
(***************************************************************************)
MovesFiles(c) ==
  /\ disk' = disk \/ (call[c].request # None /\ \A f \in Files \ Touched(c) : disk'[f] = disk[f])
  /\ \A f \in Files : disk'[f] = Torn => disk[f] = Torn \/ (RollbackBegan(c)' /\ f \in Touched(c)')

MovesCall(c) ==
  /\ \A d \in Calls \ {c} : call'[d] = call[d] /\ before'[d] = before[d]
  /\ Active(c) \/ (call[c].phase = "idle" /\ Allowed)
  /\ call[c].request # None => call'[c].request = call[c].request /\ before'[c] = before[c]
  /\ RollbackBegan(c) => RollbackBegan(c)' /\ call'[c].request = call[c].request
  /\ BackedUp(c)' => BackedUp(c)
  /\ call'[c].phase \in Ended => ~ Active(c)'

Moves(c) ==
  /\ Basic' /\ MovesCall(c) /\ MovesFiles(c)
  /\ callers' = callers /\ crashed' = crashed

LEMMA OthersKept ==
  ASSUME IInv, NEW c \in Calls, Moves(c), NEW d \in Calls \ {c}
  PROVE  Shape(d)' /\ Kept(d)' /\ Inside(d)'
<1> USE DEF Moves, MovesCall
<1>1. call'[d] = call[d] /\ before'[d] = before[d]
  OBVIOUS
<1>2. Shape(d)'
  BY <1>1 DEF IInv, Each, Shape, Reads, Early, Writing, Restoring, Going, Edits
<1>3. callers = "serial" => ~ Active(d)
  BY DEF IInv, OneAtATime, Allowed
<1>4. Inside(d)'
  BY <1>1, <1>3 DEF Inside, Active
<1>5. Kept(d)'
  <2> SUFFICES ASSUME call[d].request # None, Active(d), Undisturbed(d)' PROVE Kept(d)'
    BY <1>1 DEF Kept, Active
  <2>1. callers # "serial"
    BY <1>3
  <2>2. Undisturbed(d)
    <3>1. ASSUME NEW e \in Calls \ {d}, call[e].request # None
          PROVE  Touched(e) \cap Touched(d) = {}
      <4>1. call'[e].request = call[e].request
        BY <3>1
      <4>2. Touched(e)' \cap Touched(d)' = {}
        BY <2>1, <3>1, <4>1 DEF Undisturbed
      <4>3. Touched(e)' = Touched(e) /\ Touched(d)' = Touched(d)
        BY <1>1, <4>1 DEF Touched, Edits
      <4> QED BY <4>2, <4>3
    <3> QED BY <3>1 DEF Undisturbed
  <2>3. call[d].request \in Requests
    BY HasRequest DEF IInv, Each
  <2>4. \A i \in 1 .. Len(Edits(d)) : disk'[FileOf(d, i)] = disk[FileOf(d, i)]
    <3>1. disk' = disk \/ Touched(c) \cap Touched(d) = {}
      BY <2>1, <2>2 DEF Undisturbed, MovesFiles
    <3>2. \A i \in 1 .. Len(Edits(d)) : FileOf(d, i) \in Files \cap Touched(d)
      BY <2>3, EditFacts
    <3> QED BY <3>1, <3>2 DEF MovesFiles
  <2>5. Shape(d) /\ Kept(d)
    BY DEF IInv, Each
  <2>6. /\ Restoring(d) => call[d].edit \in 1 .. Len(Edits(d))
        /\ Len(Edits(d)) \in Nat /\ DOMAIN Edits(d) = 1 .. Len(Edits(d))
    BY <2>3, <2>5, EditFacts DEF Shape
  <2>7. Early(d)' => \A i \in DOMAIN Edits(d) : disk'[FileOf(d, i)] = before'[d][FileOf(d, i)]
    BY <1>1, <2>2, <2>4, <2>5, <2>6 DEF Kept, Early, Reads
  <2>8. \A i \in DOMAIN call[d].backups : call[d].backups[i] \in {Absent, before'[d][FileOf(d, i)]}
    BY <1>1, <2>2, <2>5 DEF Kept
  <2>9. ASSUME Restoring(d)', BackedUp(d)', NEW i \in 1 .. (call[d].edit - 1)
        PROVE  \/ disk'[FileOf(d, i)] = before'[d][FileOf(d, i)]
               \/ call[d].phase = "filling" /\ FileOf(d, i) = Edit(d).file
    <3>1. Restoring(d) /\ BackedUp(d) /\ i \in 1 .. Len(Edits(d))
      BY <1>1, <2>6, <2>9 DEF Restoring, BackedUp, Edits
    <3> QED BY <1>1, <2>2, <2>4, <2>5, <3>1 DEF Kept
  <2> QED BY <1>1, <2>7, <2>8, <2>9 DEF Kept, FileOf, Edits, Edit
<1> QED BY <1>2, <1>4, <1>5

\* Who else is under way when calls follow each other: nobody.
LEMMA NobodyElse ==
  ASSUME IInv, NEW c \in Calls, MovesCall(c), callers = "serial", NEW d \in Calls \ {c}
  PROVE  ~ Active(d) /\ ~ Active(d)'
<1>1. ~ Active(d)
  BY DEF MovesCall, IInv, OneAtATime, Allowed
<1> QED BY <1>1 DEF MovesCall, Active

LEMMA CalmBefore ==
  ASSUME IInv, NEW c \in Calls, MovesCall(c), callers' = callers, crashed' = crashed,
         call[c].phase # "rejected", Calm'
  PROVE  Calm /\ Rests(c)
<1>1. Calm
  BY DEF Calm, MovesCall, BackedUp, Edits
<1>2. \A d \in Calls \ {c} : ~ Active(d)
  BY <1>1, NobodyElse DEF Calm
<1>3. CASE Active(c)
  BY <1>1, <1>3 DEF IInv, Resolving
<1>4. CASE ~ Active(c)
  BY <1>1, <1>2, <1>4 DEF IInv, Resolving, Rests
<1> QED BY <1>1, <1>3, <1>4

LEMMA StepSound ==
  ASSUME IInv, NEW c \in Calls, Moves(c), Shape(c)', Kept(c)', Inside(c)',
         Calm' => Rests(c)', Keyed'
  PROVE  IInv'
<1> USE DEF Moves
<1>1. Each'
  BY OthersKept DEF Each
<1>2. \A d \in Calls \ {c} : callers' = "serial" => ~ Active(d)'
  BY NobodyElse
<1>3. OneAtATime'
  BY <1>2 DEF OneAtATime
<1>4. Resolving'
  <2> SUFFICES ASSUME Calm' PROVE /\ (\A d \in Calls : ~ Active(d)') => Resolves(Present(disk))'
                                  /\ \A d \in Calls : Active(d)' => Rests(d)'
    BY DEF Resolving
  <2>1. Rests(c)' /\ \A d \in Calls \ {c} : ~ Active(d)'
    BY <1>2 DEF Calm
  <2>2. ~ Active(c)' => Resolves(Present(disk))'
    BY <2>1 DEF Rests
  <2> QED BY <2>1, <2>2
<1>5. FilesWhole'
  <2> SUFFICES ASSUME NEW f \in Files, disk'[f] = Torn
               PROVE  \E d \in Calls : RollbackBegan(d)' /\ f \in Touched(d)'
    BY DEF FilesWhole
  <2>1. CASE disk[f] = Torn
    <3>1. PICK d \in Calls : RollbackBegan(d) /\ f \in Touched(d)
      BY <2>1 DEF IInv, FilesWhole
    <3>2. call'[d].request = call[d].request /\ RollbackBegan(d)'
      BY <3>1 DEF MovesCall, RollbackBegan
    <3>3. Touched(d)' = Touched(d)
      BY <3>2 DEF Touched, Edits
    <3> QED BY <3>1, <3>2, <3>3
  <2> QED BY <2>1 DEF MovesFiles
<1> QED BY <1>1, <1>3, <1>4, <1>5 DEF IInv

\* A step that stores nothing and gives no answer that has a key.
LEMMA KeyedFrame ==
  ASSUME IInv, NEW c \in Calls, MovesCall(c), callers' = callers, crashed' = crashed,
         stored' = stored,
         \/ call'[c].phase = "lookup" \/ KeyOf(c)' = None
         \/ (KeyOf(c)' = KeyOf(c) /\ Active(c) /\ call[c].phase # "lookup"),
         call'[c].phase = "answered" => KeyOf(c)' = None
  PROVE  Keyed'
<1>1. \A d \in Calls \ {c} :
        call'[d] = call[d] /\ KeyOf(d)' = KeyOf(d) /\ Active(d)' = Active(d)
  BY DEF MovesCall, KeyOf, Active
<1> QED BY <1>1 DEF IInv, Keyed

-----------------------------------------------------------------------------
(***************************************************************************)
(* A step of c within a call leaves its request and the past alone.        *)
(***************************************************************************)
Continues(c) ==
  /\ DOMAIN call' = Calls /\ \A d \in Calls : DOMAIN call'[d] = Fields
  /\ \A d \in Calls \ {c} : call'[d] = call[d]
  /\ call'[c].request = call[c].request
  /\ before' = before /\ callers' = callers /\ crashed' = crashed
  /\ Active(c)

LEMMA PutContinues ==
  ASSUME Basic, NEW c \in Calls, NEW rec, DOMAIN rec = Fields, Put(c, rec),
         rec.request = call[c].request, Active(c),
         UNCHANGED <<before, callers, crashed>>
  PROVE  Continues(c) /\ call'[c] = rec
BY PutFacts DEF Continues

LEMMA SameRequest ==
  ASSUME NEW c \in Calls, Continues(c)
  PROVE  /\ Edits(c)' = Edits(c) /\ Touched(c)' = Touched(c) /\ KeyOf(c)' = KeyOf(c)
         /\ Undisturbed(c)' <=> Undisturbed(c)
<1>1. \A d \in Calls : call'[d].request = call[d].request
  BY DEF Continues
<1>2. \A d \in Calls : Touched(d)' = Touched(d)
  BY <1>1 DEF Touched, Edits
<1>3. Undisturbed(c)' <=> Undisturbed(c)
  BY <1>1, <1>2 DEF Undisturbed, Continues
<1> QED BY <1>1, <1>2, <1>3 DEF Edits, KeyOf

LEMMA ContinuesMoves ==
  ASSUME IInv, NEW c \in Calls, Continues(c),
         disk' \in [Files -> Values],
         temps' \in [Files \X Calls -> Values \ {Torn}],
         stored' \in [Keys -> Answers \cup {None}],
         MovesFiles(c),
         RollbackBegan(c) => RollbackBegan(c)',
         BackedUp(c)' => BackedUp(c)
  PROVE  Moves(c)
<1>1. Basic'
  BY DEF Continues, IInv, Basic
<1>2. MovesCall(c)
  BY DEF Continues, MovesCall, Active
<1> QED BY <1>1, <1>2 DEF Moves, Continues

\* Such a step that touches no file.
LEMMA QuietMoves ==
  ASSUME IInv, NEW c \in Calls, Continues(c), disk' = disk,
         temps' \in [Files \X Calls -> Values \ {Torn}],
         stored' \in [Keys -> Answers \cup {None}],
         RollbackBegan(c) => RollbackBegan(c)',
         BackedUp(c)' => BackedUp(c)
  PROVE  Moves(c)
BY ContinuesMoves DEF IInv, Basic, MovesFiles

-----------------------------------------------------------------------------
(***************************************************************************)
(* Reading the files.                                                      *)
(***************************************************************************)
LEMMA PlacesFacts ==
  /\ Len(Places) \in Nat \ {0}
  /\ \A i \in 1 .. Len(Places) : Places[i] \subseteq Files
  /\ \A f \in Files : \E i \in 1 .. Len(Places) : f \in Places[i]
<1>1. Places \in Seq(SUBSET Files) /\ Places # <<>> /\ UNION Range(Places) = Files
  BY ConfigAssumption
<1>2. Len(Places) \in Nat \ {0} /\ DOMAIN Places = 1 .. Len(Places)
  BY <1>1
<1>3. \A i \in 1 .. Len(Places) : Places[i] \in SUBSET Files
  BY <1>1, <1>2
<1>4. Range(Places) = {Places[i] : i \in 1 .. Len(Places)}
  BY <1>2 DEF Range
<1> QED BY <1>1, <1>2, <1>3, <1>4

LEMMA MadeSame ==
  ASSUME NEW c \in Calls, Continues(c), disk' = disk
  PROVE  Made(c, Len(Edits(c)))' <=> Made(c, Len(Edits(c)))
<1>1. call'[c].request = call[c].request /\ before' = before
  BY DEF Continues
<1> QED BY <1>1 DEF Made, Edits, FileOf

LEMMA ListPlaceStep ==
  ASSUME IInv, NEW c \in Calls, ListPlace(c)
  PROVE  IInv'
<1> DEFINE found == {f \in Places[call[c].place] : disk[f] # Absent}
           rec == [call[c] EXCEPT
                     !.unread = @ \cup found,
                     !.place = @ + 1,
                     !.phase = IF call[c].place = Len(Places) THEN "loading" ELSE @]
<1>0. Basic /\ Shape(c) /\ Kept(c) /\ Inside(c) /\ Active(c)
  BY DEF IInv, Each, ListPlace, Active, Ended
<1>1. /\ DOMAIN rec = Fields
      /\ rec.phase = (IF call[c].place = Len(Places) THEN "loading" ELSE "listing")
      /\ rec.place = call[c].place + 1 /\ rec.unread = call[c].unread \cup found
      /\ rec.request = call[c].request /\ rec.expected = call[c].expected
      /\ rec.reading = call[c].reading /\ rec.seen = call[c].seen
      /\ rec.refused = call[c].refused /\ rec.edit = call[c].edit
      /\ rec.backups = call[c].backups /\ rec.answer = call[c].answer
      /\ rec.repeated = call[c].repeated
  BY <1>0 DEF Basic, Fields, ListPlace
<1>2. Put(c, rec) /\ UNCHANGED <<disk, temps, stored, callers, faults, crashed, before>>
  BY DEF ListPlace
<1> HIDE DEF rec
<1>3. Continues(c) /\ call'[c] = rec
  BY <1>0, <1>1, <1>2, PutContinues
<1>4. Moves(c)
  <2>1. RollbackBegan(c) => RollbackBegan(c)'
    BY <1>0, <1>1, <1>3 DEF RollbackBegan, ListPlace
  <2>2. BackedUp(c)' => BackedUp(c)
    BY <1>1, <1>2, <1>3 DEF BackedUp, Edits
  <2> QED BY <1>0, <1>2, <1>3, <2>1, <2>2, QuietMoves DEF Basic
<1>5. Shape(c)'
  BY <1>0, <1>1, <1>3 DEF Shape, Reads, Early, Writing, Restoring, Going, Edits, Ended, ListPlace
<1>6. Kept(c)'
  BY <1>0, <1>1, <1>2, <1>3, SameRequest DEF Kept, Early, Reads, Restoring, Edits, FileOf, Active, Ended, ListPlace
<1>7. Inside(c)'
  <2> SUFFICES ASSUME callers = "serial" PROVE InsideReading(c)' /\ InsideWriting(c)'
    BY <1>2 DEF Inside
  <2>1. InsideReading(c) /\ InsideWriting(c)
    BY <1>0 DEF Inside
  <2>2. InsideWriting(c)'
    BY <1>1, <1>2, <1>3, <2>1, SameRequest, MadeSame DEF InsideWriting, Writing, Reads, ListPlace
  <2>3. InsideReading(c)'
    <3>0. <<>> = [f \in DOMAIN <<>> |-> disk[f]] /\ DOMAIN <<>> = {}
      OBVIOUS
    <3>1. /\ call[c].place \in 1 .. Len(Places) /\ call[c].seen = <<>>
          /\ call[c].unread = {f \in Files : /\ disk[f] # Absent
                                             /\ \E i \in 1 .. (call[c].place - 1) : f \in Places[i]}
      BY <2>1 DEF InsideReading, ListPlace
    <3>2. rec.unread = {f \in Files : /\ disk[f] # Absent
                                      /\ \E i \in 1 .. call[c].place : f \in Places[i]}
      BY <1>1, <3>1, PlacesFacts
    <3>3. CASE call[c].place = Len(Places)
      BY <1>1, <1>2, <1>3, <3>0, <3>1, <3>2, <3>3, PlacesFacts DEF InsideReading
    <3>4. CASE call[c].place # Len(Places)
      BY <1>1, <1>2, <1>3, <3>1, <3>2, <3>4, PlacesFacts DEF InsideReading
    <3> QED BY <3>3, <3>4
  <2> QED BY <2>2, <2>3
<1>8. Calm' => Rests(c)'
  BY <1>0, <1>1, <1>2, <1>3, <1>4, CalmBefore DEF Rests, Moves, Active, Ended, ListPlace
<1>9. Keyed'
  BY <1>0, <1>1, <1>2, <1>3, <1>4, KeyedFrame, SameRequest DEF Moves, ListPlace
<1> QED BY <1>4, <1>5, <1>6, <1>7, <1>8, <1>9, StepSound

LEMMA LoadFileStep ==
  ASSUME IInv, NEW c \in Calls, LoadFile(c)
  PROVE  IInv'
<1>0. Basic /\ Shape(c) /\ Kept(c) /\ Inside(c) /\ Active(c)
  BY DEF IInv, Each, LoadFile, Active, Ended
<1> PICK i \in DOMAIN FileOrder :
      /\ FileOrder[i] \in call[c].unread
      /\ Put(c, [call[c] EXCEPT
           !.unread = @ \ {FileOrder[i]},
           !.seen = [g \in DOMAIN @ \cup {FileOrder[i]} |->
                       IF g = FileOrder[i] THEN disk[FileOrder[i]] ELSE @[g]]])
  BY DEF LoadFile
<1> DEFINE f == FileOrder[i]
           seen == [g \in DOMAIN call[c].seen \cup {f} |-> IF g = f THEN disk[f] ELSE call[c].seen[g]]
           rec == [call[c] EXCEPT !.unread = @ \ {f}, !.seen = seen]
<1>1. /\ DOMAIN rec = Fields /\ rec.phase = "loading"
      /\ rec.request = call[c].request /\ rec.expected = call[c].expected
      /\ rec.reading = call[c].reading /\ rec.place = call[c].place
      /\ rec.unread = call[c].unread \ {f} /\ rec.seen = seen
      /\ rec.refused = call[c].refused /\ rec.edit = call[c].edit
      /\ rec.backups = call[c].backups /\ rec.temp = call[c].temp
      /\ rec.answer = call[c].answer /\ rec.repeated = call[c].repeated
  BY <1>0 DEF Basic, Fields, LoadFile
<1>2. Put(c, rec) /\ UNCHANGED <<disk, temps, stored, callers, faults, crashed, before>>
  BY DEF LoadFile
<1>a. f \in Files /\ f \in call[c].unread
  BY ConfigAssumption
<1> HIDE DEF rec, f
<1>3. Continues(c) /\ call'[c] = rec
  BY <1>0, <1>1, <1>2, PutContinues
<1>4. Moves(c)
  <2>1. RollbackBegan(c) => RollbackBegan(c)'
    BY <1>0, <1>1, <1>3 DEF RollbackBegan, LoadFile
  <2>2. BackedUp(c)' => BackedUp(c)
    BY <1>1, <1>2, <1>3 DEF BackedUp, Edits
  <2> QED BY <1>0, <1>2, <1>3, <2>1, <2>2, QuietMoves DEF Basic
<1>5. Shape(c)'
  BY <1>0, <1>1, <1>3 DEF Shape, Reads, Early, Writing, Restoring, Going, Edits, Ended, LoadFile
<1>6. Kept(c)'
  BY <1>0, <1>1, <1>2, <1>3, SameRequest
     DEF Kept, Early, Reads, Restoring, Edits, FileOf, Active, Ended, LoadFile
<1>7. Inside(c)'
  <2> SUFFICES ASSUME callers = "serial" PROVE InsideReading(c)' /\ InsideWriting(c)'
    BY <1>2 DEF Inside
  <2>1. InsideReading(c) /\ InsideWriting(c) /\ call[c].phase = "loading"
    BY <1>0 DEF Inside, LoadFile
  <2>2. InsideWriting(c)'
    BY <1>1, <1>2, <1>3, <2>1, SameRequest, MadeSame DEF InsideWriting, Writing, Reads
  <2>3. InsideReading(c)'
    <3>1. /\ DOMAIN call[c].seen \cup call[c].unread = {g \in Files : disk[g] # Absent}
          /\ \A g \in DOMAIN call[c].seen : call[c].seen[g] = disk[g]
      BY <2>1 DEF InsideReading
    <3>2. DOMAIN seen \cup (call[c].unread \ {f}) = {g \in Files : disk[g] # Absent}
      BY <1>a, <3>1
    <3>3. seen = [g \in DOMAIN seen |-> disk[g]]
      BY <3>1
    <3> HIDE DEF seen
    <3> QED BY <1>1, <1>2, <1>3, <3>2, <3>3 DEF InsideReading
  <2> QED BY <2>2, <2>3
<1>8. Calm' => Rests(c)'
  BY <1>0, <1>1, <1>2, <1>3, <1>4, CalmBefore DEF Rests, Moves, Active, Ended, LoadFile
<1>9. Keyed'
  BY <1>0, <1>1, <1>2, <1>3, <1>4, KeyedFrame, SameRequest DEF Moves, LoadFile
<1> QED BY <1>4, <1>5, <1>6, <1>7, <1>8, <1>9, StepSound

\* Snapshots have no request.
LEMMA SnapshotStep ==
  ASSUME IInv, NEW c \in Calls, Snapshot(c)
  PROVE  IInv'
<1> DEFINE rec == StartReading(call[c], "snapshot")
<1>0. Basic /\ Shape(c) /\ call[c].phase = "idle" /\ Allowed /\ ~ Active(c)
  BY DEF IInv, Each, Snapshot, Active
<1>1. /\ DOMAIN rec = Fields /\ rec.phase = "listing"
      /\ rec.request = call[c].request /\ rec.expected = call[c].expected
      /\ rec.reading = "snapshot" /\ rec.place = 1 /\ rec.unread = {}
      /\ rec.seen = <<>> /\ rec.refused = call[c].refused
      /\ rec.edit = call[c].edit /\ rec.backups = call[c].backups
      /\ rec.temp = call[c].temp /\ rec.answer = call[c].answer
      /\ rec.repeated = call[c].repeated
  BY <1>0, StartReadingFacts DEF Basic
<1>2. Put(c, rec) /\ UNCHANGED <<disk, temps, stored, callers, faults, crashed, before>>
  BY DEF Snapshot
<1> HIDE DEF rec
<1>3. /\ call'[c] = rec /\ DOMAIN call' = Calls
      /\ \A d \in Calls : DOMAIN call'[d] = Fields
      /\ \A d \in Calls \ {c} : call'[d] = call[d]
  BY <1>0, <1>1, <1>2, PutFacts
<1>a. call[c].request = None /\ call[c].edit = 1 /\ call[c].backups = <<>> /\ call[c].answer = None
  BY <1>0 DEF Shape
<1>4. Moves(c)
  <2>1. Basic'
    BY <1>0, <1>1, <1>2, <1>3, <1>a DEF Basic
  <2>2. MovesFiles(c)
    BY <1>2 DEF MovesFiles
  <2>3. ~ RollbackBegan(c) /\ BackedUp(c)
    BY <1>0, <1>a, ConfigAssumption DEF RollbackBegan, BackedUp, Answers
  <2>4. MovesCall(c)
    BY <1>0, <1>1, <1>2, <1>3, <1>a, <2>3 DEF MovesCall, Active
  <2> QED BY <1>2, <2>1, <2>2, <2>4 DEF Moves
<1>5. Shape(c)'
  BY <1>0, <1>1, <1>3, <1>a DEF Shape, Reads, Early, Writing, Restoring, Going, Edits, Ended
<1>6. Kept(c)'
  BY <1>1, <1>3, <1>a DEF Kept
<1>7. Inside(c)'
  BY <1>1, <1>3, <1>a, PlacesFacts DEF Inside, InsideReading, InsideWriting
<1>8. Calm' => Rests(c)'
  BY <1>0, <1>1, <1>2, <1>3, <1>4, <1>a, CalmBefore DEF Rests, Moves
<1>9. Keyed'
  <2>1. KeyOf(c)' = None /\ call'[c].phase # "answered"
    BY <1>1, <1>3, <1>a DEF KeyOf
  <2>2. MovesCall(c) /\ callers' = callers /\ crashed' = crashed /\ stored' = stored
    BY <1>2, <1>4 DEF Moves
  <2> QED BY <2>1, <2>2, KeyedFrame DEF KeyOf
<1> QED BY <1>4, <1>5, <1>6, <1>7, <1>8, <1>9, StepSound

LEMMA SnapshotTakenStep ==
  ASSUME IInv, NEW c \in Calls, SnapshotTaken(c)
  PROVE  IInv'
<1> DEFINE rec == [Blank EXCEPT !.expected = Revision(call[c].seen)]
<1>0. Basic /\ Shape(c) /\ Inside(c) /\ Active(c) /\ Reads(c, "snapshot") /\ call[c].phase = "loading"
  BY DEF IInv, Each, SnapshotTaken, Loaded, Reads, Active, Ended
<1>1. /\ DOMAIN rec = Fields /\ rec.phase = "idle" /\ rec.request = None /\ rec.edit = 1
      /\ rec.backups = <<>> /\ rec.answer = None /\ rec.repeated = FALSE
  BY DEF Blank, Fields
<1>2. Put(c, rec) /\ UNCHANGED <<disk, temps, stored, callers, faults, crashed, before>>
  BY DEF SnapshotTaken
<1> HIDE DEF rec
<1>a. call[c].request = None /\ call[c].backups = <<>> /\ call[c].answer = None
  BY <1>0 DEF Shape
<1>3. Continues(c) /\ call'[c] = rec
  BY <1>0, <1>1, <1>2, <1>a, PutContinues
<1>4. Moves(c)
  <2>1. ~ RollbackBegan(c) /\ BackedUp(c)
    BY <1>0, <1>a, ConfigAssumption DEF RollbackBegan, BackedUp, Answers
  <2> QED BY <1>0, <1>2, <1>3, <2>1, QuietMoves DEF Basic
<1>5. Shape(c)'
  <2>1. <<>> \in Seq(Values)
    OBVIOUS
  <2> QED BY <1>1, <1>3, <2>1 DEF Shape, Reads, Early, Writing, Restoring, Going, Ended
<1>6. Kept(c)'
  BY <1>1, <1>3 DEF Kept
<1>7. Inside(c)'
  BY <1>1, <1>3 DEF Inside, Active
<1>8. Calm' => Rests(c)'
  BY <1>0, <1>1, <1>2, <1>3, <1>4, <1>a, CalmBefore DEF Rests, Moves
<1>9. Keyed'
  BY <1>0, <1>1, <1>2, <1>3, <1>4, <1>a, KeyedFrame DEF Moves, KeyOf
<1> QED BY <1>4, <1>5, <1>6, <1>7, <1>8, <1>9, StepSound

-----------------------------------------------------------------------------
(***************************************************************************)
(* The calls, up to their first write.                                     *)
(***************************************************************************)
LEMMA ApplyConfigStep ==
  ASSUME IInv, NEW c \in Calls, NEW r \in Requests, ApplyConfig(c, r)
  PROVE  IInv'
<1> DEFINE asked == [call[c] EXCEPT !.request = r]
           rec == IF r.key = None THEN StartReading(asked, "preview")
                  ELSE [asked EXCEPT !.phase = "lookup"]
<1>0. Basic /\ Shape(c) /\ call[c].phase = "idle" /\ Allowed /\ ~ Active(c)
  BY DEF IInv, Each, ApplyConfig, Active
<1>b. DOMAIN asked = Fields /\ asked.request = r /\ asked.edit = call[c].edit
      /\ asked.backups = call[c].backups /\ asked.answer = call[c].answer
      /\ asked.repeated = call[c].repeated
  BY <1>0 DEF Basic, Fields
<1> HIDE DEF asked
<1>1. /\ DOMAIN rec = Fields /\ rec.request = r
      /\ IF r.key = None
         THEN rec.phase = "listing" /\ rec.reading = "preview" /\ rec.place = 1
              /\ rec.unread = {} /\ rec.seen = <<>>
         ELSE rec.phase = "lookup"
      /\ rec.edit = call[c].edit /\ rec.backups = call[c].backups
      /\ rec.answer = call[c].answer /\ rec.repeated = call[c].repeated
  <2>1. CASE r.key = None
    BY <1>b, <2>1, StartReadingFacts
  <2>2. CASE r.key # None
    BY <1>b, <2>2 DEF Fields
  <2> QED BY <2>1, <2>2
<1>2. /\ Put(c, rec) /\ UNCHANGED <<disk, temps, stored, callers, faults, crashed>>
      /\ before' = [before EXCEPT ![c] = disk]
  BY DEF ApplyConfig, asked
<1> HIDE DEF rec
<1>3. /\ call'[c] = rec /\ DOMAIN call' = Calls
      /\ \A d \in Calls : DOMAIN call'[d] = Fields
      /\ \A d \in Calls \ {c} : call'[d] = call[d] /\ before'[d] = before[d]
      /\ DOMAIN before' = Calls /\ before'[c] = disk
  <2>1. DOMAIN before = Calls
    BY <1>0 DEF Basic
  <2> QED BY <1>0, <1>1, <1>2, <2>1, PutFacts
<1>a. /\ call[c].request = None /\ call[c].edit = 1 /\ call[c].backups = <<>>
      /\ call[c].answer = None /\ ~ call[c].repeated /\ r # None
  BY <1>0, ConfigAssumption DEF Shape
<1>4. Moves(c)
  <2>1. Basic'
    BY <1>0, <1>1, <1>2, <1>3, <1>a DEF Basic
  <2>2. MovesFiles(c)
    BY <1>2 DEF MovesFiles
  <2>3. ~ RollbackBegan(c) /\ BackedUp(c)
    BY <1>0, <1>a, ConfigAssumption DEF RollbackBegan, BackedUp, Answers
  <2>4. MovesCall(c)
    BY <1>0, <1>1, <1>3, <1>a, <2>3 DEF MovesCall, Active
  <2> QED BY <1>2, <2>1, <2>2, <2>4 DEF Moves
<1>5. Shape(c)'
  <2>1. rec.phase # "idle" /\ rec.phase \notin Ended /\ rec.phase # "storing"
    BY <1>1 DEF Ended
  <2>2. <<>> \in Seq(Values) /\ Len(<<>>) = 0
    OBVIOUS
  <2> QED BY <1>1, <1>3, <1>a, <2>1, <2>2
          DEF Shape, Reads, Early, Writing, Restoring, Going, Edits, Ended
<1>6. Kept(c)'
  <2>1. Edits(c)' = r.edits /\ ~ Restoring(c)' /\ call'[c].backups = <<>>
    BY <1>1, <1>3, <1>a DEF Edits, Restoring
  <2> QED BY <1>2, <1>3, <2>1 DEF Kept, FileOf
<1>7. Inside(c)'
  <2>1. InsideReading(c)'
    BY <1>1, <1>3, <1>a, PlacesFacts DEF InsideReading
  <2>2. InsideWriting(c)'
    BY <1>1, <1>2, <1>3 DEF InsideWriting, Writing, Reads
  <2> QED BY <2>1, <2>2 DEF Inside
<1>8. Calm' => Rests(c)'
  <2> SUFFICES ASSUME Calm' PROVE Rests(c)'
    OBVIOUS
  <2>1. Resolves(Present(disk))
    BY <1>0, <1>2, <1>4, CalmBefore DEF Rests, Moves
  <2> QED BY <1>2, <1>3, <2>1 DEF Rests
<1>9. Keyed'
  <2>1. call'[c].phase = "lookup" \/ KeyOf(c)' = None
    BY <1>1, <1>3 DEF KeyOf
  <2>2. call'[c].phase # "answered"
    BY <1>1, <1>3
  <2> QED BY <1>2, <1>4, <2>1, <2>2, KeyedFrame DEF Moves
<1> QED BY <1>4, <1>5, <1>6, <1>7, <1>8, <1>9, StepSound

\* Before its first write a call that is alone finds the files as they were.
LEMMA EarlyDisk ==
  ASSUME IInv, NEW c \in Calls, callers = "serial", Active(c), call[c].request # None, Early(c)
  PROVE  disk = before[c]
<1>1. call[c].request \in Requests /\ Undisturbed(c) /\ Kept(c) /\ InsideWriting(c)
  BY HasRequest DEF IInv, Each, Undisturbed, Inside
<1>2. \A f \in Files : disk[f] = before[c][f]
  <2>1. \A f \in Touched(c) : disk[f] = before[c][f]
    BY <1>1, EditFacts DEF Kept
  <2>2. \A f \in Files \ Touched(c) : disk[f] = before[c][f]
    BY <1>1 DEF InsideWriting
  <2> QED BY <2>1, <2>2
<1>3. disk \in [Files -> Values] /\ before[c] \in [Files -> Values]
  BY DEF IInv, Basic
<1> QED BY <1>2, <1>3

\* A call that is alone has read what is on disk.
LEMMA SeenAll ==
  ASSUME IInv, NEW c \in Calls, callers = "serial", NEW purpose, Loaded(c, purpose)
  PROVE  call[c].seen = Present(disk) /\ Revision(call[c].seen) = Present(disk)
<1>1. InsideReading(c) /\ call[c].phase = "loading" /\ call[c].unread = {}
  BY DEF IInv, Each, Inside, Loaded, Active, Ended
<1>2. /\ call[c].seen = [f \in DOMAIN call[c].seen |-> disk[f]]
      /\ DOMAIN call[c].seen = {f \in Files : disk[f] # Absent}
  BY <1>1 DEF InsideReading
<1>3. call[c].seen = [f \in {g \in Files : disk[g] # Absent} |-> disk[f]]
  BY <1>2
<1>4. {f \in DOMAIN call[c].seen : call[c].seen[f] # Absent} = {f \in Files : disk[f] # Absent}
  BY <1>3
<1> QED BY <1>3, <1>4 DEF Present, Revision, Restrict

LEMMA LookUpStep ==
  ASSUME IInv, NEW c \in Calls, LookUp(c)
  PROVE  IInv'
<1> DEFINE kept == stored[call[c].request.key]
           rec == IF kept = None THEN StartReading(call[c], "preview")
                  ELSE [call[c] EXCEPT !.phase = "answered", !.answer = kept, !.repeated = TRUE]
<1>0. Basic /\ Shape(c) /\ Kept(c) /\ Inside(c) /\ Active(c) /\ call[c].phase = "lookup"
  BY DEF IInv, Each, LookUp, Active, Ended
<1>b. /\ call[c].request \in Requests /\ call[c].answer = None /\ Early(c)
      /\ ~ call[c].repeated /\ call[c].request # None
  BY <1>0, ConfigAssumption DEF Shape, Early, Going
<1>1. /\ DOMAIN rec = Fields /\ rec.request = call[c].request
      /\ IF kept = None
         THEN rec.phase = "listing" /\ rec.reading = "preview" /\ rec.place = 1
              /\ rec.unread = {} /\ rec.seen = <<>> /\ rec.answer = None /\ ~ rec.repeated
         ELSE rec.phase = "answered" /\ rec.answer = kept /\ rec.repeated
      /\ rec.edit = call[c].edit /\ rec.backups = call[c].backups
  <2>1. CASE kept = None
    BY <1>0, <1>b, <2>1, StartReadingFacts DEF Basic
  <2>2. CASE kept # None
    BY <1>0, <2>2 DEF Basic, Fields
  <2> QED BY <2>1, <2>2
<1>2. Put(c, rec) /\ UNCHANGED <<disk, temps, stored, callers, faults, crashed, before>>
  BY DEF LookUp
<1>c. kept \in Answers \/ kept = None \/ call[c].request.key \notin Keys
  BY <1>0 DEF Basic
<1> HIDE DEF rec
<1>3. Continues(c) /\ call'[c] = rec
  BY <1>0, <1>1, <1>2, PutContinues
<1>4. Moves(c)
  <2>1. ~ RollbackBegan(c)
    BY <1>0, <1>b, ConfigAssumption DEF RollbackBegan, Answers
  <2>2. BackedUp(c)' => BackedUp(c)
    BY <1>1, <1>2, <1>3 DEF BackedUp, Edits
  <2> QED BY <1>0, <1>2, <1>3, <2>1, <2>2, QuietMoves DEF Basic
<1>d. call[c].request.key \in Keys
  BY <1>0, <1>b DEF Keys, Shape
<1>5. Shape(c)'
  BY <1>0, <1>1, <1>3, <1>b, <1>c, <1>d DEF Shape, Reads, Early, Writing, Restoring, Going, Edits, Ended
<1>6. Kept(c)'
  BY <1>0, <1>1, <1>2, <1>3, <1>b, SameRequest
     DEF Kept, Early, Reads, Restoring, Edits, FileOf, Active, Ended
<1>7. Inside(c)'
  <2> SUFFICES ASSUME callers = "serial", kept = None PROVE InsideReading(c)' /\ InsideWriting(c)'
    BY <1>1, <1>2, <1>3 DEF Inside, Active, Ended
  <2>1. InsideReading(c)'
    BY <1>1, <1>3, PlacesFacts DEF InsideReading
  <2>2. InsideWriting(c)'
    BY <1>0, <1>1, <1>2, <1>3, <1>b, SameRequest DEF Inside, InsideWriting, Writing, Reads
  <2> QED BY <2>1, <2>2
<1>8. Calm' => Rests(c)'
  <2> SUFFICES ASSUME Calm' PROVE Rests(c)'
    OBVIOUS
  <2>1. Calm /\ Rests(c)
    BY <1>0, <1>2, <1>4, CalmBefore DEF Moves
  <2>2. Resolves(Present(before[c])) /\ disk = before[c]
    BY <1>0, <1>b, <2>1, EarlyDisk DEF Rests, Calm
  <2> QED BY <1>2, <2>2 DEF Rests
<1>9. Keyed'
  <2> SUFFICES ASSUME callers = "serial", ~ crashed PROVE Keyed'
    BY <1>2 DEF Keyed
  <2>1. \A d \in Calls \ {c} :
          call'[d] = call[d] /\ KeyOf(d)' = KeyOf(d) /\ Active(d)' = Active(d)
    BY <1>3 DEF Continues, KeyOf, Active
  <2>2. KeyOf(c)' = KeyOf(c) /\ KeyOf(c) = call[c].request.key
    BY <1>3, <1>b, SameRequest DEF KeyOf
  <2>3. Keyed /\ stored' = stored /\ call'[c] = rec
    BY <1>2, <1>3 DEF IInv
  <2>4. CASE kept = None
    BY <1>1, <2>1, <2>2, <2>3, <2>4 DEF Keyed
  <2>5. CASE kept # None
    <3>1. rec.phase = "answered" /\ rec.answer = stored[KeyOf(c)] /\ rec.repeated /\ ~ Active(c)'
      BY <1>1, <2>2, <2>3, <2>5 DEF Active, Ended
    <3> QED BY <2>1, <2>2, <2>3, <3>1 DEF Keyed
  <2> QED BY <2>4, <2>5
<1> QED BY <1>4, <1>5, <1>6, <1>7, <1>8, <1>9, StepSound

LEMMA StoreStep ==
  ASSUME IInv, NEW c \in Calls, Store(c)
  PROVE  IInv'
<1> DEFINE rec == [call[c] EXCEPT !.phase = "answered"]
           key == call[c].request.key
<1>0. Basic /\ Shape(c) /\ Active(c) /\ call[c].phase = "storing"
  BY DEF IInv, Each, Store, Active, Ended
<1>b. /\ call[c].request \in Requests /\ call[c].answer \in Answers /\ key # None
      /\ key \in Keys /\ KeyOf(c) = key /\ ~ call[c].repeated
  BY <1>0, ConfigAssumption DEF Shape, Keys, KeyOf
<1>1. /\ DOMAIN rec = Fields /\ rec.phase = "answered"
      /\ rec.request = call[c].request /\ rec.expected = call[c].expected
      /\ rec.reading = call[c].reading /\ rec.place = call[c].place
      /\ rec.unread = call[c].unread /\ rec.seen = call[c].seen
      /\ rec.refused = call[c].refused /\ rec.edit = call[c].edit
      /\ rec.backups = call[c].backups /\ rec.temp = call[c].temp
      /\ rec.answer = call[c].answer /\ rec.repeated = call[c].repeated
  BY <1>0 DEF Basic, Fields
<1>2. /\ Put(c, rec) /\ UNCHANGED <<disk, temps, callers, faults, crashed, before>>
      /\ stored' = [stored EXCEPT ![key] = call[c].answer]
  BY DEF Store
<1> HIDE DEF rec, key
<1>3. Continues(c) /\ call'[c] = rec
  BY <1>0, <1>1, <1>2, PutContinues
<1>4. Moves(c)
  <2>1. RollbackBegan(c) => RollbackBegan(c)'
    BY <1>0, <1>1, <1>3 DEF RollbackBegan
  <2>2. BackedUp(c)' => BackedUp(c)
    BY <1>1, <1>2, <1>3 DEF BackedUp, Edits
  <2>3. stored' \in [Keys -> Answers \cup {None}]
    BY <1>0, <1>2, <1>b DEF Basic
  <2> QED BY <1>0, <1>2, <1>3, <2>1, <2>2, <2>3, QuietMoves DEF Basic
<1>5. Shape(c)'
  BY <1>0, <1>1, <1>3, <1>b DEF Shape, Reads, Early, Writing, Restoring, Going, Edits, Ended
<1>6. ~ Active(c)'
  BY <1>1, <1>3 DEF Active, Ended
<1>7. Kept(c)' /\ Inside(c)'
  BY <1>6 DEF Kept, Inside
<1>8. Calm' => Rests(c)'
  BY <1>0, <1>2, <1>4, <1>6, CalmBefore DEF Rests, Moves
<1>9. Keyed'
  <2> SUFFICES ASSUME callers = "serial", ~ crashed PROVE Keyed'
    BY <1>2 DEF Keyed
  <2>1. \A d \in Calls \ {c} :
          call'[d] = call[d] /\ KeyOf(d)' = KeyOf(d) /\ ~ Active(d)'
    BY <1>3, <1>4, NobodyElse DEF Continues, KeyOf, Moves
  <2>2. KeyOf(c)' = key /\ stored'[key] = call[c].answer
    BY <1>0, <1>2, <1>3, <1>b, SameRequest DEF Basic
  <2>3. stored[key] = None
    BY <1>0, <1>b DEF IInv, Keyed
  <2>4. \A d \in Calls \ {c} : KeyOf(d) = key => call[d].phase # "answered"
    <3> SUFFICES ASSUME NEW d \in Calls, KeyOf(d) = key, call[d].phase = "answered" PROVE FALSE
      OBVIOUS
    <3>1. call[d].answer = None
      BY <1>b, <2>3 DEF IInv, Keyed
    <3>2. call[d].answer \in Answers
      BY DEF IInv, Each, Shape
    <3> QED BY <3>1, <3>2, ConfigAssumption
  <2>5. \A k \in Keys \ {key} : stored'[k] = stored[k]
    BY <1>0, <1>2 DEF Basic
  <2>6. \A d \in Calls : KeyOf(d) # None /\ call[d].phase = "answered" => KeyOf(d) \in Keys
    BY EditFacts DEF IInv, Each, Shape
  <2> QED BY <1>1, <1>3, <1>6, <2>1, <2>2, <2>4, <2>5, <2>6 DEF IInv, Keyed
<1> QED BY <1>4, <1>5, <1>7, <1>8, <1>9, StepSound

LEMMA CheckRevisionStep ==
  ASSUME IInv, NEW c \in Calls, CheckRevision(c)
  PROVE  IInv'
<1> DEFINE refused == call[c].expected \notin {None, Revision(call[c].seen)}
           rec == [call[c] EXCEPT !.phase = "planning", !.refused = refused]
<1>0. /\ Basic /\ Shape(c) /\ Kept(c) /\ Inside(c) /\ Active(c)
      /\ call[c].phase = "loading" /\ Reads(c, "preview") /\ Loaded(c, "preview")
  BY DEF IInv, Each, CheckRevision, Loaded, Reads, Active, Ended
<1>b. /\ call[c].request \in Requests /\ call[c].answer = None /\ Early(c)
      /\ ~ call[c].repeated /\ call[c].request # None
  BY <1>0, ConfigAssumption DEF Shape, Early, Going
<1>1. /\ DOMAIN rec = Fields /\ rec.phase = "planning"
      /\ rec.request = call[c].request /\ rec.expected = call[c].expected
      /\ rec.reading = call[c].reading /\ rec.place = call[c].place
      /\ rec.unread = call[c].unread /\ rec.seen = call[c].seen
      /\ rec.refused = refused /\ rec.edit = call[c].edit
      /\ rec.backups = call[c].backups /\ rec.temp = call[c].temp
      /\ rec.answer = call[c].answer /\ rec.repeated = call[c].repeated
  BY <1>0 DEF Basic, Fields
<1>2. Put(c, rec) /\ UNCHANGED <<disk, temps, stored, callers, faults, crashed, before>>
  BY DEF CheckRevision
<1> HIDE DEF rec
<1>3. Continues(c) /\ call'[c] = rec
  BY <1>0, <1>1, <1>2, PutContinues
<1>4. Moves(c)
  <2>1. RollbackBegan(c) => RollbackBegan(c)'
    BY <1>0, <1>1, <1>3, <1>b, ConfigAssumption DEF RollbackBegan, Answers
  <2>2. BackedUp(c)' => BackedUp(c)
    BY <1>1, <1>2, <1>3 DEF BackedUp, Edits
  <2> QED BY <1>0, <1>2, <1>3, <2>1, <2>2, QuietMoves DEF Basic
<1>5. Shape(c)'
  BY <1>0, <1>1, <1>3, <1>b, EditFacts DEF Shape, Reads, Early, Writing, Restoring, Going, Edits, Ended
<1>6. Kept(c)'
  BY <1>0, <1>1, <1>2, <1>3, <1>b, SameRequest
     DEF Kept, Early, Reads, Restoring, Edits, FileOf, Active, Ended
<1>7. Inside(c)'
  <2> SUFFICES ASSUME callers = "serial" PROVE InsideReading(c)' /\ InsideWriting(c)'
    BY <1>2 DEF Inside
  <2>1. Revision(call[c].seen) = Present(before[c])
    BY <1>0, <1>b, SeenAll, EarlyDisk
  <2>2. InsideWriting(c)'
    BY <1>0, <1>1, <1>2, <1>3, <1>b, <2>1, SameRequest DEF Inside, InsideWriting, Writing, Reads
  <2> QED BY <1>1, <1>3, <2>2 DEF InsideReading
<1>8. Calm' => Rests(c)'
  BY <1>0, <1>1, <1>2, <1>3, <1>4, CalmBefore DEF Rests, Moves, Active, Ended
<1>9. Keyed'
  BY <1>0, <1>1, <1>2, <1>3, <1>4, KeyedFrame, SameRequest DEF Moves
<1> QED BY <1>4, <1>5, <1>6, <1>7, <1>8, <1>9, StepSound

LEMMA PlanEditStep ==
  ASSUME IInv, NEW c \in Calls, PlanEdit(c)
  PROVE  IInv'
<1> DEFINE refused == \/ call[c].refused
                      \/ Edit(c).next = Invalid
                      \/ Edit(c).was \notin {None, disk[Edit(c).file]}
           planned == [call[c] EXCEPT !.refused = refused]
           rec == IF ~ LastEdit(c) THEN [planned EXCEPT !.edit = @ + 1]
                  ELSE IF refused THEN Answer(planned, "refused")
                  ELSE [planned EXCEPT !.phase = "backup", !.edit = 1]
<1>0. Basic /\ Shape(c) /\ Kept(c) /\ Inside(c) /\ Active(c) /\ call[c].phase = "planning"
  BY DEF IInv, Each, PlanEdit, Active, Ended
<1>b. /\ call[c].request \in Requests /\ call[c].answer = None /\ Early(c)
      /\ ~ call[c].repeated /\ call[c].request # None /\ call[c].edit \in 1 .. Len(Edits(c))
  BY <1>0, ConfigAssumption DEF Shape, Early, Going
<1>c. /\ DOMAIN planned = Fields /\ planned.phase = call[c].phase
      /\ planned.request = call[c].request /\ planned.expected = call[c].expected
      /\ planned.reading = call[c].reading /\ planned.place = call[c].place
      /\ planned.unread = call[c].unread /\ planned.seen = call[c].seen
      /\ planned.refused = refused /\ planned.edit = call[c].edit
      /\ planned.backups = call[c].backups /\ planned.temp = call[c].temp
      /\ planned.answer = call[c].answer /\ planned.repeated = call[c].repeated
  BY <1>0 DEF Basic, Fields
<1> HIDE DEF planned
<1>1. /\ DOMAIN rec = Fields /\ rec.request = call[c].request /\ rec.expected = call[c].expected
      /\ rec.backups = call[c].backups /\ rec.repeated = call[c].repeated
      /\ \/ /\ rec.phase = "planning" /\ rec.edit = call[c].edit + 1 /\ rec.refused = refused
            /\ ~ LastEdit(c) /\ rec.answer = call[c].answer
         \/ /\ rec.phase = IF call[c].request.key = None THEN "answered" ELSE "storing"
            /\ rec.answer = "refused"
         \/ /\ rec.phase = "backup" /\ rec.edit = 1 /\ rec.answer = call[c].answer /\ ~ refused
  <2>1. CASE ~ LastEdit(c)
    BY <1>0, <1>c, <2>1 DEF Fields
  <2>2. CASE LastEdit(c) /\ refused
    BY <1>c, <2>2, AnswerFacts
  <2>3. CASE LastEdit(c) /\ ~ refused
    BY <1>c, <2>3 DEF Fields
  <2> QED BY <2>1, <2>2, <2>3
<1>2. Put(c, rec) /\ UNCHANGED <<disk, temps, stored, callers, faults, crashed, before>>
  BY DEF PlanEdit, planned
<1>d. refused <=> (\/ call[c].refused
                   \/ Edit(c).next = Invalid
                   \/ Edit(c).was \notin {None, disk[Edit(c).file]})
  OBVIOUS
<1> HIDE DEF rec, refused
<1>3. Continues(c) /\ call'[c] = rec
  BY <1>0, <1>1, <1>2, PutContinues
<1>4. Moves(c)
  <2>1. RollbackBegan(c) => RollbackBegan(c)'
    BY <1>0, <1>1, <1>3, <1>b, ConfigAssumption DEF RollbackBegan, Answers
  <2>2. BackedUp(c)' => BackedUp(c)
    BY <1>1, <1>2, <1>3 DEF BackedUp, Edits
  <2> QED BY <1>0, <1>2, <1>3, <2>1, <2>2, QuietMoves DEF Basic
<1>5. Shape(c)'
  <2>1. ~ LastEdit(c) => call[c].edit + 1 \in 1 .. Len(Edits(c))
    BY <1>b, EditFacts DEF LastEdit
  <2> QED BY <1>0, <1>1, <1>3, <1>b, <2>1, EditFacts
          DEF Shape, Reads, Early, Writing, Restoring, Going, Edits, Ended, Answers
<1>6. Kept(c)'
  BY <1>0, <1>1, <1>2, <1>3, <1>b, SameRequest
     DEF Kept, Early, Reads, Restoring, Edits, FileOf, Active, Ended
<1>7. Inside(c)'
  <2> SUFFICES ASSUME callers = "serial", Active(c)' PROVE InsideReading(c)' /\ InsideWriting(c)'
    BY <1>2 DEF Inside
  <2>1. InsideWriting(c)'
    BY <1>0, <1>1, <1>2, <1>3, <1>b, <1>d, SameRequest
       DEF Inside, InsideWriting, Writing, Reads
  <2> QED BY <1>1, <1>3, <2>1 DEF InsideReading
<1>8. Calm' => Rests(c)'
  <2> SUFFICES ASSUME Calm' PROVE Rests(c)'
    OBVIOUS
  <2>1. Calm /\ Rests(c)
    BY <1>0, <1>2, <1>4, CalmBefore DEF Moves
  <2>2. Resolves(Present(before[c])) /\ disk = before[c]
    BY <1>0, <1>b, <2>1, EarlyDisk DEF Rests, Calm
  <2> QED BY <1>2, <2>2 DEF Rests
<1>9. Keyed'
  <2>1. KeyOf(c)' = KeyOf(c) /\ (call'[c].phase = "answered" => KeyOf(c) = None)
    BY <1>1, <1>3, <1>b, SameRequest DEF KeyOf
  <2> QED BY <1>0, <1>2, <1>4, <2>1, KeyedFrame DEF Moves
<1> QED BY <1>4, <1>5, <1>6, <1>7, <1>8, <1>9, StepSound

LEMMA BackUpStep ==
  ASSUME IInv, NEW c \in Calls, BackUp(c)
  PROVE  IInv'
<1>0. Basic /\ Shape(c) /\ Kept(c) /\ Inside(c) /\ Active(c) /\ call[c].phase = "backup"
  BY DEF IInv, Each, BackUp, Active, Ended
<1>b. /\ call[c].request \in Requests /\ call[c].answer = None /\ Early(c)
      /\ ~ call[c].repeated /\ call[c].request # None /\ call[c].edit \in 1 .. Len(Edits(c))
      /\ call[c].backups \in Seq(Values) /\ Len(call[c].backups) = call[c].edit - 1
      /\ Len(Edits(c)) \in Nat /\ DOMAIN Edits(c) = 1 .. Len(Edits(c))
  BY <1>0, ConfigAssumption, EditFacts DEF Shape, Early, Going
<1> DEFINE saved(content) == [call[c] EXCEPT !.backups = Append(@, content)]
<1> PICK failed \in BOOLEAN :
      LET content == IF failed THEN Absent ELSE disk[Edit(c).file]
      IN Put(c, IF LastEdit(c) THEN [saved(content) EXCEPT !.phase = "writing", !.edit = 1]
                ELSE [saved(content) EXCEPT !.edit = @ + 1])
  BY DEF BackUp
<1> DEFINE content == IF failed THEN Absent ELSE disk[Edit(c).file]
           rec == IF LastEdit(c) THEN [saved(content) EXCEPT !.phase = "writing", !.edit = 1]
                  ELSE [saved(content) EXCEPT !.edit = @ + 1]
<1>1. /\ DOMAIN rec = Fields /\ rec.request = call[c].request /\ rec.expected = call[c].expected
      /\ rec.backups = Append(call[c].backups, content)
      /\ rec.repeated = call[c].repeated /\ rec.answer = call[c].answer
      /\ rec.phase = IF LastEdit(c) THEN "writing" ELSE "backup"
      /\ rec.edit = IF LastEdit(c) THEN 1 ELSE call[c].edit + 1
  BY <1>0 DEF Basic, Fields
<1>2. Put(c, rec) /\ UNCHANGED <<disk, temps, stored, callers, crashed, before>>
  BY DEF BackUp
<1>c. Edit(c).file = FileOf(c, call[c].edit) /\ content \in Values /\ content \in {Absent, disk[FileOf(c, call[c].edit)]}
  <2>1. Edit(c).file = FileOf(c, call[c].edit) /\ Edit(c).file \in Files
    BY <1>b, EditFacts DEF Edit, FileOf
  <2> QED BY <1>0, <2>1 DEF Basic, Values
<1> HIDE DEF rec, content, saved
<1>d. /\ rec.backups \in Seq(Values) /\ Len(rec.backups) = call[c].edit
      /\ DOMAIN call[c].backups = 1 .. (call[c].edit - 1)
      /\ DOMAIN rec.backups = 1 .. call[c].edit
      /\ \A i \in 1 .. (call[c].edit - 1) : rec.backups[i] = call[c].backups[i]
      /\ rec.backups[call[c].edit] = content
  BY <1>1, <1>b, <1>c
<1>3. Continues(c) /\ call'[c] = rec
  BY <1>0, <1>1, <1>2, PutContinues
<1>e. UNCHANGED <<disk, temps, stored, callers, crashed, before>>
  BY <1>2
<1>4. Moves(c)
  <2>1. ~ RollbackBegan(c)
    BY <1>0, <1>b, ConfigAssumption DEF RollbackBegan, Answers
  <2>2. BackedUp(c)' => BackedUp(c)
    <3> SUFFICES ASSUME BackedUp(c)', NEW i \in 1 .. (call[c].edit - 1), call[c].backups[i] = Absent
                 PROVE  before[c][Edits(c)[i].file] = Absent
      BY <1>d DEF BackedUp
    <3>1. i \in 1 .. call[c].edit /\ rec.backups[i] = Absent
      BY <1>b, <1>d
    <3>2. Edits(c)' = Edits(c) /\ call'[c].backups = rec.backups /\ before' = before
      BY <1>3, <1>e, SameRequest
    <3> QED BY <1>d, <3>1, <3>2 DEF BackedUp
  <2> QED BY <1>0, <1>e, <1>3, <2>1, <2>2, QuietMoves DEF Basic
<1>f. LastEdit(c) <=> call[c].edit = Len(Edits(c))
  BY DEF LastEdit
<1>g. Edits(c)' = Edits(c) /\ (Undisturbed(c)' <=> Undisturbed(c))
  BY <1>3, SameRequest
<1>5. Shape(c)'
  <2>1. /\ rec.edit \in 1 .. Len(Edits(c))
        /\ Len(rec.backups) = IF rec.phase = "backup" THEN rec.edit - 1 ELSE Len(Edits(c))
    BY <1>1, <1>b, <1>d, <1>f
  <2> QED BY <1>1, <1>3, <1>b, <1>d, <1>g, <2>1
          DEF Shape, Reads, Early, Writing, Restoring, Going, Ended
<1>6. Kept(c)'
  <2> SUFFICES ASSUME Undisturbed(c)
               PROVE  /\ Early(c)' => \A i \in DOMAIN Edits(c) : disk[FileOf(c, i)] = before[c][FileOf(c, i)]
                      /\ \A i \in DOMAIN rec.backups : rec.backups[i] \in {Absent, before[c][FileOf(c, i)]}
                      /\ ~ Restoring(c)'
    BY <1>3, <1>e, <1>g DEF Kept, FileOf
  <2>1. /\ \A i \in DOMAIN Edits(c) : disk[FileOf(c, i)] = before[c][FileOf(c, i)]
        /\ \A i \in DOMAIN call[c].backups : call[c].backups[i] \in {Absent, before[c][FileOf(c, i)]}
    BY <1>0, <1>b DEF Kept
  <2>2. ~ Restoring(c)'
    BY <1>1, <1>3 DEF Restoring
  <2>3. \A i \in DOMAIN rec.backups : rec.backups[i] \in {Absent, before[c][FileOf(c, i)]}
    BY <1>b, <1>c, <1>d, <2>1
  <2> QED BY <2>1, <2>2, <2>3
<1>7. Inside(c)'
  <2> SUFFICES ASSUME callers = "serial" PROVE InsideReading(c)' /\ InsideWriting(c)'
    BY <1>e DEF Inside
  <2>1. InsideWriting(c) /\ disk = before[c]
    BY <1>0, <1>b, EarlyDisk DEF Inside
  <2>2. rec.phase = "writing" => rec.edit = 1
    BY <1>1
  <2>3. InsideWriting(c)'
    BY <1>0, <1>1, <1>e, <1>3, <1>b, <2>1, <2>2, SameRequest
       DEF InsideWriting, Writing, Reads, Made, Edits, FileOf
  <2> QED BY <1>1, <1>3, <2>3 DEF InsideReading
<1>8. Calm' => Rests(c)'
  BY <1>0, <1>1, <1>e, <1>3, <1>4, <1>b, CalmBefore DEF Rests, Moves, Active, Ended
<1>9. Keyed'
  BY <1>0, <1>1, <1>e, <1>3, <1>4, KeyedFrame, SameRequest DEF Moves
<1> QED BY <1>4, <1>5, <1>6, <1>7, <1>8, <1>9, StepSound

-----------------------------------------------------------------------------
(***************************************************************************)
(* Writing and verifying.                                                  *)
(***************************************************************************)
\* A step to a phase in which only the backups matter.
LEMMA KeptBackups ==
  ASSUME NEW c \in Calls, Continues(c), Kept(c), call[c].request # None,
         call'[c].backups = call[c].backups, ~ Early(c)',
         ~ Restoring(c)' \/ call'[c].edit = 1
  PROVE  Kept(c)'
<1> SUFFICES ASSUME Active(c)', Undisturbed(c)' PROVE Kept(c)'
  BY DEF Kept
<1>1. /\ Edits(c)' = Edits(c) /\ Undisturbed(c) /\ before' = before /\ Active(c)
  BY SameRequest DEF Continues
<1>2. \A i \in DOMAIN call[c].backups : call[c].backups[i] \in {Absent, before[c][FileOf(c, i)]}
  BY <1>1 DEF Kept
<1>3. \A i \in DOMAIN call'[c].backups :
        call'[c].backups[i] \in {Absent, before'[c][FileOf(c, i)']}
  BY <1>1, <1>2 DEF FileOf
<1>4. call'[c].edit = 1 => 1 .. (call'[c].edit - 1) = {}
  OBVIOUS
<1> QED BY <1>3, <1>4 DEF Kept

LEMMA WriteFailsStep ==
  ASSUME IInv, NEW c \in Calls, WriteFails(c)
  PROVE  IInv'
<1> DEFINE rec == StartRestoring(call[c], "write_failed")
<1>0. Basic /\ Shape(c) /\ Kept(c) /\ Inside(c) /\ Active(c) /\ Writing(c)
  BY DEF IInv, Each, WriteFails, Writing, Active, Ended
<1>b. /\ call[c].request \in Requests /\ call[c].answer = None
      /\ ~ call[c].repeated /\ call[c].request # None
      /\ call[c].backups \in Seq(Values) /\ Len(call[c].backups) = Len(Edits(c))
  BY <1>0, ConfigAssumption DEF Shape, Going, Writing
<1>1. /\ DOMAIN rec = Fields /\ rec.phase = "restoring"
      /\ rec.request = call[c].request /\ rec.expected = call[c].expected
      /\ rec.reading = call[c].reading /\ rec.place = call[c].place
      /\ rec.unread = call[c].unread /\ rec.seen = call[c].seen
      /\ rec.refused = call[c].refused /\ rec.edit = 1
      /\ rec.backups = call[c].backups /\ rec.temp = call[c].temp
      /\ rec.answer = "write_failed" /\ rec.repeated = call[c].repeated
  BY <1>0, StartRestoringFacts DEF Basic
<1>2. Put(c, rec) /\ UNCHANGED <<disk, temps, stored, callers, crashed, before>>
  BY DEF WriteFails
<1> HIDE DEF rec
<1>3. Continues(c) /\ call'[c] = rec
  BY <1>0, <1>1, <1>2, PutContinues
<1>4. Moves(c)
  <2>1. RollbackBegan(c) => RollbackBegan(c)'
    BY <1>0, <1>1, <1>3, <1>b, ConfigAssumption DEF RollbackBegan, Answers, Failures
  <2>2. BackedUp(c)' => BackedUp(c)
    BY <1>1, <1>2, <1>3 DEF BackedUp, Edits
  <2> QED BY <1>0, <1>2, <1>3, <2>1, <2>2, QuietMoves DEF Basic
<1>5. Shape(c)'
  BY <1>1, <1>3, <1>b, EditFacts DEF Shape, Reads, Early, Writing, Restoring, Going, Edits, Ended, Failures
<1>6. Kept(c)'
  BY <1>0, <1>1, <1>3, <1>b, KeptBackups DEF Early, Reads
<1>7. Inside(c)'
  BY <1>0, <1>1, <1>2, <1>3, <1>b, SameRequest DEF Inside, InsideReading, InsideWriting, Writing, Reads
<1>8. Calm' => Rests(c)'
  BY <1>0, <1>1, <1>2, <1>3, <1>4, CalmBefore DEF Rests, Moves, Active, Ended, Writing
<1>9. Keyed'
  BY <1>0, <1>1, <1>2, <1>3, <1>4, KeyedFrame, SameRequest DEF Moves, Writing
<1> QED BY <1>4, <1>5, <1>6, <1>7, <1>8, <1>9, StepSound

LEMMA VerifyStep ==
  ASSUME IInv, NEW c \in Calls, Verify(c)
  PROVE  IInv'
<1> DEFINE rec == IF Resolves(call[c].seen) THEN Answer(call[c], "applied")
                  ELSE StartRestoring(call[c], "verify_failed")
<1>0. /\ Basic /\ Shape(c) /\ Kept(c) /\ Inside(c) /\ Active(c)
      /\ call[c].phase = "loading" /\ Reads(c, "verify") /\ Loaded(c, "verify")
  BY DEF IInv, Each, Verify, Loaded, Reads, Active, Ended
<1>b. /\ call[c].request \in Requests /\ call[c].answer = None
      /\ ~ call[c].repeated /\ call[c].request # None
      /\ call[c].backups \in Seq(Values) /\ Len(call[c].backups) = Len(Edits(c))
  BY <1>0, ConfigAssumption DEF Shape, Going
<1>1. /\ DOMAIN rec = Fields /\ rec.request = call[c].request
      /\ rec.backups = call[c].backups /\ rec.repeated = call[c].repeated
      /\ IF Resolves(call[c].seen)
         THEN /\ rec.phase = IF call[c].request.key = None THEN "answered" ELSE "storing"
              /\ rec.answer = "applied"
         ELSE rec.phase = "restoring" /\ rec.edit = 1 /\ rec.answer = "verify_failed"
  BY <1>0, AnswerFacts, StartRestoringFacts DEF Basic
<1>2. Put(c, rec) /\ UNCHANGED <<disk, temps, stored, callers, faults, crashed, before>>
  BY DEF Verify
<1> HIDE DEF rec
<1>3. Continues(c) /\ call'[c] = rec
  BY <1>0, <1>1, <1>2, PutContinues
<1>4. Moves(c)
  <2>1. RollbackBegan(c) => RollbackBegan(c)'
    BY <1>0, <1>1, <1>3, <1>b, ConfigAssumption DEF RollbackBegan, Answers, Failures
  <2>2. BackedUp(c)' => BackedUp(c)
    BY <1>1, <1>2, <1>3 DEF BackedUp, Edits
  <2> QED BY <1>0, <1>2, <1>3, <2>1, <2>2, QuietMoves DEF Basic
<1>5. Shape(c)'
  BY <1>1, <1>3, <1>b, EditFacts
     DEF Shape, Reads, Early, Writing, Restoring, Going, Edits, Ended, Failures, Answers
<1>6. Kept(c)'
  BY <1>0, <1>1, <1>2, <1>3, <1>b, SameRequest
     DEF Kept, Early, Reads, Restoring, Edits, FileOf
<1>7. Inside(c)'
  BY <1>0, <1>1, <1>2, <1>3, <1>b, SameRequest DEF Inside, InsideReading, InsideWriting, Writing, Reads
<1>8. Calm' => Rests(c)'
  <2> SUFFICES ASSUME Calm' PROVE Rests(c)'
    OBVIOUS
  <2>1. Calm /\ Rests(c)
    BY <1>0, <1>2, <1>4, CalmBefore DEF Moves
  <2>2. Resolves(Present(before[c])) /\ call[c].seen = Present(disk)
    BY <1>0, <1>b, <2>1, SeenAll DEF Rests, Calm
  <2>3. CASE Resolves(call[c].seen)
    <3>1. Resolves(Present(disk)) /\ (~ Active(c)' \/ call'[c].phase = "storing")
      BY <1>1, <1>3, <2>2, <2>3 DEF Active, Ended
    <3> QED BY <1>2, <3>1 DEF Rests
  <2>4. CASE ~ Resolves(call[c].seen)
    <3>1. Active(c)' /\ call'[c].phase # "storing" /\ call'[c].request # None
      BY <1>1, <1>3, <1>b, <2>4 DEF Active, Ended
    <3> QED BY <1>2, <2>2, <3>1 DEF Rests
  <2> QED BY <2>3, <2>4
<1>9. Keyed'
  <2>1. KeyOf(c)' = KeyOf(c) /\ (call'[c].phase = "answered" => KeyOf(c) = None)
    BY <1>1, <1>3, <1>b, SameRequest DEF KeyOf
  <2> QED BY <1>0, <1>2, <1>4, <2>1, KeyedFrame DEF Moves
<1> QED BY <1>4, <1>5, <1>6, <1>7, <1>8, <1>9, StepSound

LEMMA RestoreFailsStep ==
  ASSUME IInv, NEW c \in Calls, RestoreFails(c)
  PROVE  IInv'
<1> DEFINE rec == IF call[c].answer = "verify_failed" THEN StartRestoring(call[c], "write_failed")
                  ELSE [call[c] EXCEPT !.phase = "rejected", !.answer = None]
<1>0. Basic /\ Shape(c) /\ Kept(c) /\ Inside(c) /\ Active(c) /\ Restoring(c)
  BY DEF IInv, Each, RestoreFails, Restoring, Active, Ended
<1>b. /\ call[c].request \in Requests /\ call[c].answer \in Failures
      /\ ~ call[c].repeated /\ call[c].request # None
      /\ call[c].backups \in Seq(Values) /\ Len(call[c].backups) = Len(Edits(c))
  BY <1>0, ConfigAssumption DEF Shape, Restoring
<1>1. /\ DOMAIN rec = Fields /\ rec.request = call[c].request
      /\ rec.backups = call[c].backups /\ rec.repeated = call[c].repeated
      /\ \/ rec.phase = "restoring" /\ rec.edit = 1 /\ rec.answer = "write_failed"
         \/ rec.phase = "rejected"
  <2>1. CASE call[c].answer = "verify_failed"
    BY <1>0, <2>1, StartRestoringFacts DEF Basic
  <2>2. CASE call[c].answer # "verify_failed"
    BY <1>0, <2>2 DEF Basic, Fields
  <2> QED BY <2>1, <2>2
<1>2. Put(c, rec) /\ UNCHANGED <<disk, temps, stored, callers, crashed, before>>
  BY DEF RestoreFails
<1> HIDE DEF rec
<1>3. Continues(c) /\ call'[c] = rec
  BY <1>0, <1>1, <1>2, PutContinues
<1>4. Moves(c)
  <2>1. RollbackBegan(c) => RollbackBegan(c)'
    BY <1>0, <1>1, <1>3, <1>b, ConfigAssumption DEF RollbackBegan, Answers, Failures
  <2>2. BackedUp(c)' => BackedUp(c)
    BY <1>1, <1>2, <1>3 DEF BackedUp, Edits
  <2> QED BY <1>0, <1>2, <1>3, <2>1, <2>2, QuietMoves DEF Basic
<1>5. Shape(c)'
  BY <1>1, <1>3, <1>b, EditFacts
     DEF Shape, Reads, Early, Writing, Restoring, Going, Edits, Ended, Failures
<1>6. Kept(c)'
  BY <1>0, <1>1, <1>3, <1>b, KeptBackups DEF Early, Reads, Restoring
<1>7. Inside(c)'
  BY <1>0, <1>1, <1>2, <1>3, <1>b, SameRequest
     DEF Inside, InsideReading, InsideWriting, Writing, Reads, Active, Ended
<1>8. Calm' => Rests(c)'
  <2> SUFFICES ASSUME Calm' PROVE Rests(c)'
    OBVIOUS
  <2>1. Calm /\ Rests(c) /\ call'[c].phase = "restoring"
    <3>1. call[c].phase # "rejected" /\ call'[c].phase # "rejected"
      BY <1>0 DEF Restoring, Calm
    <3> QED BY <1>1, <1>2, <1>3, <1>4, <3>1, CalmBefore DEF Moves
  <2> QED BY <1>0, <1>1, <1>2, <1>3, <1>b, <2>1 DEF Rests, Active, Ended, Restoring
<1>9. Keyed'
  BY <1>0, <1>1, <1>2, <1>3, <1>4, KeyedFrame, SameRequest DEF Moves, Restoring
<1> QED BY <1>4, <1>5, <1>6, <1>7, <1>8, <1>9, StepSound

LEMMA WriteTempStep ==
  ASSUME IInv, NEW c \in Calls, WriteTemp(c)
  PROVE  IInv'
<1>0. Basic /\ Shape(c) /\ Kept(c) /\ Inside(c) /\ Active(c) /\ call[c].phase = "writing"
  BY DEF IInv, Each, WriteTemp, Active, Ended
<1>b. /\ call[c].request \in Requests /\ call[c].answer = None
      /\ ~ call[c].repeated /\ call[c].request # None /\ call[c].edit \in 1 .. Len(Edits(c))
      /\ call[c].backups \in Seq(Values) /\ Len(call[c].backups) = Len(Edits(c))
  BY <1>0, ConfigAssumption DEF Shape, Going, Writing
<1> PICK d \in {c} \cup {d \in Calls : /\ call[d].phase = "renaming"
                                       /\ Edit(d).file = Edit(c).file} :
      /\ temps' = [temps EXCEPT ![<<Edit(c).file, d>>] = Edit(c).next]
      /\ Put(c, [call[c] EXCEPT !.phase = "renaming", !.temp = d])
  BY DEF WriteTemp
<1> DEFINE rec == [call[c] EXCEPT !.phase = "renaming", !.temp = d]
<1>1. /\ DOMAIN rec = Fields /\ rec.phase = "renaming"
      /\ rec.request = call[c].request /\ rec.expected = call[c].expected
      /\ rec.reading = call[c].reading /\ rec.place = call[c].place
      /\ rec.unread = call[c].unread /\ rec.seen = call[c].seen
      /\ rec.refused = call[c].refused /\ rec.edit = call[c].edit
      /\ rec.backups = call[c].backups /\ rec.temp = d
      /\ rec.answer = call[c].answer /\ rec.repeated = call[c].repeated
  BY <1>0 DEF Basic, Fields
<1>2. Put(c, rec) /\ UNCHANGED <<disk, stored, callers, faults, crashed, before>> /\ Edit(c).next # Absent
  BY DEF WriteTemp
<1> HIDE DEF rec
<1>3. Continues(c) /\ call'[c] = rec
  BY <1>0, <1>1, <1>2, PutContinues
<1>c. d \in Calls /\ (callers = "serial" => d = c)
  BY <1>0 DEF IInv, OneAtATime, Active, Ended
<1>d. Edit(c).file \in Files /\ Edit(c).next \in Values \ {Torn}
  BY <1>b, EditFacts DEF Edit, FileOf
<1>e. Edit(c)' = Edit(c)
  BY <1>1, <1>3, SameRequest DEF Edit
<1>4. Moves(c)
  <2>1. ~ RollbackBegan(c)
    BY <1>0, <1>b, ConfigAssumption DEF RollbackBegan, Answers
  <2>2. BackedUp(c)' => BackedUp(c)
    BY <1>1, <1>2, <1>3 DEF BackedUp, Edits
  <2>3. temps' \in [Files \X Calls -> Values \ {Torn}]
    BY <1>0, <1>c, <1>d DEF Basic
  <2> QED BY <1>0, <1>2, <1>3, <2>1, <2>2, <2>3, QuietMoves DEF Basic
<1>5. Shape(c)'
  BY <1>0, <1>1, <1>3, <1>b, <1>c DEF Shape, Reads, Early, Writing, Restoring, Going, Edits, Ended
<1>6. Kept(c)'
  BY <1>0, <1>1, <1>2, <1>3, <1>b, SameRequest
     DEF Kept, Early, Reads, Restoring, Edits, FileOf, Active, Ended
<1>7. Inside(c)'
  <2> SUFFICES ASSUME callers = "serial" PROVE InsideReading(c)' /\ InsideWriting(c)'
    BY <1>2 DEF Inside
  <2>1. InsideWriting(c)
    BY <1>0 DEF Inside
  <2>2. temps'[<<Edit(c).file, c>>] = Edit(c).next
    BY <1>0, <1>c, <1>d DEF Basic
  <2>3. Made(c, call[c].edit - 1)' /\ call'[c].edit = call[c].edit
    BY <1>0, <1>1, <1>2, <1>3, <1>b, <2>1, SameRequest DEF InsideWriting, Writing, Made, FileOf
  <2>4. InsideWriting(c)'
    BY <1>0, <1>1, <1>2, <1>3, <1>b, <1>c, <1>e, <2>1, <2>2, <2>3, SameRequest
       DEF InsideWriting, Writing, Reads
  <2> QED BY <1>1, <1>3, <2>4 DEF InsideReading
<1>8. Calm' => Rests(c)'
  BY <1>0, <1>1, <1>2, <1>3, <1>4, CalmBefore DEF Rests, Moves, Active, Ended
<1>9. Keyed'
  BY <1>0, <1>1, <1>2, <1>3, <1>4, KeyedFrame, SameRequest DEF Moves
<1> QED BY <1>4, <1>5, <1>6, <1>7, <1>8, <1>9, StepSound

\* The files after one more edit.
LEMMA MadeMore ==
  ASSUME NEW c \in Calls, Basic, Continues(c), call[c].request \in Requests,
         NEW n \in 1 .. Len(Edits(c)), Made(c, n - 1),
         disk' = [disk EXCEPT ![FileOf(c, n)] = Edits(c)[n].next]
  PROVE  Made(c, n)'
<1> DEFINE e == FileOf(c, n)
<1>1. /\ e \in Files /\ Len(Edits(c)) \in Nat /\ n \in Nat /\ before' = before
      /\ disk'[e] = Edits(c)[n].next /\ \A f \in Files \ {e} : disk'[f] = disk[f]
  BY EditFacts DEF Basic, Continues
<1>2. Edits(c)' = Edits(c)
  BY SameRequest
<1> SUFFICES ASSUME NEW f \in Files
             PROVE  \/ disk'[f] = before[c][f] /\ \A i \in 1 .. n : FileOf(c, i) # f
                    \/ \E i \in 1 .. n : /\ FileOf(c, i) = f /\ disk'[f] = Edits(c)[i].next
                                         /\ \A j \in (i + 1) .. n : FileOf(c, j) # f
  BY <1>1, <1>2 DEF Made, FileOf
<1>3. CASE f = e
  BY <1>1, <1>3
<1>4. CASE f # e
  <2>1. CASE disk[f] = before[c][f] /\ \A i \in 1 .. (n - 1) : FileOf(c, i) # f
    BY <1>1, <1>4, <2>1
  <2>2. ASSUME NEW i \in 1 .. (n - 1), FileOf(c, i) = f, disk[f] = Edits(c)[i].next,
               \A j \in (i + 1) .. (n - 1) : FileOf(c, j) # f
        PROVE  \E k \in 1 .. n : /\ FileOf(c, k) = f /\ disk'[f] = Edits(c)[k].next
                                 /\ \A j \in (k + 1) .. n : FileOf(c, j) # f
    <3>1. i \in 1 .. n /\ \A j \in (i + 1) .. n : FileOf(c, j) # f
      BY <1>1, <1>4, <2>2
    <3> QED BY <1>1, <1>4, <2>2, <3>1
  <2> QED BY <2>1, <2>2 DEF Made
<1> QED BY <1>3, <1>4

\* The file of an edit is replaced at once, and the call goes on.
LEMMA WrittenStep ==
  ASSUME IInv, NEW c \in Calls, Writing(c), NEW v \in Values \ {Torn},
         disk' = [disk EXCEPT ![Edit(c).file] = v],
         callers = "serial" => v = Edit(c).next,
         temps' \in [Files \X Calls -> Values \ {Torn}],
         UNCHANGED <<stored, callers, crashed, before>>,
         Written(c)
  PROVE  IInv'
<1> DEFINE rec == IF LastEdit(c) THEN StartReading(call[c], "verify")
                  ELSE [call[c] EXCEPT !.phase = "writing", !.edit = @ + 1]
<1>0. Basic /\ Shape(c) /\ Kept(c) /\ Inside(c) /\ Active(c) /\ Writing(c)
  BY DEF IInv, Each, Writing, Active, Ended
<1>b. /\ call[c].request \in Requests /\ call[c].answer = None
      /\ ~ call[c].repeated /\ call[c].request # None /\ call[c].edit \in 1 .. Len(Edits(c))
      /\ call[c].backups \in Seq(Values) /\ Len(call[c].backups) = Len(Edits(c))
  BY <1>0, ConfigAssumption DEF Shape, Going, Writing
<1>1. /\ DOMAIN rec = Fields /\ rec.request = call[c].request /\ rec.answer = call[c].answer
      /\ rec.backups = call[c].backups /\ rec.repeated = call[c].repeated
      /\ rec.expected = call[c].expected
      /\ IF LastEdit(c)
         THEN rec.phase = "listing" /\ rec.reading = "verify" /\ rec.place = 1
              /\ rec.unread = {} /\ rec.seen = <<>> /\ rec.edit = call[c].edit
         ELSE rec.phase = "writing" /\ rec.edit = call[c].edit + 1
  <2>1. CASE LastEdit(c)
    BY <1>0, <2>1, StartReadingFacts DEF Basic
  <2>2. CASE ~ LastEdit(c)
    BY <1>0, <2>2 DEF Basic, Fields
  <2> QED BY <2>1, <2>2
<1>2. Put(c, rec)
  BY DEF Written
<1> HIDE DEF rec
<1>3. Continues(c) /\ call'[c] = rec
  BY <1>0, <1>1, <1>2, PutContinues
<1>c. /\ Edit(c).file = FileOf(c, call[c].edit) /\ Edit(c).file \in Files \cap Touched(c)
      /\ Edit(c).next = Edits(c)[call[c].edit].next
      /\ Len(Edits(c)) \in Nat
  BY <1>b, EditFacts DEF Edit, FileOf
<1>d. /\ disk' \in [Files -> Values] /\ disk'[Edit(c).file] = v
      /\ \A f \in Files \ {Edit(c).file} : disk'[f] = disk[f]
  BY <1>0, <1>c DEF Basic
<1>4. Moves(c)
  <2>1. ~ RollbackBegan(c)
    BY <1>0, <1>b, ConfigAssumption DEF RollbackBegan, Answers, Writing
  <2>2. BackedUp(c)' => BackedUp(c)
    BY <1>1, <1>3 DEF BackedUp, Edits
  <2>3. MovesFiles(c)
    BY <1>b, <1>c, <1>d DEF MovesFiles
  <2> QED BY <1>0, <1>3, <1>d, <2>1, <2>2, <2>3, ContinuesMoves DEF Basic
<1>f. LastEdit(c) <=> call[c].edit = Len(Edits(c))
  BY DEF LastEdit
<1>5. Shape(c)'
  <2>1. ~ LastEdit(c) => call[c].edit + 1 \in 1 .. Len(Edits(c))
    BY <1>b, <1>c, <1>f
  <2> QED BY <1>1, <1>3, <1>b, <2>1 DEF Shape, Reads, Early, Writing, Restoring, Going, Edits, Ended
<1>6. Kept(c)'
  BY <1>0, <1>1, <1>3, <1>b, KeptBackups DEF Early, Reads, Restoring
<1>7. Inside(c)'
  <2> SUFFICES ASSUME callers = "serial" PROVE InsideReading(c)' /\ InsideWriting(c)'
    BY DEF Inside
  <2>1. InsideWriting(c)
    BY <1>0 DEF Inside
  <2>2. Made(c, call[c].edit - 1)
    BY <1>0, <1>b, <2>1 DEF InsideWriting
  <2> DEFINE n == call[c].edit
  <2>3. n \in 1 .. Len(Edits(c)) /\ Made(c, n - 1)
        /\ disk' = [disk EXCEPT ![FileOf(c, n)] = Edits(c)[n].next]
    BY <1>b, <1>c, <2>2
  <2>4. \E m \in 1 .. Len(Edits(c)) : m = n /\ Made(c, m)'
    <3> HIDE DEF n
    <3>1. ASSUME NEW m \in 1 .. Len(Edits(c)), m = n PROVE Made(c, m)'
      BY <1>0, <1>3, <1>b, <2>3, <3>1, MadeMore
    <3> QED BY <2>3, <3>1
  <2>5. InsideReading(c)'
    BY <1>1, <1>3, PlacesFacts DEF InsideReading
  <2>6. \A f \in Files \ Touched(c) : disk'[f] = before[c][f]
    BY <1>b, <1>c, <1>d, <2>1 DEF InsideWriting
  <2>7. CASE LastEdit(c)
    <3>1. Made(c, Len(Edits(c)))'
      BY <1>3, <1>f, <2>4, <2>7, SameRequest DEF Made, FileOf
    <3>2. call'[c].expected \in {None, Present(before[c])}
      BY <1>0, <1>1, <1>3, <1>b, <2>1 DEF InsideWriting
    <3> QED BY <1>1, <1>3, <2>5, <2>6, <2>7, <3>1, <3>2, SameRequest
            DEF InsideWriting, Writing, Reads
  <2>8. CASE ~ LastEdit(c)
    <3>1. call'[c].edit - 1 = n
      BY <1>1, <1>3, <1>b, <1>c, <2>8
    <3>2. Made(c, call[c].edit - 1)'
      BY <1>3, <2>4, <3>1, SameRequest DEF Made, FileOf
    <3>3. call'[c].expected \in {None, Present(before[c])}
      BY <1>0, <1>1, <1>3, <1>b, <2>1 DEF InsideWriting
    <3> QED BY <1>1, <1>3, <2>5, <2>6, <2>8, <3>2, <3>3, SameRequest
            DEF InsideWriting, Writing, Reads
  <2> QED BY <2>7, <2>8
<1>8. Calm' => Rests(c)'
  <2> SUFFICES ASSUME Calm' PROVE Rests(c)'
    OBVIOUS
  <2>1. Rests(c)
    BY <1>0, <1>4, CalmBefore DEF Moves, Writing
  <2>2. Resolves(Present(before[c]))
    BY <1>0, <1>b, <2>1 DEF Rests, Writing
  <2>3. Active(c)' /\ call'[c].phase # "storing" /\ call'[c].request # None
    BY <1>1, <1>3, <1>b DEF Active, Ended
  <2> QED BY <2>2, <2>3 DEF Rests
<1>9. Keyed'
  BY <1>0, <1>1, <1>3, <1>4, KeyedFrame, SameRequest DEF Moves, Writing
<1> QED BY <1>4, <1>5, <1>6, <1>7, <1>8, <1>9, StepSound

LEMMA DeleteFileStep ==
  ASSUME IInv, NEW c \in Calls, DeleteFile(c)
  PROVE  IInv'
<1>1. Absent \in Values \ {Torn}
  BY ConfigAssumption DEF Values
<1>2. temps' \in [Files \X Calls -> Values \ {Torn}]
  BY DEF DeleteFile, IInv, Basic
<1> QED BY <1>1, <1>2, WrittenStep DEF DeleteFile, Writing

LEMMA RenameTempStep ==
  ASSUME IInv, NEW c \in Calls, RenameTemp(c)
  PROVE  IInv'
<1> DEFINE t == <<Edit(c).file, call[c].temp>>
<1>0. Basic /\ Shape(c) /\ Kept(c) /\ Inside(c) /\ Active(c) /\ call[c].phase = "renaming"
  BY DEF IInv, Each, RenameTemp, Active, Ended
<1>b. /\ call[c].request \in Requests /\ call[c].answer = None
      /\ ~ call[c].repeated /\ call[c].request # None /\ call[c].edit \in 1 .. Len(Edits(c))
      /\ call[c].backups \in Seq(Values) /\ Len(call[c].backups) = Len(Edits(c))
      /\ call[c].temp \in Calls
  BY <1>0, ConfigAssumption DEF Shape, Going, Writing
<1>c. Edit(c).file \in Files
  BY <1>b, EditFacts DEF Edit, FileOf
<1>d. t \in Files \X Calls /\ temps[t] \in Values \ {Torn}
  BY <1>0, <1>b, <1>c DEF Basic
<1>e. CASE temps[t] # Absent
  <2>1. callers = "serial" => temps[t] = Edit(c).next
    BY <1>0, <1>b DEF Inside, InsideWriting
  <2>2. /\ disk' = [disk EXCEPT ![Edit(c).file] = temps[t]]
        /\ temps' = [temps EXCEPT ![t] = Absent] /\ Written(c)
        /\ UNCHANGED <<stored, callers, crashed, before>>
    BY <1>e DEF RenameTemp
  <2>3. temps' \in [Files \X Calls -> Values \ {Torn}]
    BY <1>0, <1>d, <2>2, ConfigAssumption DEF Basic, Values
  <2> HIDE DEF t
  <2> QED BY <1>0, <1>d, <2>1, <2>2, <2>3, WrittenStep DEF Writing
<1>f. CASE temps[t] = Absent
  <2> DEFINE rec == StartRestoring(call[c], "write_failed")
  <2>1. /\ DOMAIN rec = Fields /\ rec.phase = "restoring"
        /\ rec.request = call[c].request /\ rec.expected = call[c].expected
        /\ rec.reading = call[c].reading /\ rec.place = call[c].place
        /\ rec.unread = call[c].unread /\ rec.seen = call[c].seen
        /\ rec.refused = call[c].refused /\ rec.edit = 1
        /\ rec.backups = call[c].backups /\ rec.temp = call[c].temp
        /\ rec.answer = "write_failed" /\ rec.repeated = call[c].repeated
    BY <1>0, StartRestoringFacts DEF Basic
  <2>2. Put(c, rec) /\ UNCHANGED <<disk, temps, stored, callers, crashed, before>>
    BY <1>f DEF RenameTemp
  <2> HIDE DEF rec
  <2>3. Continues(c) /\ call'[c] = rec
    BY <1>0, <2>1, <2>2, PutContinues
  <2>4. Moves(c)
    <3>1. ~ RollbackBegan(c)
      BY <1>0, <1>b, ConfigAssumption DEF RollbackBegan, Answers
    <3>2. BackedUp(c)' => BackedUp(c)
      BY <2>1, <2>2, <2>3 DEF BackedUp, Edits
    <3> QED BY <1>0, <2>2, <2>3, <3>1, <3>2, QuietMoves DEF Basic
  <2>5. Shape(c)'
    BY <1>b, <2>1, <2>3, EditFacts
       DEF Shape, Reads, Early, Writing, Restoring, Going, Edits, Ended, Failures
  <2>6. Kept(c)'
    BY <1>0, <1>b, <2>1, <2>3, KeptBackups DEF Early, Reads
  <2>7. Inside(c)'
    BY <1>0, <1>b, <2>1, <2>2, <2>3, SameRequest
       DEF Inside, InsideReading, InsideWriting, Writing, Reads
  <2>8. Calm' => Rests(c)'
    BY <1>0, <2>1, <2>2, <2>3, <2>4, CalmBefore DEF Rests, Moves, Active, Ended
  <2>9. Keyed'
    BY <1>0, <2>1, <2>2, <2>3, <2>4, KeyedFrame, SameRequest DEF Moves
  <2> QED BY <2>4, <2>5, <2>6, <2>7, <2>8, <2>9, StepSound
<1> QED BY <1>e, <1>f

-----------------------------------------------------------------------------
(***************************************************************************)
(* Rollback.                                                               *)
(***************************************************************************)
\* One more file is back as it was, and those before it stay so.
LEMMA RestoredFiles ==
  ASSUME IInv, NEW c \in Calls, Restoring(c), Undisturbed(c), BackedUp(c),
         disk' = [disk EXCEPT ![Edit(c).file] = Backup(c)]
  PROVE  \A i \in 1 .. call[c].edit : disk'[FileOf(c, i)] = before[c][FileOf(c, i)]
<1> DEFINE e == call[c].edit
<1>1. /\ call[c].request \in Requests /\ e \in 1 .. Len(Edits(c)) /\ Active(c)
      /\ Len(call[c].backups) = Len(Edits(c)) /\ call[c].backups \in Seq(Values)
      /\ Shape(c) /\ Kept(c)
  BY DEF IInv, Each, Shape, Restoring, Active, Ended
<1>2. /\ Len(Edits(c)) \in Nat /\ e \in Nat /\ call[c].request # None
      /\ \A i \in 1 .. Len(Edits(c)) : FileOf(c, i) \in Files
  BY <1>1, EditFacts
<1>3. Edit(c).file = FileOf(c, e) /\ Backup(c) = call[c].backups[e]
  BY DEF Edit, FileOf, Backup
<1>4. Backup(c) = before[c][FileOf(c, e)]
  <2>1. e \in DOMAIN call[c].backups
    BY <1>1, <1>2
  <2>2. Backup(c) \in {Absent, before[c][FileOf(c, e)]}
    BY <1>1, <1>2, <1>3, <2>1 DEF Kept
  <2>3. Backup(c) = Absent => before[c][FileOf(c, e)] = Absent
    BY <1>3, <2>1 DEF BackedUp, FileOf
  <2> QED BY <2>2, <2>3
<1>5. /\ disk'[FileOf(c, e)] = Backup(c)
      /\ \A f \in Files \ {FileOf(c, e)} : disk'[f] = disk[f]
  BY <1>1, <1>2, <1>3 DEF IInv, Basic
<1>6. ASSUME NEW i \in 1 .. (e - 1), FileOf(c, i) # FileOf(c, e)
      PROVE  disk[FileOf(c, i)] = before[c][FileOf(c, i)]
  BY <1>1, <1>2, <1>3, <1>6 DEF Kept
<1> QED BY <1>1, <1>2, <1>4, <1>5, <1>6

LEMMA RestoredStep ==
  ASSUME IInv, NEW c \in Calls, Restoring(c),
         disk' = [disk EXCEPT ![Edit(c).file] = Backup(c)],
         UNCHANGED <<temps, stored, callers, crashed, before>>,
         Restored(c)
  PROVE  IInv'
<1> DEFINE rec == IF LastEdit(c) THEN Answer(call[c], call[c].answer)
                  ELSE [call[c] EXCEPT !.phase = "restoring", !.edit = @ + 1]
<1>0. Basic /\ Shape(c) /\ Kept(c) /\ Inside(c) /\ Active(c) /\ Restoring(c)
  BY DEF IInv, Each, Restoring, Active, Ended
<1>b. /\ call[c].request \in Requests /\ call[c].answer \in Failures
      /\ ~ call[c].repeated /\ call[c].request # None /\ call[c].edit \in 1 .. Len(Edits(c))
      /\ call[c].backups \in Seq(Values) /\ Len(call[c].backups) = Len(Edits(c))
  BY <1>0, ConfigAssumption DEF Shape, Restoring
<1>1. /\ DOMAIN rec = Fields /\ rec.request = call[c].request /\ rec.answer = call[c].answer
      /\ rec.backups = call[c].backups /\ rec.repeated = call[c].repeated
      /\ IF LastEdit(c)
         THEN rec.phase = IF call[c].request.key = None THEN "answered" ELSE "storing"
         ELSE rec.phase = "restoring" /\ rec.edit = call[c].edit + 1
  <2>1. CASE LastEdit(c)
    BY <1>0, <2>1, AnswerFacts DEF Basic
  <2>2. CASE ~ LastEdit(c)
    BY <1>0, <2>2 DEF Basic, Fields
  <2> QED BY <2>1, <2>2
<1>2. Put(c, rec)
  BY DEF Restored
<1> HIDE DEF rec
<1>3. Continues(c) /\ call'[c] = rec
  BY <1>0, <1>1, <1>2, PutContinues
<1>c. /\ Edit(c).file \in Files \cap Touched(c) /\ Len(Edits(c)) \in Nat
      /\ Backup(c) \in Values /\ DOMAIN Edits(c) = 1 .. Len(Edits(c))
      /\ Touched(c) = {FileOf(c, i) : i \in 1 .. Len(Edits(c))}
  BY <1>b, EditFacts DEF Edit, FileOf, Backup
<1>d. /\ disk' \in [Files -> Values]
      /\ \A f \in Files \ {Edit(c).file} : disk'[f] = disk[f]
  BY <1>0, <1>c DEF Basic
<1>e. Edits(c)' = Edits(c) /\ Touched(c)' = Touched(c) /\ (Undisturbed(c)' <=> Undisturbed(c))
  BY <1>3, SameRequest
<1>4. Moves(c)
  <2>1. RollbackBegan(c)'
    BY <1>1, <1>3, <1>b DEF RollbackBegan
  <2>2. BackedUp(c)' => BackedUp(c)
    BY <1>1, <1>3 DEF BackedUp, Edits
  <2>3. MovesFiles(c)
    BY <1>b, <1>c, <1>d, <1>e, <2>1 DEF MovesFiles
  <2> QED BY <1>0, <1>3, <1>d, <2>1, <2>2, <2>3, ContinuesMoves DEF Basic
<1>f. LastEdit(c) <=> call[c].edit = Len(Edits(c))
  BY DEF LastEdit
<1>g. BackedUp(c)' <=> BackedUp(c)
  BY <1>1, <1>3 DEF BackedUp, Edits
<1>5. Shape(c)'
  <2>1. ~ LastEdit(c) => call[c].edit + 1 \in 1 .. Len(Edits(c))
    BY <1>b, <1>c, <1>f
  <2> QED BY <1>1, <1>3, <1>b, <2>1
          DEF Shape, Reads, Early, Writing, Restoring, Going, Edits, Ended, Answers
<1>6. Kept(c)'
  <2>1. CASE LastEdit(c)
    BY <1>0, <1>1, <1>3, <1>b, <2>1, KeptBackups DEF Early, Reads, Restoring
  <2>2. CASE ~ LastEdit(c)
    <3> SUFFICES ASSUME Undisturbed(c)
                 PROVE  /\ \A i \in DOMAIN call[c].backups :
                             call[c].backups[i] \in {Absent, before[c][FileOf(c, i)]}
                        /\ BackedUp(c) => \A i \in 1 .. call[c].edit :
                                            disk'[FileOf(c, i)] = before[c][FileOf(c, i)]
      <4>1. ~ Early(c)' /\ call'[c].edit - 1 = call[c].edit
        BY <1>1, <1>3, <1>b, <1>c, <2>2 DEF Early, Reads
      <4>2. call'[c].backups = call[c].backups
        BY <1>1, <1>3
      <4> QED BY <1>e, <1>g, <4>1, <4>2 DEF Kept, FileOf
    <3>1. \A i \in DOMAIN call[c].backups : call[c].backups[i] \in {Absent, before[c][FileOf(c, i)]}
      BY <1>0, <1>b DEF Kept
    <3> QED BY <3>1, RestoredFiles
  <2> QED BY <2>1, <2>2
<1>7. Inside(c)'
  <2> SUFFICES ASSUME callers = "serial" PROVE InsideReading(c)' /\ InsideWriting(c)'
    BY DEF Inside
  <2>1. \A f \in Files \ Touched(c) : disk'[f] = before[c][f]
    BY <1>0, <1>b, <1>c, <1>d DEF Inside, InsideWriting
  <2> QED BY <1>1, <1>3, <1>b, <1>e, <2>1 DEF InsideReading, InsideWriting, Writing, Reads
<1>8. Calm' => Rests(c)'
  <2> SUFFICES ASSUME Calm' PROVE Rests(c)'
    OBVIOUS
  <2>1. Calm /\ Rests(c)
    BY <1>0, <1>4, CalmBefore DEF Moves, Restoring
  <2>2. Resolves(Present(before[c]))
    BY <1>0, <1>b, <2>1 DEF Rests, Restoring
  <2>3. CASE LastEdit(c)
    <3>1. Undisturbed(c) /\ BackedUp(c) /\ callers = "serial"
      BY <2>1 DEF Calm, Undisturbed
    <3>2. \A f \in Touched(c) : disk'[f] = before[c][f]
      BY <1>c, <1>f, <2>3, <3>1, RestoredFiles
    <3>3. \A f \in Files \ Touched(c) : disk'[f] = before[c][f]
      BY <1>0, <1>b, <1>c, <1>d, <3>1 DEF Inside, InsideWriting
    <3>4. disk' = before[c]
      <4>1. before[c] \in [Files -> Values]
        BY <1>0, <1>b DEF Basic
      <4> QED BY <1>d, <3>2, <3>3, <4>1
    <3> QED BY <2>2, <3>4 DEF Rests
  <2>4. CASE ~ LastEdit(c)
    <3>1. Active(c)' /\ call'[c].phase # "storing" /\ call'[c].request # None
      BY <1>1, <1>3, <1>b, <2>4 DEF Active, Ended
    <3> QED BY <2>2, <3>1 DEF Rests
  <2> QED BY <2>3, <2>4
<1>9. Keyed'
  <2>1. KeyOf(c)' = KeyOf(c) /\ (call'[c].phase = "answered" => KeyOf(c) = None)
    BY <1>1, <1>3, <1>b, SameRequest DEF KeyOf
  <2> QED BY <1>0, <1>4, <2>1, KeyedFrame DEF Moves, Restoring
<1> QED BY <1>4, <1>5, <1>6, <1>7, <1>8, <1>9, StepSound

LEMMA RestoringSteps ==
  ASSUME IInv, NEW c \in Calls, RemoveCreated(c) \/ Fill(c)
  PROVE  IInv'
BY RestoredStep DEF RemoveCreated, Fill, Restoring

LEMMA TruncateStep ==
  ASSUME IInv, NEW c \in Calls, Truncate(c)
  PROVE  IInv'
<1> DEFINE rec == [call[c] EXCEPT !.phase = "filling"]
<1>0. Basic /\ Shape(c) /\ Kept(c) /\ Inside(c) /\ Active(c) /\ call[c].phase = "restoring"
  BY DEF IInv, Each, Truncate, Active, Ended
<1>b. /\ call[c].request \in Requests /\ call[c].answer \in Failures
      /\ ~ call[c].repeated /\ call[c].request # None /\ call[c].edit \in 1 .. Len(Edits(c))
      /\ call[c].backups \in Seq(Values) /\ Len(call[c].backups) = Len(Edits(c))
  BY <1>0, ConfigAssumption DEF Shape, Restoring
<1>1. /\ DOMAIN rec = Fields /\ rec.phase = "filling"
      /\ rec.request = call[c].request /\ rec.expected = call[c].expected
      /\ rec.reading = call[c].reading /\ rec.place = call[c].place
      /\ rec.unread = call[c].unread /\ rec.seen = call[c].seen
      /\ rec.refused = call[c].refused /\ rec.edit = call[c].edit
      /\ rec.backups = call[c].backups /\ rec.temp = call[c].temp
      /\ rec.answer = call[c].answer /\ rec.repeated = call[c].repeated
  BY <1>0 DEF Basic, Fields
<1>2. /\ Put(c, rec) /\ UNCHANGED <<temps, stored, callers, faults, crashed, before>>
      /\ disk' = [disk EXCEPT ![Edit(c).file] = Torn]
  BY DEF Truncate
<1> HIDE DEF rec
<1>3. Continues(c) /\ call'[c] = rec
  BY <1>0, <1>1, <1>2, PutContinues
<1>c. /\ Edit(c).file \in Files \cap Touched(c) /\ Len(Edits(c)) \in Nat
      /\ \A i \in 1 .. Len(Edits(c)) : FileOf(c, i) \in Files
  BY <1>b, EditFacts DEF Edit, FileOf
<1>d. /\ disk' \in [Files -> Values]
      /\ \A f \in Files \ {Edit(c).file} : disk'[f] = disk[f]
  BY <1>0, <1>2, <1>c DEF Basic, Values
<1>e. /\ Edits(c)' = Edits(c) /\ Touched(c)' = Touched(c) /\ (Undisturbed(c)' <=> Undisturbed(c))
      /\ Edit(c)' = Edit(c)
  BY <1>1, <1>3, SameRequest DEF Edit
<1>g. BackedUp(c)' <=> BackedUp(c)
  BY <1>1, <1>2, <1>3 DEF BackedUp, Edits
<1>4. Moves(c)
  <2>1. RollbackBegan(c)'
    BY <1>1, <1>3, <1>b DEF RollbackBegan
  <2>2. MovesFiles(c)
    BY <1>b, <1>c, <1>d, <1>e, <2>1 DEF MovesFiles
  <2> QED BY <1>0, <1>2, <1>3, <1>d, <1>g, <2>1, <2>2, ContinuesMoves DEF Basic
<1>5. Shape(c)'
  BY <1>0, <1>1, <1>3, <1>b DEF Shape, Reads, Early, Writing, Restoring, Going, Edits, Ended
<1>6. Kept(c)'
  <2> SUFFICES ASSUME Undisturbed(c)
               PROVE  /\ \A i \in DOMAIN call[c].backups :
                           call[c].backups[i] \in {Absent, before[c][FileOf(c, i)]}
                      /\ BackedUp(c) =>
                           \A i \in 1 .. (call[c].edit - 1) :
                             \/ disk'[FileOf(c, i)] = before[c][FileOf(c, i)]
                             \/ FileOf(c, i) = Edit(c).file
    <3>1. ~ Early(c)' /\ call'[c].edit = call[c].edit /\ call'[c].phase = "filling"
          /\ call'[c].backups = call[c].backups /\ before' = before
      BY <1>0, <1>1, <1>2, <1>3 DEF Early, Reads
    <3> QED BY <1>e, <1>g, <3>1 DEF Kept, FileOf
  <2>1. \A i \in DOMAIN call[c].backups : call[c].backups[i] \in {Absent, before[c][FileOf(c, i)]}
    BY <1>0, <1>b DEF Kept
  <2>2. ASSUME BackedUp(c), NEW i \in 1 .. (call[c].edit - 1), FileOf(c, i) # Edit(c).file
        PROVE  disk'[FileOf(c, i)] = before[c][FileOf(c, i)]
    <3>1. disk[FileOf(c, i)] = before[c][FileOf(c, i)]
      BY <1>0, <1>b, <2>2 DEF Kept, Restoring
    <3>2. i \in 1 .. Len(Edits(c))
      BY <1>b, <1>c
    <3> QED BY <1>c, <1>d, <2>2, <3>1, <3>2
  <2> QED BY <2>1, <2>2
<1>7. Inside(c)'
  <2> SUFFICES ASSUME callers = "serial" PROVE InsideReading(c)' /\ InsideWriting(c)'
    BY <1>2 DEF Inside
  <2>1. \A f \in Files \ Touched(c) : disk'[f] = before[c][f]
    BY <1>0, <1>b, <1>c, <1>d DEF Inside, InsideWriting
  <2> QED BY <1>1, <1>2, <1>3, <1>b, <1>e, <2>1 DEF InsideReading, InsideWriting, Writing, Reads
<1>8. Calm' => Rests(c)'
  BY <1>0, <1>1, <1>2, <1>3, <1>4, <1>b, CalmBefore DEF Rests, Moves, Active, Ended
<1>9. Keyed'
  BY <1>0, <1>1, <1>2, <1>3, <1>4, KeyedFrame, SameRequest DEF Moves
<1> QED BY <1>4, <1>5, <1>6, <1>7, <1>8, <1>9, StepSound

-----------------------------------------------------------------------------
(***************************************************************************)
(* The whole specification.                                                *)
(***************************************************************************)
LEMMA CrashStep ==
  ASSUME IInv, Crash
  PROVE  IInv'
<1>0. Basic
  BY DEF IInv
<1>1. /\ crashed' = TRUE /\ disk' = disk /\ callers' = callers /\ before' = before
      /\ call' = [c \in Calls |-> IF Active(c) THEN [call[c] EXCEPT !.phase = "lost"] ELSE call[c]]
  BY DEF Crash
<1>2. \A c \in Calls :
        /\ DOMAIN call'[c] = Fields
        /\ \/ ~ Active(c) /\ call'[c] = call[c]
           \/ call'[c].phase = "lost" /\ ~ call[c].repeated /\ call[c].phase \notin Ended
        /\ call'[c].request = call[c].request /\ call'[c].answer = call[c].answer
        /\ call'[c].backups = call[c].backups /\ call'[c].repeated = call[c].repeated
  <2> SUFFICES ASSUME NEW c \in Calls
               PROVE  /\ DOMAIN call'[c] = Fields
                      /\ \/ ~ Active(c) /\ call'[c] = call[c]
                         \/ call'[c].phase = "lost" /\ ~ call[c].repeated /\ call[c].phase \notin Ended
                      /\ call'[c].request = call[c].request /\ call'[c].answer = call[c].answer
                      /\ call'[c].backups = call[c].backups /\ call'[c].repeated = call[c].repeated
    OBVIOUS
  <2>1. CASE Active(c)
    <3>1. call'[c] = [call[c] EXCEPT !.phase = "lost"]
      BY <1>1, <2>1
    <3>2. ~ call[c].repeated /\ call[c].phase \notin Ended
      BY <2>1 DEF IInv, Each, Shape, Active, Ended
    <3> QED BY <1>0, <3>1, <3>2 DEF Basic, Fields
  <2>2. CASE ~ Active(c)
    BY <1>0, <1>1, <2>2 DEF Basic
  <2> QED BY <2>1, <2>2
<1>3. \A c \in Calls : ~ Active(c)'
  BY <1>2 DEF Active, Ended
<1>4. Basic'
  <2>1. temps' \in [Files \X Calls -> Values \ {Torn}]
    BY ConfigAssumption DEF Crash, Values
  <2>2. stored' \in [Keys -> Answers \cup {None}]
    BY <1>0 DEF Crash, Basic
  <2>3. DOMAIN call' = Calls
    BY <1>1
  <2> QED BY <1>0, <1>1, <1>2, <2>1, <2>2, <2>3 DEF Basic
<1>5. Each'
  <2> SUFFICES ASSUME NEW c \in Calls PROVE Shape(c)' /\ Kept(c)' /\ Inside(c)'
    BY DEF Each
  <2>1. Shape(c)'
    BY <1>2 DEF IInv, Each, Shape, Reads, Early, Writing, Restoring, Going, Edits, Ended
  <2> QED BY <1>3, <2>1 DEF Kept, Inside
<1>6. OneAtATime' /\ Resolving' /\ Keyed'
  BY <1>1, <1>3 DEF OneAtATime, Resolving, Calm, Keyed
<1>7. FilesWhole'
  <2> SUFFICES ASSUME NEW f \in Files, disk[f] = Torn
               PROVE  \E c \in Calls : RollbackBegan(c)' /\ f \in Touched(c)'
    BY <1>1 DEF FilesWhole
  <2>1. PICK c \in Calls : RollbackBegan(c) /\ f \in Touched(c)
    BY DEF IInv, FilesWhole
  <2>2. RollbackBegan(c)' /\ Touched(c)' = Touched(c)
    BY <1>2, <2>1 DEF RollbackBegan, Touched, Edits, Ended
  <2> QED BY <2>1, <2>2
<1> QED BY <1>4, <1>5, <1>6, <1>7 DEF IInv

LEMMA InitIInv == Init => IInv
<1> SUFFICES ASSUME Init PROVE IInv
  OBVIOUS
<1>1. \A c \in Calls :
        /\ call[c] = Blank /\ DOMAIN call[c] = Fields /\ call[c].phase = "idle"
        /\ call[c].request = None /\ call[c].edit = 1 /\ call[c].backups = <<>>
        /\ call[c].answer = None /\ call[c].repeated = FALSE
  BY BlankFacts DEF Init, Blank
<1>2. Basic
  <2>1. disk \in [Files -> Values]
    BY ConfigAssumption DEF Init, Values
  <2>2. temps \in [Files \X Calls -> Values \ {Torn}]
    BY ConfigAssumption DEF Init, Values
  <2> QED BY <1>1, <2>1, <2>2 DEF Init, Basic
<1>3. \A c \in Calls : ~ Active(c) /\ BackedUp(c)
  BY <1>1 DEF Active, BackedUp
<1>4. Each
  <2> SUFFICES ASSUME NEW c \in Calls PROVE Shape(c) /\ Kept(c) /\ Inside(c)
    BY DEF Each
  <2>1. <<>> \in Seq(Values)
    OBVIOUS
  <2> QED BY <1>1, <1>3, <2>1
          DEF Shape, Kept, Inside, Reads, Early, Writing, Restoring, Going, Ended
<1>5. OneAtATime /\ Keyed
  BY <1>1, <1>3 DEF OneAtATime, Keyed, KeyOf
<1>6. Resolving
  <2>1. Resolves(Present(disk))
    BY DEF Init
  <2> QED BY <1>3, <2>1 DEF Resolving
<1>7. FilesWhole
  BY ConfigAssumption DEF Init, FilesWhole
<1> QED BY <1>2, <1>4, <1>5, <1>6, <1>7 DEF IInv

LEMMA NextIInv == IInv /\ [Next]_vars => IInv'
<1> SUFFICES ASSUME IInv, [Next]_vars PROVE IInv'
  OBVIOUS
<1>1. ASSUME NEW c \in Calls,
             Snapshot(c) \/ SnapshotTaken(c) \/ Reading(c) \/ Applying(c) \/ RollingBack(c)
      PROVE  IInv'
  BY <1>1, SnapshotStep, SnapshotTakenStep, ListPlaceStep, LoadFileStep, LookUpStep, StoreStep,
     CheckRevisionStep, PlanEditStep, BackUpStep, DeleteFileStep, WriteTempStep,
     RenameTempStep, WriteFailsStep, VerifyStep, RestoringSteps, TruncateStep, RestoreFailsStep
     DEF Reading, Applying, RollingBack
<1>2. CASE UNCHANGED vars
  <2>1. Each'
    <3> SUFFICES ASSUME NEW c \in Calls PROVE (Shape(c) /\ Kept(c) /\ Inside(c))'
      BY DEF Each
    <3>1. Shape(c) /\ Kept(c) /\ Inside(c)
      BY DEF IInv, Each
    <3>2. Shape(c)'
      BY <1>2, <3>1 DEF vars, Shape, Reads, Early, Writing, Restoring, Going, Edits
    <3>3. Undisturbed(c)' = Undisturbed(c)
      BY <1>2 DEF vars, Undisturbed, Touched, Edits
    <3>4. BackedUp(c)' = BackedUp(c)
      BY <1>2 DEF vars, BackedUp, Edits
    <3>5. Kept(c)'
      BY <1>2, <3>1, <3>3, <3>4 DEF vars, Kept, Active, Early, Restoring, Reads, FileOf, Edit, Edits
    <3>6. InsideReading(c) => InsideReading(c)'
      BY <1>2 DEF vars, InsideReading
    <3>7. InsideWriting(c) => InsideWriting(c)'
      <4>1. call'[c] = call[c] /\ disk' = disk /\ before'[c] = before[c] /\ temps' = temps
        BY <1>2 DEF vars
      <4>2. Touched(c)' = Touched(c)
        BY <1>2 DEF vars, Touched, Edits
      <4>3. Made(c, call[c].edit - 1)' = Made(c, call[c].edit - 1)
            /\ Made(c, Len(Edits(c)))' = Made(c, Len(Edits(c)))
        BY <1>2 DEF vars, Made, FileOf, Edits
      <4> QED BY <4>1, <4>2, <4>3 DEF InsideWriting, Reads, Writing, Edit, Edits
    <3>8. Inside(c)'
      BY <1>2, <3>1, <3>6, <3>7 DEF vars, Inside, Active
    <3> QED BY <3>2, <3>5, <3>8
  <2>2. Basic' /\ OneAtATime' /\ Keyed' /\ FilesWhole'
    BY <1>2 DEF vars, IInv, Basic, OneAtATime, Keyed, KeyOf, FilesWhole, Active, RollbackBegan,
                Touched, Edits
  <2>3. Resolving'
    BY <1>2 DEF vars, IInv, Resolving, Calm, BackedUp, Edits, Rests, Active
  <2> QED BY <2>1, <2>2, <2>3 DEF IInv
<1> QED BY <1>1, <1>2, ApplyConfigStep, CrashStep DEF Next

\* Of c's own steps, those that change its record.
LEMMA OwnSteps ==
  ASSUME IInv, Next, NEW c \in Calls, call'[c] # call[c]
  PROVE  \/ Crash \/ Snapshot(c) \/ SnapshotTaken(c) \/ \E r \in Requests : ApplyConfig(c, r)
         \/ Reading(c) \/ Applying(c) \/ RollingBack(c)
<1>1. \A d \in Calls \ {c} : \A rec : ~ Put(d, rec)
  BY DEF Put, IInv, Basic
<1>2. \A d \in Calls \ {c} : ~ Written(d) /\ ~ Restored(d)
  BY <1>1 DEF Written, Restored
<1>3. \A d \in Calls \ {c} :
        ~ Snapshot(d) /\ ~ SnapshotTaken(d) /\ \A r \in Requests : ~ ApplyConfig(d, r)
  BY <1>1 DEF Snapshot, SnapshotTaken, ApplyConfig
<1>4. \A d \in Calls \ {c} : ~ Reading(d)
  BY <1>1 DEF Reading, ListPlace, LoadFile
<1>5. \A d \in Calls \ {c} : ~ Applying(d)
  BY <1>1, <1>2 DEF Applying, LookUp, Store, CheckRevision, PlanEdit, BackUp, DeleteFile, WriteTemp,
                    RenameTemp, WriteFails, Verify
<1>6. \A d \in Calls \ {c} : ~ RollingBack(d)
  BY <1>1, <1>2 DEF RollingBack, RemoveCreated, Truncate, Fill, RestoreFails
<1> QED BY <1>3, <1>4, <1>5, <1>6 DEF Next

-----------------------------------------------------------------------------
\* What is on disk is whole but for a rollback, and resolves between calls
\* that follow each other, for any requests, files and failures.
THEOREM FilesAlwaysSound == Spec => []FilesSound
<1>1. IInv => FilesSound
  BY DEF IInv, FilesSound, QuietDiskResolves, Resolving, Calm
<1> QED BY <1>1, InitIInv, NextIInv, PTL DEF Spec

\* A call repeated with its key is answered like the first, and only one of
\* them has written.
THEOREM RetriesAlwaysApplyOnce == Spec => []RetriesApplyOnce
<1>1. IInv => RetriesApplyOnce
  <2> SUFFICES ASSUME IInv, callers = "serial", ~ crashed, NEW c \in Calls, NEW d \in Calls,
                      c # d, call[c].phase = "answered", call[d].phase = "answered",
                      call[c].request.key # None, call[c].request.key = call[d].request.key
               PROVE  call[c].answer = call[d].answer /\ (call[c].repeated \/ call[d].repeated)
    BY DEF RetriesApplyOnce
  <2>1. call[c].request # None /\ call[d].request # None
    BY ConfigAssumption DEF IInv, Each, Shape
  <2>2. KeyOf(c) = call[c].request.key /\ KeyOf(d) = KeyOf(c)
    BY <2>1 DEF KeyOf
  <2> QED BY <2>2 DEF IInv, Keyed
<1> QED BY <1>1, InitIInv, NextIInv, PTL DEF Spec

\* A call that answers that it failed has put back every file it names,
\* wherever it failed and however often the rollback had to start over.
THEOREM RollbackAlwaysRestores == Spec => RollbackRestores
<1>1. IInv /\ [Next]_vars =>
        [\A c \in Calls :
           /\ call[c].phase \in {"restoring", "filling"}
           /\ call'[c].phase \in {"storing", "answered"}
           /\ Undisturbed(c) /\ BackedUp(c)
           => \A f \in Touched(c) : disk'[f] = before[c][f]]_vars
  <2> SUFFICES ASSUME IInv, Next, NEW c \in Calls, Restoring(c),
                      call'[c].phase \in {"storing", "answered"}, Undisturbed(c), BackedUp(c),
                      NEW f \in Touched(c)
               PROVE  disk'[f] = before[c][f]
    BY DEF Restoring
  <2>1. /\ Basic /\ DOMAIN call[c] = Fields /\ call[c].request \in Requests /\ Active(c)
    BY DEF IInv, Basic, Each, Shape, Restoring, Active, Ended
  <2>2. RollingBack(c) \/ Crash
    <3>1. call'[c] # call[c]
      BY DEF Restoring
    <3>2. Next => ~ (Snapshot(c) \/ SnapshotTaken(c) \/ Reading(c) \/ Applying(c)
                     \/ \E r \in Requests : ApplyConfig(c, r))
      BY DEF Restoring, Snapshot, SnapshotTaken, Loaded, ApplyConfig, Reading, ListPlace, LoadFile,
             Applying, LookUp, Store, CheckRevision, PlanEdit, BackUp, DeleteFile, WriteTemp,
             RenameTemp, WriteFails, Verify
    <3> QED BY <3>1, <3>2, OwnSteps
  <2>3. ~ Crash
    <3> SUFFICES ASSUME Crash PROVE FALSE
      OBVIOUS
    <3>1. call'[c] = [call[c] EXCEPT !.phase = "lost"]
      BY <2>1 DEF Crash
    <3> QED BY <2>1, <3>1 DEF Fields
  <2>4. ~ Truncate(c) /\ ~ RestoreFails(c)
    <3>1. ASSUME Truncate(c) PROVE FALSE
      <4> DEFINE rec == [call[c] EXCEPT !.phase = "filling"]
      <4>1. DOMAIN rec = Fields /\ rec.phase = "filling" /\ Put(c, rec)
        BY <2>1, <3>1 DEF Truncate, Fields
      <4> HIDE DEF rec
      <4> QED BY <2>1, <4>1, PutFacts
    <3>2. ASSUME RestoreFails(c) PROVE FALSE
      <4> DEFINE rec == IF call[c].answer = "verify_failed"
                        THEN StartRestoring(call[c], "write_failed")
                        ELSE [call[c] EXCEPT !.phase = "rejected", !.answer = None]
      <4>1. DOMAIN rec = Fields /\ rec.phase \in {"restoring", "rejected"} /\ Put(c, rec)
        BY <2>1, <3>2, StartRestoringFacts DEF RestoreFails, Fields
      <4> HIDE DEF rec
      <4> QED BY <2>1, <4>1, PutFacts
    <3> QED BY <3>1, <3>2
  <2>5. disk' = [disk EXCEPT ![Edit(c).file] = Backup(c)] /\ Restored(c)
    BY <2>2, <2>3, <2>4 DEF RollingBack, RemoveCreated, Fill
  <2>6. LastEdit(c)
    <3> SUFFICES ASSUME ~ LastEdit(c) PROVE FALSE
      OBVIOUS
    <3> DEFINE rec == [call[c] EXCEPT !.phase = "restoring", !.edit = @ + 1]
    <3>1. DOMAIN rec = Fields /\ rec.phase = "restoring" /\ Put(c, rec)
      BY <2>1, <2>5 DEF Restored, Fields
    <3> HIDE DEF rec
    <3> QED BY <2>1, <3>1, PutFacts
  <2>7. \A i \in 1 .. Len(Edits(c)) : disk'[FileOf(c, i)] = before[c][FileOf(c, i)]
    BY <2>5, <2>6, RestoredFiles DEF LastEdit
  <2> QED BY <2>1, <2>7, EditFacts
<1> QED BY <1>1, InitIInv, NextIInv, PTL DEF Spec, RollbackRestores

\* Among calls that follow each other, one that answers "applied" was applied
\* to the revision it names, with each of its edits and nothing else.
THEOREM AlwaysAppliedToRevision == Spec => AppliedToRevision
<1>1. IInv /\ [Next]_vars =>
        [\A c \in Calls :
           /\ Loaded(c, "verify") /\ call'[c].answer = "applied"
           /\ callers = "serial" /\ call[c].expected # None
           => /\ Present(before[c]) = call[c].expected
              /\ disk' = Edited(c, before[c])]_vars
  <2> SUFFICES ASSUME IInv, Next, NEW c \in Calls, Loaded(c, "verify"),
                      call'[c].answer = "applied", callers = "serial", call[c].expected # None
               PROVE  /\ Present(before[c]) = call[c].expected
                      /\ disk' = Edited(c, before[c])
    OBVIOUS
  <2>1. /\ Basic /\ Reads(c, "verify") /\ call[c].phase = "loading" /\ Active(c)
        /\ call[c].request \in Requests /\ call[c].answer = None /\ DOMAIN call[c] = Fields
        /\ InsideWriting(c)
    <3>1. Reads(c, "verify") /\ call[c].phase = "loading" /\ Active(c)
      BY DEF Loaded, Reads, Active, Ended
    <3>2. Shape(c) /\ Inside(c) /\ Basic
      BY DEF IInv, Each
    <3> QED BY <3>1, <3>2 DEF Shape, Going, Inside, Basic
  <2>2. /\ Present(before[c]) = call[c].expected
        /\ Made(c, Len(Edits(c)))
    BY <2>1, ConfigAssumption DEF InsideWriting
  <2>3. disk' = disk
    <3>1. call'[c] # call[c]
      BY <2>1, ConfigAssumption DEF Answers
    <3>2. ~ (Snapshot(c) \/ SnapshotTaken(c) \/ Reading(c) \/ RollingBack(c)
             \/ \E r \in Requests : ApplyConfig(c, r))
      BY <2>1 DEF Snapshot, SnapshotTaken, Loaded, ApplyConfig, Reading, ListPlace, LoadFile,
             RollingBack, RemoveCreated, Truncate, Fill, RestoreFails
    <3>3. Applying(c) => Verify(c)
      BY <2>1 DEF Applying, LookUp, Store, CheckRevision, PlanEdit, BackUp, DeleteFile,
                  WriteTemp, RenameTemp, WriteFails, Loaded
    <3> QED BY <3>1, <3>2, <3>3, OwnSteps DEF Verify, Crash
  <2>4. disk = Edited(c, before[c])
    <3>1. disk \in [Files -> Values] /\ DOMAIN Edits(c) = 1 .. Len(Edits(c)) /\ Len(Edits(c)) \in Nat
      BY <2>1, EditFacts DEF Basic
    <3> DEFINE writes(f) == {i \in DOMAIN Edits(c) : Edits(c)[i].file = f}
               result(f) == IF writes(f) = {} THEN before[c][f]
                            ELSE Edits(c)[CHOOSE i \in writes(f) : \A j \in writes(f) : j <= i].next
    <3>2. ASSUME NEW f \in Files PROVE disk[f] = result(f)
      <4>1. CASE disk[f] = before[c][f] /\ \A i \in 1 .. Len(Edits(c)) : FileOf(c, i) # f
        BY <3>1, <4>1 DEF FileOf
      <4>2. ASSUME NEW i \in 1 .. Len(Edits(c)), FileOf(c, i) = f, disk[f] = Edits(c)[i].next,
                   \A j \in (i + 1) .. Len(Edits(c)) : FileOf(c, j) # f
            PROVE  disk[f] = result(f)
        <5>1. i \in writes(f) /\ \A j \in writes(f) : j <= i /\ j \in Nat
          BY <3>1, <4>2 DEF FileOf
        <5> HIDE DEF writes
        <5>2. \A k \in writes(f) : (\A j \in writes(f) : j <= k) => k = i
          BY <5>1
        <5>3. (CHOOSE k \in writes(f) : \A j \in writes(f) : j <= k) = i
          BY <5>1, <5>2
        <5> QED BY <4>2, <5>1, <5>3
      <4> QED BY <2>2, <4>1, <4>2 DEF Made
    <3>3. Edited(c, before[c]) = [f \in Files |-> result(f)]
      BY DEF Edited
    <3> HIDE DEF result
    <3> QED BY <3>1, <3>2, <3>3
  <2> QED BY <2>2, <2>3, <2>4
<1> QED BY <1>1, InitIInv, NextIInv, PTL DEF Spec, AppliedToRevision
=============================================================================
