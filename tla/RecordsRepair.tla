---------------------------- MODULE RecordsRepair ----------------------------
(***************************************************************************)
(* `ctx doctor --fix` on the metrics store (core/recordsHealth.ts,         *)
(* shim/doctor.ts repairRecords): merge the two spellings of a project's   *)
(* directory, recover names, archive the directories that have none, prune *)
(* the empty ones.  Every move is a copy, ledger by ledger, and then a     *)
(* removal, without a lock, while commands record rows, other doctors run  *)
(* and any of them may die.                                                *)
(*                                                                         *)
(* A bucket holds, for every row, how many copies of it are in its         *)
(* ledgers.  The rollup caches are in RollupCache.                         *)
(***************************************************************************)
EXTENDS Naturals, FiniteSets

CONSTANTS
    Projects,   \* fingerprints
    Rows,       \* rows that may be recorded
    ProjectOf,  \* the project of each row
    LedgerOf,   \* the ledger of each row; 1 is history.jsonl
    Ledgers,    \* how many ledgers a bucket has
    Doctors,    \* processes running `ctx doctor --fix`
    NoDir,      \* no directory
    MaxRuns     \* bound on the number of repairs started

ASSUME RowsAssumption ==
    /\ Ledgers \in Nat \ {0} /\ MaxRuns \in Nat
    /\ ProjectOf \in [Rows -> Projects] /\ LedgerOf \in [Rows -> 1 .. Ledgers]

VARIABLES
    bucket,   \* the directories under projects/
    healing,  \* projects whose command has recorded a row and not yet written the label
    doctor,   \* the repairs
    runs,     \* repairs started
    recorded, \* rows recorded so far
    mishaps   \* what has gone wrong so far

vars == <<bucket, healing, doctor, runs, recorded, mishaps>>

\* A fingerprint spelled as on this platform (fingerprintSegment) and as on the other.
Canonical(p) == <<p, "canonical">>
Other(p) == <<p, "other">>
Archive == <<"archived", "synthetic">>
Dirs == {Canonical(p) : p \in Projects} \cup {Other(p) : p \in Projects} \cup {Archive}

\* there: the directory exists.  label: what readMeta says of its meta.json.
Labels == {"none", "junk", "clean"}
Bucket == [there : BOOLEAN, count : [Rows -> Nat], label : Labels]
NoRows == [r \in Rows |-> 0]
Gone == [there |-> FALSE, count |-> NoRows, label |-> "none"]

\* late: a row or a label came too late for a repair that went on to remove its
\* directory.  crash: a repair ended between a copy and the removal.  leftover: such a
\* removal failed.  overlap: two repairs at once.
Mishaps == {"late", "crash", "leftover", "overlap"}

\* A repair: where it is, in which pass, what that pass has still to do, the directory it
\* moves and where to, the ledger it is at, what it has read of it, whether it has
\* appended any of it yet, and whether it has had the store to itself.
Doctor == [pc : {"idle", "diagnose", "next", "read", "append", "remove", "done"},
           pass : {"merge", "recover", "archive", "prune"},
           todo : SUBSET Dirs, src : Dirs \cup {NoDir}, dst : Dirs \cup {NoDir},
           ledger : Nat, held : [Rows -> Nat], appended : BOOLEAN, quiet : BOOLEAN]
Idle == [pc |-> "idle", pass |-> "merge", todo |-> {}, src |-> NoDir, dst |-> NoDir,
         ledger |-> 0, held |-> NoRows, appended |-> FALSE, quiet |-> FALSE]

-----------------------------------------------------------------------------
(* diagnoseRecords *)

Content(b, l) == [r \in Rows |-> IF LedgerOf[r] = l THEN b.count[r] ELSE 0]
Empty(b) == b.count = NoRows

\* The slip of taking every bucket with a history for an orphan.
OrphanWhatever(d) == d # Archive /\ Content(bucket[d], 1) # NoRows

\* History, and nothing but a hash to call it by.
Orphan(d) == d # Archive /\ Content(bucket[d], 1) # NoRows /\ bucket[d].label # "clean"

Duplicates == {Other(p) : p \in {q \in Projects :
                  bucket[Canonical(q)].there /\ bucket[Other(q)].there}}
Orphans == {d \in Dirs : Orphan(d)}
EmptyBuckets == {d \in Dirs : bucket[d].there /\ Empty(bucket[d])}

\* A store as commands leave it, some of it brought over from another platform.
Init ==
    /\ recorded \in SUBSET Rows
    /\ \E away \in SUBSET recorded, made \in SUBSET (Dirs \ {Archive}),
          label \in [Dirs \ {Archive} -> Labels] :
          LET in(d, r) == r \in recorded /\ d = IF r \in away THEN Other(ProjectOf[r])
                                                ELSE Canonical(ProjectOf[r])
          IN  /\ \A r \in recorded : \E d \in made : in(d, r)
              /\ \A d \in Dirs \ {Archive} : d \notin made => label[d] = "none"
              /\ bucket = [d \in Dirs |-> IF d \in made
                    THEN [there |-> TRUE, label |-> label[d],
                          count |-> [r \in Rows |-> IF in(d, r) THEN 1 ELSE 0]]
                    ELSE Gone]
    /\ healing = {} /\ runs = 0 /\ mishaps = {}
    /\ doctor = [d \in Doctors |-> Idle]

-----------------------------------------------------------------------------
(* Commands (core/history.ts) *)

\* Repair e has passed the place of row r, or of the label, in directory d.
RowTooLate(e, d, r) ==
    LET w == doctor[e] IN
    \/ w.src = d /\ (LedgerOf[r] < w.ledger \/ (LedgerOf[r] = w.ledger /\ w.pc = "append"))
    \/ w.pass = "prune" /\ d \in w.todo
LabelTooLate(e, d) ==
    LET w == doctor[e] IN
    w.src = d \/ (w.pass \in {"archive", "prune"} /\ d \in w.todo)

\* The store changes under the repairs of others.
Disturbed(others) == [e \in Doctors |-> IF e \in others THEN [doctor[e] EXCEPT !.quiet = FALSE]
                                        ELSE doctor[e]]

\* A bucket with these rows appended to its ledgers.
Plus(b, rows) == [b EXCEPT !.count = [r \in Rows |-> b.count[r] + rows[r]]]

\* A row, in one write, and the directory if it is missing.
Record(r) ==
    LET d == Canonical(ProjectOf[r])
        row == [q \in Rows |-> IF q = r THEN 1 ELSE 0]
    IN
    /\ r \notin recorded
    /\ recorded' = recorded \cup {r}
    /\ bucket' = [bucket EXCEPT ![d] = [Plus(bucket[d], row) EXCEPT !.there = TRUE]]
    /\ healing' = IF LedgerOf[r] = 1 THEN healing \cup {ProjectOf[r]} ELSE healing
    /\ doctor' = Disturbed(Doctors)
    /\ mishaps' = mishaps \cup {m \in {"late"} : \E e \in Doctors : RowTooLate(e, d, r)}
    /\ UNCHANGED runs

Labelled(b) == IF b.there THEN [b EXCEPT !.label = "clean"] ELSE b

\* ensureProjectMeta; without the directory it fails, and nobody hears of it.
Heal(p) ==
    LET d == Canonical(p) IN
    /\ p \in healing
    /\ healing' = healing \ {p}
    /\ bucket' = [bucket EXCEPT ![d] = Labelled(@)]
    /\ doctor' = Disturbed(Doctors)
    /\ mishaps' = mishaps \cup {m \in {"late"} : \E e \in Doctors : LabelTooLate(e, d)}
    /\ UNCHANGED <<runs, recorded>>

\* The command dies, or fails, before it gets that far.
HealFails(p) ==
    /\ p \in healing
    /\ healing' = healing \ {p}
    /\ UNCHANGED <<bucket, doctor, runs, recorded, mishaps>>

-----------------------------------------------------------------------------
(* The repair (shim/doctor.ts repairRecords) *)

Others(d) == Doctors \ {d}
\* A step of repair d that changes the store, and one that does not.
Changes(d, w) == doctor' = [Disturbed(Others(d)) EXCEPT ![d] = w]
Goes(d, w) == doctor' = [doctor EXCEPT ![d] = w] /\ UNCHANGED bucket
At(d, pass, pc) == doctor[d].pass = pass /\ doctor[d].pc = pc
Pass(d, pass) == [doctor[d] EXCEPT !.pass = pass, !.pc = "diagnose", !.todo = {}]
Commands == <<healing, runs, recorded>>

\* `ctx doctor --fix`, in a directory of a project in here, or of none.  That project is
\* given its name first.
Start(d, here) ==
    LET healed == {Canonical(p) : p \in here} IN
    /\ doctor[d].pc = "idle" /\ runs < MaxRuns
    /\ runs' = runs + 1
    /\ bucket' = [b \in Dirs |-> IF b \in healed THEN Labelled(bucket[b]) ELSE bucket[b]]
    /\ Changes(d, [Idle EXCEPT !.pc = "diagnose", !.quiet = TRUE])
    /\ mishaps' = mishaps
         \cup {m \in {"overlap"} : \E e \in Others(d) : doctor[e].pc # "idle"}
         \cup {m \in {"late"} : \E e \in Others(d), b \in healed : LabelTooLate(e, b)}
    /\ UNCHANGED <<healing, recorded>>

\* mergeDuplicateBuckets
DiagnoseMerge(d) ==
    /\ At(d, "merge", "diagnose")
    /\ Goes(d, [doctor[d] EXCEPT !.pc = "next", !.todo = Duplicates])
    /\ UNCHANGED <<Commands, mishaps>>

\* recoverOrphanNames: known are the projects whose repository is under the scan root.
\* The label goes to the canonical directory, made if it is missing.
Recover(d, known) ==
    LET given == {Canonical(p) : p \in {q \in known : \E o \in Orphans : o[1] = q}} IN
    /\ At(d, "recover", "diagnose")
    /\ bucket' = [b \in Dirs |-> IF b \in given
                    THEN [bucket[b] EXCEPT !.there = TRUE, !.label = "clean"] ELSE bucket[b]]
    /\ Changes(d, Pass(d, "archive"))
    /\ mishaps' = mishaps \cup {m \in {"late"} :
                      \E e \in Others(d), b \in given : LabelTooLate(e, b)}
    /\ UNCHANGED Commands

\* archiveUnresolvedOrphans: junk labels go, unless the bucket goes as a whole.
DiagnoseArchive(d) ==
    /\ At(d, "archive", "diagnose")
    /\ bucket' = [b \in Dirs |->
          [bucket[b] EXCEPT !.label = IF @ = "junk" /\ ~Orphan(b) THEN "none" ELSE @,
                            !.there = @ \/ (b = Archive /\ Orphans # {})]]
    /\ Changes(d, IF Orphans = {} THEN Pass(d, "prune")
                  ELSE [doctor[d] EXCEPT !.pc = "next", !.todo = Orphans])
    /\ UNCHANGED <<Commands, mishaps>>

\* The slip of sparing the directories that have a label.
DiagnosePruneUnlabelled(d) ==
    /\ At(d, "prune", "diagnose")
    /\ Goes(d, [doctor[d] EXCEPT !.pc = "next",
                   !.todo = {b \in EmptyBuckets : bucket[b].label = "none"} \ {Archive}])
    /\ UNCHANGED <<Commands, mishaps>>

\* pruneEmptyBuckets
DiagnosePrune(d) ==
    /\ At(d, "prune", "diagnose")
    /\ Goes(d, [doctor[d] EXCEPT !.pc = "next", !.todo = EmptyBuckets \ {Archive}])
    /\ UNCHANGED <<Commands, mishaps>>

\* The next directory of a pass: to be emptied into another one, or just removed.
MoveNext(d, src) ==
    LET dst == IF doctor[d].pass = "merge" THEN Canonical(src[1]) ELSE Archive IN
    /\ doctor[d].pc = "next" /\ doctor[d].pass \in {"merge", "archive"}
    /\ src \in doctor[d].todo
    /\ bucket' = IF doctor[d].pass = "merge" THEN [bucket EXCEPT ![dst].there = TRUE] ELSE bucket
    /\ Changes(d, [doctor[d] EXCEPT !.pc = "read", !.src = src, !.dst = dst, !.ledger = 1])
    /\ UNCHANGED <<Commands, mishaps>>

PruneNext(d, src) ==
    /\ At(d, "prune", "next") /\ src \in doctor[d].todo
    /\ Goes(d, [doctor[d] EXCEPT !.pc = "remove", !.src = src, !.ledger = Ledgers + 1])
    /\ UNCHANGED <<Commands, mishaps>>

\* The slip of forgetting the last ledger.
NextLedgerShort(w) ==
    IF w.ledger + 1 < Ledgers
    THEN [w EXCEPT !.pc = "read", !.ledger = @ + 1, !.held = NoRows]
    ELSE [w EXCEPT !.pc = "remove", !.ledger = Ledgers + 1, !.held = NoRows]

\* The slip of going one ledger too far.
NextLedgerPast(w) ==
    IF w.ledger <= Ledgers
    THEN [w EXCEPT !.pc = "read", !.ledger = @ + 1, !.held = NoRows]
    ELSE [w EXCEPT !.pc = "remove", !.ledger = Ledgers + 1, !.held = NoRows]

NextLedger(w) ==
    IF w.ledger < Ledgers
    THEN [w EXCEPT !.pc = "read", !.ledger = @ + 1, !.held = NoRows]
    ELSE [w EXCEPT !.pc = "remove", !.ledger = Ledgers + 1, !.held = NoRows]

\* appendFileContent reads the whole of the source, if there is anything in it...
Read(d) ==
    LET w == doctor[d]
        text == Content(bucket[w.src], w.ledger)
    IN  /\ w.pc = "read"
        /\ Goes(d, IF text = NoRows THEN NextLedger(w)
                   ELSE [w EXCEPT !.pc = "append", !.held = text])
        /\ UNCHANGED <<Commands, mishaps>>

With(d, rows) == [bucket EXCEPT ![doctor[d].dst] = Plus(bucket[doctor[d].dst], rows)]
\* The rows repair d appends are new to the repairs of others.
Appended(d, rows) ==
    {m \in {"late"} : \E e \in Others(d), r \in Rows :
                          rows[r] > 0 /\ RowTooLate(e, doctor[d].dst, r)}

\* ...and appends it to the destination,
AppendRead(d) ==
    /\ doctor[d].pc = "append" /\ bucket[doctor[d].dst].there
    /\ bucket' = With(d, doctor[d].held)
    /\ Changes(d, NextLedger([doctor[d] EXCEPT !.appended = TRUE]))
    /\ mishaps' = mishaps \cup Appended(d, doctor[d].held)
    /\ UNCHANGED Commands

\* which may fail half way; the exception ends the repair.
AppendFails(d) ==
    /\ doctor[d].pc = "append"
    /\ \E part \in SUBSET (IF bucket[doctor[d].dst].there THEN Rows ELSE {}) :
       LET rows == [r \in Rows |-> IF r \in part THEN doctor[d].held[r] ELSE 0] IN
       /\ bucket' = With(d, rows)
       /\ mishaps' = mishaps \cup Appended(d, rows)
             \cup {m \in {"crash"} : doctor[d].appended \/ rows # NoRows}
    /\ Changes(d, Idle)
    /\ UNCHANGED Commands

Moved(d) == [doctor[d] EXCEPT !.pc = "next", !.todo = @ \ {doctor[d].src}, !.src = NoDir,
                              !.dst = NoDir, !.ledger = 0, !.appended = FALSE]

\* The slip of a removal that only takes empty directories, its error swallowed.
RemoveUnlessFull(d) ==
    /\ doctor[d].pc = "remove"
    /\ bucket' = IF Empty(bucket[doctor[d].src])
                 THEN [bucket EXCEPT ![doctor[d].src] = Gone] ELSE bucket
    /\ Changes(d, Moved(d))
    /\ UNCHANGED <<Commands, mishaps>>

\* removeBucketDir
RemoveBucket(d) ==
    /\ doctor[d].pc = "remove"
    /\ bucket' = [bucket EXCEPT ![doctor[d].src] = Gone]
    /\ Changes(d, Moved(d))
    /\ UNCHANGED <<Commands, mishaps>>

\* "Best-effort": some of its files, or all, are still there, and the repair goes on.
RemoveFails(d) ==
    LET src == doctor[d].src IN
    /\ doctor[d].pc = "remove" /\ bucket[src].there
    /\ \E kept \in SUBSET (1 .. Ledgers), label \in {bucket[src].label, "none"} :
       bucket' = [bucket EXCEPT ![src] = [there |-> TRUE, label |-> label,
                     count |-> [r \in Rows |-> IF LedgerOf[r] \in kept THEN @.count[r] ELSE 0]]]
    /\ Changes(d, [Moved(d) EXCEPT !.quiet = FALSE])
    /\ mishaps' = mishaps \cup {m \in {"leftover"} : doctor[d].appended}
    /\ UNCHANGED Commands

\* A pass is through; the archive is given its label, which makes it no orphan.
PassDone(d) ==
    LET w == doctor[d] IN
    /\ w.pc = "next" /\ w.todo = {}
    /\ bucket' = IF w.pass = "archive" THEN [bucket EXCEPT ![Archive].label = "clean"] ELSE bucket
    /\ Changes(d, CASE w.pass = "merge" -> Pass(d, "recover")
                    [] w.pass = "archive" -> Pass(d, "prune")
                    [] w.pass = "prune" -> [w EXCEPT !.pc = "done"])
    /\ UNCHANGED <<Commands, mishaps>>

End(d) ==
    /\ doctor[d].pc = "done"
    /\ Goes(d, Idle)
    /\ UNCHANGED <<Commands, mishaps>>

\* The repair dies; what it has copied and not removed is there twice.
Crash(d) ==
    /\ doctor[d].pc \notin {"idle", "done"}
    /\ Goes(d, Idle)
    /\ mishaps' = mishaps \cup {m \in {"crash"} : doctor[d].appended}
    /\ UNCHANGED Commands

-----------------------------------------------------------------------------
Step(d) ==
    \/ DiagnoseMerge(d) \/ \E known \in SUBSET Projects : Recover(d, known)
    \/ DiagnoseArchive(d) \/ DiagnosePrune(d)
    \/ \E src \in Dirs : MoveNext(d, src) \/ PruneNext(d, src)
    \/ Read(d) \/ AppendRead(d) \/ AppendFails(d) \/ RemoveBucket(d) \/ RemoveFails(d)
    \/ PassDone(d) \/ End(d)

Next ==
    \/ \E r \in Rows : Record(r)
    \/ \E p \in Projects : Heal(p) \/ HealFails(p)
    \/ \E d \in Doctors : Step(d) \/ Crash(d)
    \/ \E d \in Doctors, here \in {{}} \cup {{p} : p \in Projects} : Start(d, here)

Spec == Init /\ [][Next]_vars

-----------------------------------------------------------------------------
TypeOK ==
    /\ bucket \in [Dirs -> Bucket] /\ healing \subseteq Projects
    /\ doctor \in [Doctors -> Doctor] /\ runs \in Nat
    /\ recorded \subseteq Rows /\ mishaps \subseteq Mishaps
    /\ \A d \in Doctors : doctor[d].pc \in {"read", "append"} =>
          /\ doctor[d].src \in Dirs /\ doctor[d].dst \in Dirs
          /\ doctor[d].ledger \in 1 .. Ledgers

\* "Merged, not dropped": whatever dies or fails, and however often the repair is started
\* again, every row recorded is still in some bucket, unless it came into a directory
\* behind the back of a repair that was about to remove it.
NeverLost ==
    "late" \notin mishaps =>
        \A r \in recorded : \E d \in Dirs : bucket[d].there /\ bucket[d].count[r] > 0

\* And it is there once when no repair is under way, unless a repair died or could not
\* remove what it had copied, or two of them did the same work.
NeverDoubled ==
    mishaps \cap {"crash", "leftover", "overlap"} = {}
    /\ (\A d \in Doctors : doctor[d].pc \in {"idle", "done"})
      => \A r \in Rows, d, e \in Dirs :
            /\ bucket[d].count[r] <= 1
            /\ bucket[d].count[r] > 0 /\ bucket[e].count[r] > 0 => d = e

\* A merge is through with directory d, a second spelling: what it could remove is gone.
MergedAway(d) ==
    \E e \in Doctors : At(e, "merge", "remove") /\ doctor[e].src = d /\ doctor'[e].pc = "next"

\* A bucket with a history and a usable name of its own, of either spelling, keeps the
\* name, unless it got it while a repair had already found it without one.  There is one
\* exception: mergeDuplicateBuckets takes the rows of the second spelling to the first and
\* leaves its meta.json to be removed, so a name that only the second one has is lost.
NameSurvives ==
    [][\A d \in Dirs :
          bucket[d].label = "clean" /\ Content(bucket[d], 1) # NoRows /\ "late" \notin mishaps'
            => \/ bucket'[d].label = "clean"
               \/ d \in {Other(p) : p \in Projects} /\ MergedAway(d)]_vars

\* A repair that had the store to itself leaves it healthy, whatever earlier ones left
\* behind: no duplicate, no orphan and no empty directory.
RepairedIsHealthy ==
    \A d \in Doctors : doctor[d].pc = "done" /\ doctor[d].quiet =>
        Duplicates = {} /\ Orphans = {} /\ EmptyBuckets \subseteq {Archive}

\* core/recordsHealth.ts removeBucketDir: "a leftover dir is harmless".
LeftoverHarmless ==
    mishaps \subseteq {"leftover"} /\ (\A d \in Doctors : doctor[d].pc \in {"idle", "done"})
      => \A r \in Rows, d, e \in Dirs :
            /\ bucket[d].count[r] <= 1
            /\ bucket[d].count[r] > 0 /\ bucket[e].count[r] > 0 => d = e

\* ADR 0014: a project with a usable label "can't be swept into archived".
NamedNeverArchived ==
    \A d \in Doctors : At(d, "archive", "remove") /\ doctor[d].appended /\ mishaps = {}
        => bucket[Canonical(doctor[d].src[1])].label # "clean"
=============================================================================
