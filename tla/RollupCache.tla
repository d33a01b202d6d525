----------------------------- MODULE RollupCache -----------------------------
(***************************************************************************)
(* One project's history.jsonl and the rollup.json cached from it          *)
(* (core/history.ts, core/rollup.ts).  Commands append a row each; any     *)
(* number of `ctx gain` readers decide from a (size, mtime) stamp or a     *)
(* line count whether the cache is current, rebuild it from the rows       *)
(* otherwise, and write it back in place, without a lock.  The repair of   *)
(* `ctx doctor --fix` may remove the whole directory under them            *)
(* (RecordsRepair).                                                        *)
(*                                                                         *)
(* A rollup is abstracted to the rows summed into it.  A row is an         *)
(* identifier; a line that does not parse is Garbage.  The size counts the *)
(* writes that grew the file.                                              *)
(***************************************************************************)
EXTENDS Naturals, Sequences

CONSTANTS
    Procs,     \* `ctx gain` readers
    Rows,      \* rows that may be recorded
    Garbage,   \* a line that is not a record
    NoRollup,  \* no rollup.json
    Torn,      \* a rollup.json that does not parse
    NoResult,  \* a reader has nothing to report
    MaxTime,   \* bound on the clock
    MaxSize,   \* bound on the writes to one history file
    MaxGens    \* bound on the removals of the directory

ASSUME RowsAssumption == Garbage \notin Rows
ASSUME BoundsAssumption == MaxTime \in Nat /\ MaxSize \in Nat /\ MaxGens \in Nat

VARIABLES
    now,     \* the clock
    gen,     \* how often the directory has been removed
    dir,     \* the directory exists, with a history.jsonl in it
    hist,    \* history.jsonl, line by line
    open,    \* its last line has no newline
    fused,   \* (auxiliary) rows written whole that a later write ran into
    size,    \* its size
    mtime,   \* its modification time
    rollup,  \* rollup.json
    proc     \* the readers

vars == <<now, gen, dir, hist, open, fused, size, mtime, rollup, proc>>
file == <<dir, hist, open, fused, size, mtime>>

Stamp == [size : Nat, mtime : Nat]
\* core/rollup.ts ProjectRollup: what was summed, source_lines, and the stamp.
Rollup == [rows : SUBSET Rows, lines : Nat, stamp : Stamp]

\* The slip of summing the lines that do not parse.
RowsToUnparsed(n) == {hist[i] : i \in 1 .. n}

\* The records of the first n lines, and of all of them.
RowsTo(n) == {hist[i] : i \in 1 .. n} \cap Rows
AllRows == RowsTo(Len(hist))
\* Every row ever written whole, the fused ones included.
Written == AllRows \cup fused
FileStamp == [size |-> size, mtime |-> mtime]
Parses(r) == r # NoRollup /\ r # Torn

Phases == {"idle", "load", "count", "rebuild", "open", "write", "done"}

\* A reader: what it learned on the way (the stamp of stat, the rollup it loaded or
\* built, the line count, the file it opened) and what it reports.  user: reading all
\* projects (listProjectRollups) rather than its own (ensureProjectRollup).  seen: the
\* rows there were when it started.
Proc == [pc : Phases, user : BOOLEAN, st : Stamp, seen : SUBSET Rows,
         mine : Rollup \cup {NoRollup, Torn}, count : Nat, built : BOOLEAN,
         fd : Nat, result : (SUBSET Rows) \cup {NoResult}]

NoStamp == [size |-> 0, mtime |-> 0]
Idle == [pc |-> "idle", user |-> FALSE, st |-> NoStamp, seen |-> {}, mine |-> NoRollup,
         count |-> 0, built |-> FALSE, fd |-> 0, result |-> NoResult]

Init ==
    /\ now = 0 /\ gen = 0 /\ dir = FALSE
    /\ hist = <<>> /\ open = FALSE /\ fused = {} /\ size = 0 /\ mtime = 0
    /\ rollup = NoRollup
    /\ proc = [p \in Procs |-> Idle]

-----------------------------------------------------------------------------
(* Commands: core/history.ts appendJsonLine *)

Grow == size < MaxSize /\ size' = size + 1 /\ mtime' = now /\ dir' = TRUE

\* A line x after the last one.  If that one has no newline the two are one line, which
\* does not parse, and the number of lines stays.
WriteLine(x) ==
    IF open THEN /\ hist' = [hist EXCEPT ![Len(hist)] = Garbage]
                 /\ fused' = fused \cup ({hist[Len(hist)]} \cap Rows)
            ELSE hist' = Append(hist, x) /\ UNCHANGED fused

\* One write of one row with its newline; the directory is made if it is missing.
Record(r) ==
    /\ Grow
    /\ r \notin Written
    /\ WriteLine(r) /\ open' = FALSE
    /\ UNCHANGED <<now, gen, rollup, proc>>

\* The write stops half way (the disk is full, the machine goes down): inside the row,
\* or just before its newline, when the line parses and yet is not closed.
RecordTorn ==
    /\ Grow
    /\ \E x \in (Rows \ Written) \cup {Garbage} : WriteLine(x)
    /\ open' = TRUE
    /\ UNCHANGED <<now, gen, rollup, proc>>

-----------------------------------------------------------------------------
(* Readers: ensureProjectRollup and listProjectRollups *)

Become(p, r) == proc' = [proc EXCEPT ![p] = r]
Report(p, rows) == Become(p, [Idle EXCEPT !.pc = "done", !.user = proc[p].user,
                                 !.seen = proc[p].seen, !.result = rows])
Shared == <<now, gen, file, rollup>>

\* statHistory: without a row there is nothing to sum.
Stat(p, user) ==
    /\ proc[p].pc = "idle"
    /\ Become(p, IF dir /\ size > 0
                 THEN [Idle EXCEPT !.pc = "load", !.user = user, !.st = FileStamp,
                          !.seen = AllRows]
                 ELSE [Idle EXCEPT !.pc = "done", !.user = user,
                          !.result = IF user THEN NoResult ELSE {}])
    /\ UNCHANGED Shared

\* The slip of trusting the modification time alone.
LoadByTime(p) ==
    /\ proc[p].pc = "load"
    /\ IF Parses(rollup) /\ rollup.stamp.mtime = proc[p].st.mtime
       THEN Report(p, rollup.rows)
       ELSE Become(p, [proc[p] EXCEPT !.pc = "count", !.mine = rollup])
    /\ UNCHANGED Shared

\* loadRollupFile; an unchanged stamp is the fast path.
Load(p) ==
    /\ proc[p].pc = "load"
    /\ IF Parses(rollup) /\ rollup.stamp = proc[p].st
       THEN Report(p, rollup.rows)
       ELSE Become(p, [proc[p] EXCEPT !.pc = "count", !.mine = rollup])
    /\ UNCHANGED Shared

\* countJsonlLines: as many lines as the cache was built from means only the stamp is old.
Count(p) ==
    /\ proc[p].pc = "count"
    /\ IF Len(hist) = 0
       THEN Report(p, IF proc[p].user THEN NoResult ELSE {})
       ELSE IF Parses(proc[p].mine) /\ proc[p].mine.lines = Len(hist)
       THEN Become(p, [proc[p] EXCEPT !.pc = "open", !.mine.stamp = proc[p].st])
       ELSE Become(p, [proc[p] EXCEPT !.pc = "rebuild", !.mine = NoRollup, !.count = Len(hist)])
    /\ UNCHANGED Shared

\* rebuildRollupFromJsonl: every line that parses, up to where the stream meets the end
\* of the file; pinned to the lines counted and the stamp taken before.
Rebuild(p) ==
    /\ proc[p].pc = "rebuild" /\ dir
    /\ Become(p, [proc[p] EXCEPT !.pc = "open", !.built = TRUE, !.count = 0,
          !.mine = [rows |-> AllRows, lines |-> proc[p].count, stamp |-> proc[p].st]])
    /\ UNCHANGED Shared

\* The file is gone: there is nothing to report of the project.
RebuildFails(p) ==
    /\ proc[p].pc = "rebuild" /\ ~dir
    /\ Report(p, NoResult)
    /\ UNCHANGED Shared

\* The slip of stamping the cache with the file as it is when it is saved.
SaveOpenStampsLate(p) ==
    /\ proc[p].pc = "open" /\ dir
    /\ rollup' = Torn
    /\ Become(p, [proc[p] EXCEPT !.pc = "write", !.fd = gen, !.mine.stamp = FileStamp])
    /\ UNCHANGED <<now, gen, file>>

\* saveRollup opens rollup.json and with that empties it...
SaveOpen(p) ==
    /\ proc[p].pc = "open" /\ dir
    /\ rollup' = Torn
    /\ Become(p, [proc[p] EXCEPT !.pc = "write", !.fd = gen])
    /\ UNCHANGED <<now, gen, file>>

\* ...and writes the whole of it, over what another reader may have written meanwhile
\* (a longer text leaves its tail behind), or into a file that has been removed.
SaveWrite(p) ==
    /\ proc[p].pc = "write"
    /\ rollup' \in IF proc[p].fd # gen THEN {rollup}
                   ELSE IF rollup = Torn THEN {proc[p].mine} ELSE {proc[p].mine, Torn}
    /\ Report(p, proc[p].mine.rows)
    /\ UNCHANGED <<now, gen, file>>

\* The cache cannot be written.  The reader of one project reports what it has in
\* memory; the one of all projects skips a project it has just rebuilt.
SaveFails(p) ==
    /\ proc[p].pc \in {"open", "write"}
    /\ Report(p, IF proc[p].user /\ proc[p].built THEN NoResult ELSE proc[p].mine.rows)
    /\ UNCHANGED Shared

\* The reader ends, having reported, or is killed before that.
End(p) ==
    /\ proc[p].pc # "idle"
    /\ Become(p, Idle)
    /\ UNCHANGED Shared

-----------------------------------------------------------------------------
(* The environment *)

\* recordsHealth.ts removeBucketDir, never within the millisecond of the next row.
Remove ==
    /\ dir /\ gen < MaxGens /\ now < MaxTime
    /\ gen' = gen + 1 /\ now' = now + 1
    /\ dir' = FALSE /\ hist' = <<>> /\ open' = FALSE /\ fused' = {}
    /\ size' = 0 /\ mtime' = 0
    /\ rollup' = NoRollup
    /\ UNCHANGED proc

Tick ==
    /\ now < MaxTime
    /\ now' = now + 1
    /\ UNCHANGED <<gen, file, rollup, proc>>

-----------------------------------------------------------------------------
Step(p) ==
    \/ Load(p) \/ Count(p) \/ Rebuild(p) \/ RebuildFails(p)
    \/ SaveOpen(p) \/ SaveWrite(p) \/ SaveFails(p) \/ End(p)

Next ==
    \/ \E r \in Rows : Record(r)
    \/ RecordTorn
    \/ \E p \in Procs : Step(p) \/ \E user \in BOOLEAN : Stat(p, user)
    \/ Remove \/ Tick

Spec == Init /\ [][Next]_vars

-----------------------------------------------------------------------------
TypeOK ==
    /\ now \in Nat /\ gen \in Nat /\ dir \in BOOLEAN
    /\ hist \in Seq(Rows \cup {Garbage}) /\ open \in BOOLEAN
    /\ fused \in SUBSET Rows /\ size \in Nat /\ mtime \in Nat
    /\ rollup \in Rollup \cup {NoRollup, Torn}
    /\ proc \in [Procs -> Proc]

\* The claim of core/rollup.ts, an unchanged size and modification time prove the cache
\* current, as far as it is true: the rollup has every row of the file, and no other but
\* fused ones.  Of a line cut just before its newline the cache may have counted the row;
\* the next write makes garbage of it and leaves the line count as it was, so the stamp
\* is refreshed over a row that is no longer there.  It holds whatever readers and
\* writers do to each other, until the directory is removed.
StampProvesCurrent ==
    gen = 0 /\ Parses(rollup) /\ rollup.stamp = FileStamp =>
        AllRows \subseteq rollup.rows /\ rollup.rows \subseteq Written

\* What a reader reports is the history at some moment of its run: nothing recorded
\* before it started is missing, unless it has been fused since, and nothing is counted
\* that was never written whole.
ReportIsCurrent ==
    gen = 0 => \A p \in Procs : proc[p].pc = "done" /\ proc[p].result # NoResult =>
                   proc[p].seen \subseteq proc[p].result \cup fused /\ proc[p].result \subseteq Written
=============================================================================
