------------------------- MODULE SharedFilesProofs -------------------------
(***************************************************************************)
(* Proofs about the two files that the processes of ctx share without a    *)
(* lock, each of which is right only under a condition on its writers: the *)
(* rollup cache of a project's history (RollupCache) and the state file of *)
(* telemetry (Telemetry).                                                  *)
(***************************************************************************)
EXTENDS RollupCache, Telemetry, SequenceTheorems, TLAPS

-----------------------------------------------------------------------------
(***************************************************************************)
(* Proofs about RollupCache: as long as the history is append-only, a      *)
(* rollup whose stamp matches the file has all of the file, and every      *)
(* report covers all that was recorded before its reader started; what     *)
(* sets the two apart are only the rows whose line a later write ran into. *)
(*                                                                         *)
(* The stamp alone is not inductive: a reader holds a stamp, a line count  *)
(* and perhaps a rollup for several steps while the file grows and other   *)
(* readers overwrite the cache.  The invariant says of every rollup in     *)
(* existence, in the file or in a reader's hands, that it is Good: it      *)
(* covers the lines it counted, its stamp is no newer than the file, and   *)
(* it covers whatever a reader with an older stamp has seen.               *)
(***************************************************************************)
Reading == {"load", "count", "rebuild", "open", "write"}
HasRollup(p) == \/ proc[p].pc = "count" /\ Parses(proc[p].mine)
                \/ proc[p].pc \in {"open", "write"}

\* The rollups that exist.
Live == {m \in {rollup} : Parses(m)}
        \cup {proc[p].mine : p \in {q \in Procs : HasRollup(q)}}

Sound(m) ==
    /\ m.lines <= Len(hist) /\ m.stamp.size <= size
    /\ RowsTo(m.lines) \subseteq m.rows /\ m.rows \subseteq Written
    /\ m.stamp.size = size => AllRows \subseteq m.rows

Covers(m, p) == proc[p].pc \in Reading /\ proc[p].st.size <= m.stamp.size
                    => proc[p].seen \subseteq m.rows \cup fused

Good(m) == Sound(m) /\ \A p \in Procs : Covers(m, p)

\* What a reader knows, while it is under way and when it has reported.
ReaderInv(p) ==
    /\ proc[p].pc \in Reading => proc[p].st.size <= size /\ proc[p].seen \subseteq Written
    /\ proc[p].pc = "rebuild" => proc[p].count <= Len(hist)
    /\ proc[p].pc \in {"open", "write"} => proc[p].seen \subseteq proc[p].mine.rows \cup fused
    /\ proc[p].pc = "done" /\ proc[p].result # NoResult =>
           proc[p].seen \subseteq proc[p].result \cup fused /\ proc[p].result \subseteq Written

HistoryInv ==
    gen = 0 => /\ \A m \in Live : Good(m)
               /\ \A p \in Procs : ReaderInv(p)

MineTyped == \A p \in Procs : proc[p].pc \in {"open", "write"} => proc[p].mine \in Rollup

RollupInv == TypeOK /\ MineTyped /\ HistoryInv

-----------------------------------------------------------------------------
(* The file *)

\* One more write adds a line or spoils the last one, whose row is then a fused one.
LEMMA GrowKeepsLines ==
    ASSUME TypeOK, NEW x \in Rows \cup {Garbage}, WriteLine(x)
    PROVE  /\ hist' \in Seq(Rows \cup {Garbage}) /\ fused' \in SUBSET Rows
           /\ Len(hist) <= Len(hist')
           /\ \A n \in Nat : n <= Len(hist) => RowsTo(n)' \subseteq RowsTo(n)
           /\ fused \subseteq fused' /\ Written \subseteq Written'
<1>1. hist \in Seq(Rows \cup {Garbage}) /\ fused \in SUBSET Rows
  BY DEF TypeOK
<1>2. /\ hist' \in Seq(Rows \cup {Garbage}) /\ Len(hist) <= Len(hist')
      /\ \A i \in 1 .. Len(hist) :
             \/ hist'[i] = hist[i]
             \/ hist'[i] = Garbage /\ hist[i] \in fused' \cup {Garbage}
      /\ fused \subseteq fused' /\ fused' \in SUBSET Rows
  <2>1. CASE open
    <3>1. hist' = [hist EXCEPT ![Len(hist)] = Garbage]
      BY <2>1 DEF WriteLine
    <3>2. fused' = fused \cup ({hist[Len(hist)]} \cap Rows)
      BY <2>1 DEF WriteLine
    <3>3. \A i \in 1 .. Len(hist) : hist[i] \in Rows \cup {Garbage}
      BY <1>1
    <3>4. hist' \in Seq(Rows \cup {Garbage}) /\ Len(hist') = Len(hist) /\ Len(hist) \in Nat
      <4>1. Len(hist) \in Nat /\ hist \in [1 .. Len(hist) -> Rows \cup {Garbage}]
        BY <1>1
      <4>2. hist' \in [1 .. Len(hist) -> Rows \cup {Garbage}]
        BY <3>1, <4>1
      <4>3. QED
        BY <4>1, <4>2, SeqDef
    <3>5. \A i \in 1 .. Len(hist) : hist'[i] = IF i = Len(hist) THEN Garbage ELSE hist[i]
      BY <1>1, <3>1
    <3>6. Len(hist) \in 1 .. Len(hist) => hist[Len(hist)] \in fused' \cup {Garbage}
      BY <3>2, <3>3
    <3>7. QED
      BY <1>1, <3>2, <3>4, <3>5, <3>6
  <2>2. CASE ~open
    BY <1>1, <2>2 DEF WriteLine
  <2>3. QED
    BY <2>1, <2>2
<1>3. ASSUME NEW n \in Nat, n <= Len(hist)
      PROVE  RowsTo(n)' \subseteq RowsTo(n)
  <2>1. \A i \in 1 .. n : hist'[i] = hist[i] \/ hist'[i] \notin Rows
    BY <1>1, <1>2, <1>3, RowsAssumption
  <2>2. QED
    BY <2>1 DEF RowsTo
<1>4. Written \subseteq Written'
  <2>1. RowsTo(Len(hist))' = {hist'[i] : i \in 1 .. Len(hist')} \cap Rows
    BY DEF RowsTo
  <2>2. 1 .. Len(hist) \subseteq 1 .. Len(hist')
    BY <1>1, <1>2
  <2>3. \A i \in 1 .. Len(hist) : hist[i] \in Rows =>
            hist[i] \in fused' \/ hist[i] \in {hist'[j] : j \in 1 .. Len(hist')} \cap Rows
    BY <1>2, <2>2, RowsAssumption
  <2>4. QED
    BY <1>2, <2>1, <2>3 DEF Written, AllRows, RowsTo
<1>5. QED
  BY <1>2, <1>3, <1>4

LEMMA RowsTyped ==
    ASSUME NEW n
    PROVE  RowsTo(n) \in SUBSET Rows
BY DEF RowsTo

-----------------------------------------------------------------------------
(* Types *)

LEMMA BecomeTyped ==
    ASSUME TypeOK, NEW p \in Procs, NEW r \in Proc, Become(p, r)
    PROVE  /\ proc' \in [Procs -> Proc]
           /\ proc'[p] = r
           /\ \A q \in Procs : q # p => proc'[q] = proc[q]
BY DEF TypeOK, Become

LEMMA ReportTyped ==
    ASSUME TypeOK, NEW p \in Procs, NEW told \in (SUBSET Rows) \cup {NoResult}, Report(p, told)
    PROVE  /\ proc' \in [Procs -> Proc]
           /\ proc'[p].pc = "done" /\ proc'[p].seen = proc[p].seen
           /\ proc'[p].result = told
           /\ \A q \in Procs : q # p => proc'[q] = proc[q]
<1> DEFINE r == [Idle EXCEPT !.pc = "done", !.user = proc[p].user,
                             !.seen = proc[p].seen, !.result = told]
<1>1. proc[p] \in Proc
  BY DEF TypeOK
<1>2. r \in Proc /\ r.pc = "done" /\ r.seen = proc[p].seen /\ r.result = told
  BY <1>1 DEF Idle, Proc, Phases, Stamp, NoStamp
<1>3. Become(p, r)
  BY DEF Report
<1> HIDE DEF r
<1>4. QED
  BY <1>2, <1>3, BecomeTyped

LEMMA RollupInitTyped == Init => TypeOK /\ MineTyped
<1>1. Idle \in Proc /\ Idle.pc = "idle"
  BY DEF Idle, Proc, Phases, Stamp, NoStamp
<1>2. <<>> \in Seq(Rows \cup {Garbage})
  OBVIOUS
<1>3. ASSUME Init
      PROVE  proc \in [Procs -> Proc] /\ \A p \in Procs : proc[p].pc = "idle"
  BY <1>1, <1>3, Zenon DEF Init
<1>4. ASSUME Init
      PROVE  /\ now \in Nat /\ gen \in Nat /\ dir \in BOOLEAN
             /\ hist \in Seq(Rows \cup {Garbage}) /\ open \in BOOLEAN
             /\ fused \in SUBSET Rows /\ size \in Nat /\ mtime \in Nat
             /\ rollup \in Rollup \cup {NoRollup, Torn}
  BY <1>2, <1>4 DEF Init
<1>5. QED
  BY <1>3, <1>4 DEF TypeOK, MineTyped

LEMMA StepTyped == TypeOK /\ MineTyped /\ [Next]_vars => TypeOK' /\ MineTyped'
<1> SUFFICES ASSUME TypeOK, MineTyped, [Next]_vars
             PROVE  TypeOK' /\ MineTyped'
  OBVIOUS
<1> USE DEF Shared, file
\* Enough for a reader's step that leaves the files alone.
<1>r. ASSUME NEW p \in Procs, NEW r \in Proc, Become(p, r),
             r.pc \in {"open", "write"} => r.mine \in Rollup,
             now' = now, gen' = gen, UNCHANGED file, rollup' \in Rollup \cup {NoRollup, Torn}
      PROVE  TypeOK' /\ MineTyped'
  BY <1>r, BecomeTyped DEF TypeOK, MineTyped
<1>d. ASSUME NEW p \in Procs, NEW told \in (SUBSET Rows) \cup {NoResult}, Report(p, told),
             now' = now, gen' = gen, UNCHANGED file, rollup' \in Rollup \cup {NoRollup, Torn}
      PROVE  TypeOK' /\ MineTyped'
  BY <1>d, ReportTyped DEF TypeOK, MineTyped
<1>p. \A p \in Procs : proc[p] \in Proc
  BY DEF TypeOK
<1>f. FileStamp \in Stamp /\ AllRows \in SUBSET Rows
  BY RowsTyped DEF TypeOK, FileStamp, Stamp, AllRows
<1>k. rollup \in Rollup \cup {NoRollup, Torn}
  BY DEF TypeOK
<1>1. ASSUME NEW r \in Rows, Record(r)
      PROVE  TypeOK' /\ MineTyped'
  <2>1. hist' \in Seq(Rows \cup {Garbage}) /\ fused' \in SUBSET Rows
    BY <1>1, GrowKeepsLines DEF Record
  <2>2. /\ dir' \in BOOLEAN /\ size' \in Nat /\ mtime' \in Nat
        /\ now' = now /\ gen' = gen /\ rollup' = rollup /\ proc' = proc
    BY <1>1 DEF TypeOK, Record, Grow
  <2>3. open' \in BOOLEAN
    BY <1>1, Zenon DEF Record
  <2>4. QED
    BY <2>1, <2>2, <2>3 DEF TypeOK, MineTyped
<1>2. ASSUME RecordTorn
      PROVE  TypeOK' /\ MineTyped'
  <2>1. hist' \in Seq(Rows \cup {Garbage}) /\ fused' \in SUBSET Rows
    BY <1>2, GrowKeepsLines DEF RecordTorn
  <2>2. /\ open' \in BOOLEAN /\ dir' \in BOOLEAN /\ size' \in Nat /\ mtime' \in Nat
        /\ now' = now /\ gen' = gen /\ rollup' = rollup /\ proc' = proc
    BY <1>2 DEF TypeOK, RecordTorn, Grow
  <2>3. QED
    BY <2>1, <2>2 DEF TypeOK, MineTyped
<1>3. ASSUME NEW p \in Procs, NEW user \in BOOLEAN, Stat(p, user)
      PROVE  TypeOK' /\ MineTyped'
  <2> DEFINE a == [Idle EXCEPT !.pc = "load", !.user = user, !.st = FileStamp, !.seen = AllRows]
             b == [Idle EXCEPT !.pc = "done", !.user = user,
                        !.result = IF user THEN NoResult ELSE {}]
  <2>1. a \in Proc /\ a.pc = "load" /\ b \in Proc /\ b.pc = "done"
    BY <1>f DEF Idle, Proc, Phases, Stamp, NoStamp
  <2>2. Become(p, a) \/ Become(p, b)
    BY <1>3 DEF Stat
  <2> HIDE DEF a, b
  <2>3. QED
    BY <1>3, <1>r, <1>k, <2>1, <2>2 DEF Stat
<1>4. ASSUME NEW p \in Procs, Load(p)
      PROVE  TypeOK' /\ MineTyped'
  <2>1. CASE Report(p, rollup.rows) /\ Parses(rollup)
    BY <1>4, <1>d, <1>k, <2>1 DEF Load, Parses, Rollup
  <2>2. CASE Become(p, [proc[p] EXCEPT !.pc = "count", !.mine = rollup])
    <3> DEFINE r == [proc[p] EXCEPT !.pc = "count", !.mine = rollup]
    <3>1. r \in Proc /\ r.pc = "count"
      BY <1>p, <1>k DEF Proc, Phases
    <3> HIDE DEF r
    <3>2. QED
      BY <1>4, <1>r, <1>k, <2>2, <3>1 DEF Load, r
  <2>3. QED
    BY <1>4, <2>1, <2>2 DEF Load
<1>5. ASSUME NEW p \in Procs, Count(p)
      PROVE  TypeOK' /\ MineTyped'
  <2>1. CASE Report(p, IF proc[p].user THEN NoResult ELSE {})
    BY <1>5, <1>d, <1>k, <2>1 DEF Count
  <2>2. CASE Become(p, [proc[p] EXCEPT !.pc = "open", !.mine.stamp = proc[p].st])
             /\ Parses(proc[p].mine)
    <3> DEFINE r == [proc[p] EXCEPT !.pc = "open", !.mine.stamp = proc[p].st]
    <3>1. proc[p].mine \in Rollup /\ proc[p].st \in Stamp
      BY <1>p, <2>2 DEF Proc, Parses
    <3>2. [proc[p].mine EXCEPT !.stamp = proc[p].st] \in Rollup
      BY <3>1 DEF Rollup
    <3>3. r \in Proc /\ r.mine \in Rollup
      BY <1>p, <3>2 DEF Proc, Phases
    <3> HIDE DEF r
    <3>4. QED
      BY <1>5, <1>r, <1>k, <2>2, <3>3 DEF Count, r
  <2>3. CASE Become(p, [proc[p] EXCEPT !.pc = "rebuild", !.mine = NoRollup, !.count = Len(hist)])
    <3> DEFINE r == [proc[p] EXCEPT !.pc = "rebuild", !.mine = NoRollup, !.count = Len(hist)]
    <3>1. Len(hist) \in Nat
      BY DEF TypeOK
    <3>2. r \in Proc /\ r.pc = "rebuild"
      BY <1>p, <3>1 DEF Proc, Phases
    <3> HIDE DEF r
    <3>3. QED
      BY <1>5, <1>r, <1>k, <2>3, <3>2 DEF Count, r
  <2>4. QED
    BY <1>5, <2>1, <2>2, <2>3 DEF Count
<1>6. ASSUME NEW p \in Procs, Rebuild(p)
      PROVE  TypeOK' /\ MineTyped'
  <2> DEFINE m == [rows |-> AllRows, lines |-> proc[p].count, stamp |-> proc[p].st]
             r == [proc[p] EXCEPT !.pc = "open", !.built = TRUE, !.count = 0, !.mine = m]
  <2>1. m \in Rollup
    BY <1>p, <1>f DEF Proc, Rollup
  <2> HIDE DEF m
  <2>2. r \in Proc /\ r.mine \in Rollup
    BY <1>p, <2>1 DEF Proc, Phases
  <2>3. Become(p, r)
    BY <1>6 DEF Rebuild, m
  <2> HIDE DEF r
  <2>4. QED
    BY <1>6, <1>r, <1>k, <2>2, <2>3 DEF Rebuild
<1>7. ASSUME NEW p \in Procs, RebuildFails(p)
      PROVE  TypeOK' /\ MineTyped'
  BY <1>7, <1>d, <1>k DEF RebuildFails
<1>8. ASSUME NEW p \in Procs, SaveOpen(p)
      PROVE  TypeOK' /\ MineTyped'
  <2> DEFINE r == [proc[p] EXCEPT !.pc = "write", !.fd = gen]
  <2>1. r \in Proc /\ r.mine = proc[p].mine
    BY <1>p DEF Proc, Phases, TypeOK
  <2>2. Become(p, r) /\ proc[p].mine \in Rollup
    BY <1>8 DEF SaveOpen, MineTyped
  <2> HIDE DEF r
  <2>3. QED
    BY <1>8, <1>r, <2>1, <2>2 DEF SaveOpen
<1>9. ASSUME NEW p \in Procs, SaveWrite(p)
      PROVE  TypeOK' /\ MineTyped'
  <2>1. proc[p].mine \in Rollup
    BY <1>9 DEF SaveWrite, MineTyped
  <2>2. rollup' \in {rollup, proc[p].mine, Torn}
    BY <1>9 DEF SaveWrite
  <2>3. QED
    BY <1>9, <1>d, <1>k, <2>1, <2>2 DEF SaveWrite, Rollup
<1>10. ASSUME NEW p \in Procs, SaveFails(p)
       PROVE  TypeOK' /\ MineTyped'
  <2>1. proc[p].mine \in Rollup
    BY <1>10 DEF SaveFails, MineTyped
  <2>2. QED
    BY <1>10, <1>d, <1>k, <2>1 DEF SaveFails, Rollup
<1>11. ASSUME NEW p \in Procs, End(p)
       PROVE  TypeOK' /\ MineTyped'
  <2>1. Idle \in Proc /\ Idle.pc = "idle"
    BY DEF Idle, Proc, Phases, Stamp, NoStamp
  <2>2. QED
    BY <1>11, <1>r, <1>k, <2>1 DEF End
<1>12. CASE Remove
  <2>1. dir' \in BOOLEAN /\ open' \in BOOLEAN
    BY <1>12, Zenon DEF Remove
  <2>2. /\ hist' \in Seq(Rows \cup {Garbage}) /\ fused' \in SUBSET Rows
        /\ now' \in Nat /\ gen' \in Nat /\ size' \in Nat /\ mtime' \in Nat
        /\ rollup' = NoRollup /\ proc' = proc
    BY <1>12 DEF TypeOK, Remove
  <2>3. QED
    BY <2>1, <2>2 DEF TypeOK, MineTyped
<1>13. CASE Tick
  BY <1>13 DEF TypeOK, MineTyped, Tick
<1>14. CASE UNCHANGED vars
  BY <1>14 DEF TypeOK, MineTyped, vars
<1>15. ASSUME NEW p \in Procs, Step(p)
       PROVE  TypeOK' /\ MineTyped'
  BY <1>15, <1>4, <1>5, <1>6, <1>7, <1>8, <1>9, <1>10, <1>11 DEF Step
<1>16. QED
  BY <1>1, <1>2, <1>3, <1>12, <1>13, <1>14, <1>15, Zenon DEF Next

-----------------------------------------------------------------------------
(* The history and its rollups *)

LEMMA LiveTyped == TypeOK /\ MineTyped => Live \subseteq Rollup
BY DEF TypeOK, MineTyped, Live, HasRollup, Parses, Proc

\* A reader's step that leaves the history alone: it is enough to look at the rollup it
\* writes, the rollup it holds afterwards, and what it knows.
LEMMA ReaderStep ==
    ASSUME TypeOK, MineTyped, HistoryInv, gen = 0, gen' = gen, UNCHANGED file,
           NEW p \in Procs,
           \A q \in Procs : q # p => proc'[q] = proc[q],
           proc'[p].pc \in Reading =>
               \/ /\ proc[p].pc \in Reading
                  /\ proc'[p].st = proc[p].st /\ proc'[p].seen = proc[p].seen
               \/ proc'[p].st = FileStamp /\ proc'[p].seen = AllRows,
           Parses(rollup)' => rollup' \in Live \/ Good(rollup)',
           HasRollup(p)' => proc'[p].mine \in Live \/ Good(proc[p].mine)',
           ReaderInv(p)'
    PROVE  HistoryInv'
<1>1. hist' = hist /\ size' = size /\ fused' = fused
  BY DEF file
<1>2. ASSUME NEW m \in Live
      PROVE  Good(m)'
  <2>1. Sound(m) /\ \A q \in Procs : Covers(m, q)
    BY DEF HistoryInv, Good
  <2>2. Sound(m)'
    BY <1>1, <2>1 DEF Sound, RowsTo, AllRows, Written
  <2>3. ASSUME NEW q \in Procs, q # p \/ ~(proc'[p].st = FileStamp /\ proc'[p].seen = AllRows)
        PROVE  Covers(m, q)'
    BY <1>1, <2>1, <2>3 DEF Covers
  <2>4. ASSUME proc'[p].st = FileStamp, proc'[p].seen = AllRows
        PROVE  Covers(m, p)'
    <3>1. m.stamp.size \in Nat /\ size \in Nat
      BY LiveTyped DEF Rollup, Stamp, TypeOK
    <3>2. size <= m.stamp.size => AllRows \subseteq m.rows
      BY <2>1, <3>1 DEF Sound
    <3>3. QED
      BY <1>1, <2>4, <3>2 DEF Covers, FileStamp
  <2>5. QED
    BY <2>2, <2>3, <2>4 DEF Good
<1>3. ASSUME NEW m \in Live'
      PROVE  Good(m)'
  <2>1. CASE m = rollup' /\ Parses(rollup)'
    BY <1>2, <2>1
  <2>2. CASE m = proc'[p].mine /\ HasRollup(p)'
    BY <1>2, <2>2
  <2>3. ASSUME NEW q \in Procs, q # p, m = proc'[q].mine, HasRollup(q)'
        PROVE  Good(m)'
    <3>1. HasRollup(q) /\ m = proc[q].mine
      BY <2>3 DEF HasRollup, Parses
    <3>2. m \in Live
      BY <3>1 DEF Live
    <3>3. QED
      BY <1>2, <3>2
  <2>4. \/ m = rollup' /\ Parses(rollup)'
        \/ \E q \in Procs : HasRollup(q)' /\ m = proc'[q].mine
    BY <1>3 DEF Live
  <2>5. QED
    BY <2>1, <2>2, <2>3, <2>4
<1>4. ASSUME NEW q \in Procs, q # p
      PROVE  ReaderInv(q)'
  <2>1. ReaderInv(q) /\ proc'[q] = proc[q]
    BY <1>4 DEF HistoryInv
  <2>2. QED
    BY <1>1, <2>1 DEF ReaderInv, RowsTo, AllRows, Written
<1>5. QED
  BY <1>3, <1>4 DEF HistoryInv

\* A write to the history.
LEMMA GrowStep ==
    ASSUME TypeOK, MineTyped, HistoryInv, gen = 0, NEW x \in Rows \cup {Garbage},
           WriteLine(x), size' = size + 1,
           UNCHANGED <<gen, rollup, proc>>
    PROVE  HistoryInv'
<1>1. /\ Len(hist) <= Len(hist') /\ Len(hist) \in Nat /\ Len(hist') \in Nat
      /\ \A n \in Nat : n <= Len(hist) => RowsTo(n)' \subseteq RowsTo(n)
      /\ Written \subseteq Written' /\ fused \subseteq fused'
  <2>1. hist' \in Seq(Rows \cup {Garbage}) /\ hist \in Seq(Rows \cup {Garbage})
    BY GrowKeepsLines DEF TypeOK
  <2>2. Len(hist) \in Nat /\ Len(hist') \in Nat
    BY <2>1
  <2>3. QED
    BY <2>2, GrowKeepsLines
<1>2. size \in Nat /\ size' = size + 1
  BY DEF TypeOK
<1>3. Live' = Live
  BY DEF Live, HasRollup, Parses
<1>4. ASSUME NEW m \in Live, m \in Rollup
      PROVE  Good(m)'
  <2>1. Sound(m) /\ \A q \in Procs : Covers(m, q)
    BY DEF HistoryInv, Good
  <2>2. m.lines \in Nat /\ m.stamp.size \in Nat
    BY <1>4 DEF Rollup, Stamp
  <2>3. Sound(m)'
    BY <1>1, <1>2, <2>1, <2>2 DEF Sound
  <2>4. \A q \in Procs : Covers(m, q)'
    BY <1>1, <2>1 DEF Covers
  <2>5. QED
    BY <2>3, <2>4 DEF Good
<1>5. ASSUME NEW q \in Procs
      PROVE  ReaderInv(q)'
  <2>1. ReaderInv(q) /\ proc' = proc
    BY DEF HistoryInv
  <2>2. proc[q].st.size \in Nat /\ proc[q].count \in Nat
    BY DEF TypeOK, Proc, Stamp
  <2>3. QED
    BY <1>1, <1>2, <2>1, <2>2 DEF ReaderInv
<1>6. QED
  BY <1>3, <1>4, <1>5, LiveTyped DEF HistoryInv

LEMMA StepHistory == RollupInv /\ [Next]_vars => HistoryInv'
<1> SUFFICES ASSUME RollupInv, [Next]_vars, gen' = 0
             PROVE  HistoryInv'
  BY DEF HistoryInv
<1> USE DEF Shared
<1>t. TypeOK /\ MineTyped /\ HistoryInv /\ Live \subseteq Rollup
  BY LiveTyped DEF RollupInv
<1>p. \A p \in Procs : proc[p] \in Proc
  BY <1>t DEF TypeOK
<1>n. gen \in Nat /\ size \in Nat /\ Len(hist) \in Nat
  BY <1>t DEF TypeOK
<1>s. ASSUME UNCHANGED file
      PROVE  /\ AllRows' = AllRows /\ Written' = Written
             /\ hist' = hist /\ fused' = fused /\ size' = size
  BY <1>s DEF file, AllRows, Written, RowsTo
\* A report of what covers all the reader has seen.
<1>d. ASSUME gen = 0, gen' = gen, UNCHANGED file,
             NEW p \in Procs, NEW told \in (SUBSET Rows) \cup {NoResult}, Report(p, told),
             told # NoResult => proc[p].seen \subseteq told \cup fused /\ told \subseteq Written,
             Parses(rollup)' => rollup' \in Live
      PROVE  HistoryInv'
  <2>1. /\ proc'[p].pc = "done" /\ proc'[p].seen = proc[p].seen /\ proc'[p].result = told
        /\ \A q \in Procs : q # p => proc'[q] = proc[q]
    BY <1>d, <1>t, ReportTyped
  <2>2. ReaderInv(p)' /\ ~HasRollup(p)' /\ proc'[p].pc \notin Reading
    BY <1>d, <1>s, <2>1 DEF ReaderInv, HasRollup, Reading
  <2>3. QED
    BY <1>d, <1>t, <2>1, <2>2, ReaderStep
\* A reader going on to its next step, with a rollup that is Good if it holds one.
<1>r. ASSUME gen = 0, gen' = gen, UNCHANGED file,
             NEW p \in Procs, NEW r \in Proc, Become(p, r), proc[p].pc \in Reading,
             r.st = proc[p].st, r.seen = proc[p].seen, r.pc \in Reading,
             r.pc = "rebuild" => r.count <= Len(hist),
             r.pc \in {"open", "write"} => r.seen \subseteq r.mine.rows \cup fused,
             r.pc \in {"open", "write"} \/ (r.pc = "count" /\ Parses(r.mine)) =>
                 \/ r.mine \in Live
                 \/ /\ r.mine.lines <= Len(hist) /\ r.mine.stamp.size <= size
                    /\ RowsTo(r.mine.lines) \subseteq AllRows
                    /\ AllRows \subseteq r.mine.rows /\ r.mine.rows \subseteq Written,
             Parses(rollup)' => rollup' \in Live
      PROVE  HistoryInv'
  <2>1. proc'[p] = r /\ \A q \in Procs : q # p => proc'[q] = proc[q]
    BY <1>r, <1>t, BecomeTyped
  <2>2. ReaderInv(p)'
    <3>1. proc[p].st.size <= size /\ proc[p].seen \subseteq Written
      BY <1>r, <1>t DEF HistoryInv, ReaderInv
    <3>2. QED
      BY <1>r, <1>s, <2>1, <3>1 DEF ReaderInv, Reading
  <2>3. ASSUME HasRollup(p)'
        PROVE  proc'[p].mine \in Live \/ Good(proc[p].mine)'
    <3>1. CASE r.mine \in Live
      BY <2>1, <3>1
    <3>2. CASE /\ r.mine.lines <= Len(hist) /\ r.mine.stamp.size <= size
               /\ RowsTo(r.mine.lines) \subseteq AllRows
               /\ AllRows \subseteq r.mine.rows /\ r.mine.rows \subseteq Written
      <4>1. Sound(proc[p].mine)'
        BY <1>r, <1>s, <2>1, <3>2 DEF Sound, RowsTo, AllRows, Written
      <4>2. ASSUME NEW q \in Procs
            PROVE  Covers(proc[p].mine, q)'
        <5>1. proc[q].pc \in Reading => proc[q].seen \subseteq Written
          BY <1>r, <1>t DEF HistoryInv, ReaderInv
        <5>2. QED
          BY <1>r, <1>s, <2>1, <3>2, <5>1 DEF Covers, Written
      <4>3. QED
        BY <4>1, <4>2 DEF Good
    <3>3. r.pc \in {"open", "write"} \/ (r.pc = "count" /\ Parses(r.mine))
      BY <2>1, <2>3 DEF HasRollup, Parses
    <3>4. \/ r.mine \in Live
          \/ /\ r.mine.lines <= Len(hist) /\ r.mine.stamp.size <= size
             /\ RowsTo(r.mine.lines) \subseteq AllRows
             /\ AllRows \subseteq r.mine.rows /\ r.mine.rows \subseteq Written
      BY <1>r, <3>3
    <3>5. QED
      BY <3>1, <3>2, <3>4
  <2>4. QED
    BY <1>r, <1>t, <2>1, <2>2, <2>3, ReaderStep
<1>k. gen = 0 /\ Parses(rollup) => rollup \in Live /\ Good(rollup)
  BY <1>t DEF Live, HistoryInv
<1>h. ASSUME gen = 0, NEW p \in Procs, HasRollup(p)
      PROVE  proc[p].mine \in Live /\ Good(proc[p].mine)
  BY <1>t, <1>h DEF Live, HistoryInv
<1>1. ASSUME NEW r \in Rows, Record(r)
      PROVE  HistoryInv'
  <2>1. WriteLine(r) /\ size' = size + 1 /\ UNCHANGED <<gen, rollup, proc>>
    BY <1>1 DEF Record, Grow
  <2>2. gen = 0
    BY <2>1
  <2>3. QED
    BY <1>t, <2>1, <2>2, GrowStep
<1>2. ASSUME RecordTorn
      PROVE  HistoryInv'
  <2>1. PICK x \in Rows \cup {Garbage} : WriteLine(x)
    BY <1>2 DEF RecordTorn
  <2>2. gen = 0 /\ size' = size + 1 /\ UNCHANGED <<gen, rollup, proc>>
    BY <1>2 DEF RecordTorn, Grow
  <2>3. QED
    BY <1>t, <2>1, <2>2, GrowStep
<1>3. ASSUME gen = 0, NEW p \in Procs, NEW user \in BOOLEAN, Stat(p, user)
      PROVE  HistoryInv'
  <2> DEFINE a == [Idle EXCEPT !.pc = "load", !.user = user, !.st = FileStamp, !.seen = AllRows]
             b == [Idle EXCEPT !.pc = "done", !.user = user,
                        !.result = IF user THEN NoResult ELSE {}]
  <2>1. FileStamp \in Stamp /\ AllRows \in SUBSET Rows
    BY <1>t, RowsTyped DEF TypeOK, FileStamp, Stamp, AllRows
  <2>2. /\ a \in Proc /\ a.pc = "load" /\ a.st = FileStamp /\ a.seen = AllRows
        /\ b \in Proc /\ b.pc = "done" /\ b.seen = {} /\ b.result \in {NoResult, {}}
    BY <2>1 DEF Idle, Proc, Phases, Stamp, NoStamp
  <2>3. Become(p, a) \/ Become(p, b)
    BY <1>3 DEF Stat
  <2> HIDE DEF a, b
  <2>4. /\ proc'[p] = a \/ proc'[p] = b
        /\ \A q \in Procs : q # p => proc'[q] = proc[q]
    BY <1>t, <2>2, <2>3, BecomeTyped
  <2>5. ReaderInv(p)' /\ ~HasRollup(p)'
    <3>1. FileStamp.size <= size
      BY <1>n DEF FileStamp
    <3>2. AllRows \subseteq Written
      BY DEF Written
    <3>3. QED
      BY <1>3, <1>s, <2>2, <2>4, <3>1, <3>2 DEF ReaderInv, HasRollup, Reading, Stat
  <2>6. proc'[p].pc \in Reading => proc'[p].st = FileStamp /\ proc'[p].seen = AllRows
    BY <2>2, <2>4 DEF Reading
  <2>7. gen' = gen /\ UNCHANGED file /\ rollup' = rollup
    BY <1>3 DEF Stat
  <2>8. Parses(rollup)' => rollup' \in Live
    BY <1>3, <1>k, <2>7 DEF Parses
  <2>9. QED
    BY <1>3, <1>t, <2>4, <2>5, <2>6, <2>7, <2>8, ReaderStep
<1>4. ASSUME gen = 0, NEW p \in Procs, Load(p)
      PROVE  HistoryInv'
  <2>1. /\ gen' = gen /\ UNCHANGED file /\ proc[p].pc = "load"
        /\ Parses(rollup)' => rollup' \in Live
    BY <1>4, <1>k DEF Load, Parses
  <2>2. CASE Report(p, rollup.rows) /\ Parses(rollup) /\ rollup.stamp = proc[p].st
    <3>1. Good(rollup) /\ rollup \in Rollup
      BY <1>4, <1>t, <1>k, <2>2
    <3>2. proc[p].st.size \in Nat
      BY <1>p DEF Proc, Stamp
    <3>3. proc[p].seen \subseteq rollup.rows \cup fused
      BY <2>1, <2>2, <3>1, <3>2 DEF Good, Covers, Reading
    <3>4. rollup.rows \in SUBSET Rows /\ rollup.rows \subseteq Written
      BY <3>1 DEF Good, Sound, Rollup
    <3>5. QED
      BY <1>4, <1>d, <2>1, <2>2, <3>3, <3>4
  <2>3. CASE Become(p, [proc[p] EXCEPT !.pc = "count", !.mine = rollup])
    <3> DEFINE r == [proc[p] EXCEPT !.pc = "count", !.mine = rollup]
    <3>1. /\ r \in Proc /\ r.pc = "count" /\ r.mine = rollup
          /\ r.st = proc[p].st /\ r.seen = proc[p].seen
      BY <1>p, <1>t DEF Proc, Phases, TypeOK
    <3>2. Become(p, r)
      BY <2>3
    <3> HIDE DEF r
    <3>3. QED
      BY <1>4, <1>r, <1>k, <2>1, <3>1, <3>2 DEF Reading
  <2>4. QED
    BY <1>4, <2>2, <2>3 DEF Load
<1>5. ASSUME gen = 0, NEW p \in Procs, Count(p)
      PROVE  HistoryInv'
  <2>1. /\ gen' = gen /\ UNCHANGED file /\ proc[p].pc = "count"
        /\ Parses(rollup)' => rollup' \in Live
    BY <1>5, <1>k DEF Count, Parses
  <2>2. proc[p].st.size <= size /\ proc[p].seen \subseteq Written
    BY <1>5, <1>t, <2>1 DEF HistoryInv, ReaderInv, Reading
  <2>3. CASE Len(hist) = 0 /\ Report(p, IF proc[p].user THEN NoResult ELSE {})
    <3>1. AllRows = {} /\ Written = fused
      BY <2>3 DEF Written, AllRows, RowsTo
    <3>2. QED
      BY <1>5, <1>d, <2>1, <2>2, <2>3, <3>1
  <2>4. CASE /\ Become(p, [proc[p] EXCEPT !.pc = "open", !.mine.stamp = proc[p].st])
             /\ Parses(proc[p].mine) /\ proc[p].mine.lines = Len(hist)
    <3> DEFINE r == [proc[p] EXCEPT !.pc = "open", !.mine.stamp = proc[p].st]
    <3>1. proc[p].mine \in Rollup /\ proc[p].st \in Stamp /\ Good(proc[p].mine)
      BY <1>5, <1>p, <1>h, <2>1, <2>4 DEF Proc, Parses, HasRollup
    <3>2. AllRows \subseteq proc[p].mine.rows /\ proc[p].mine.rows \subseteq Written
      BY <2>4, <3>1 DEF Good, Sound, AllRows
    <3>3. [proc[p].mine EXCEPT !.stamp = proc[p].st] \in Rollup
      BY <3>1 DEF Rollup
    <3>4. /\ r \in Proc /\ r.pc = "open" /\ r.st = proc[p].st /\ r.seen = proc[p].seen
          /\ r.mine = [proc[p].mine EXCEPT !.stamp = proc[p].st]
      BY <1>p, <3>3 DEF Proc, Phases
    <3>5. /\ r.mine.lines = Len(hist) /\ r.mine.stamp = proc[p].st
          /\ AllRows \subseteq r.mine.rows /\ r.mine.rows \subseteq Written
      BY <2>4, <3>1, <3>2, <3>4 DEF Rollup
    <3>6. Become(p, r)
      BY <2>4
    <3>7. RowsTo(r.mine.lines) \subseteq AllRows
      BY <3>5 DEF AllRows
    <3> HIDE DEF r
    <3>8. /\ r.mine.lines <= Len(hist) /\ r.mine.stamp.size <= size
          /\ r.seen \subseteq r.mine.rows \cup fused
          /\ proc[p].pc \in Reading /\ r.pc \in Reading /\ r.pc # "rebuild"
      BY <1>n, <2>1, <2>2, <3>4, <3>5 DEF Reading, Written
    <3>9. QED
      BY <1>5, <1>r, <2>1, <3>4, <3>5, <3>6, <3>7, <3>8
  <2>5. CASE Become(p, [proc[p] EXCEPT !.pc = "rebuild", !.mine = NoRollup, !.count = Len(hist)])
    <3> DEFINE r == [proc[p] EXCEPT !.pc = "rebuild", !.mine = NoRollup, !.count = Len(hist)]
    <3>1. /\ r \in Proc /\ r.pc = "rebuild" /\ r.st = proc[p].st /\ r.seen = proc[p].seen
          /\ r.count = Len(hist)
      BY <1>p, <1>n DEF Proc, Phases
    <3>2. Become(p, r)
      BY <2>5
    <3> HIDE DEF r
    <3>3. QED
      BY <1>5, <1>n, <1>r, <2>1, <3>1, <3>2 DEF Reading
  <2>6. QED
    BY <1>5, <2>3, <2>4, <2>5 DEF Count
<1>6. ASSUME gen = 0, NEW p \in Procs, Rebuild(p)
      PROVE  HistoryInv'
  <2> DEFINE m == [rows |-> AllRows, lines |-> proc[p].count, stamp |-> proc[p].st]
             r == [proc[p] EXCEPT !.pc = "open", !.built = TRUE, !.count = 0, !.mine = m]
  <2>1. /\ gen' = gen /\ UNCHANGED file /\ proc[p].pc = "rebuild"
        /\ Parses(rollup)' => rollup' \in Live
    BY <1>6, <1>k DEF Rebuild, Parses
  <2>2. /\ proc[p].st.size <= size /\ proc[p].seen \subseteq Written
        /\ proc[p].count \in Nat /\ proc[p].count <= Len(hist)
    BY <1>6, <1>p, <1>t, <2>1 DEF HistoryInv, ReaderInv, Reading, Proc
  <2>3. m \in Rollup
    BY <1>p, RowsTyped DEF Proc, Rollup, AllRows
  <2>4. m.rows = AllRows /\ m.lines = proc[p].count /\ m.stamp = proc[p].st
    OBVIOUS
  <2> HIDE DEF m
  <2>5. r \in Proc /\ r.pc = "open" /\ r.st = proc[p].st /\ r.seen = proc[p].seen /\ r.mine = m
    BY <1>p, <2>3 DEF Proc, Phases
  <2>6. Become(p, r)
    BY <1>6 DEF Rebuild, m
  <2> HIDE DEF r
  <2>7. RowsTo(m.lines) \subseteq AllRows
    BY <1>n, <2>2, <2>4 DEF RowsTo, AllRows
  <2>8. /\ r.mine.lines <= Len(hist) /\ r.mine.stamp.size <= size
        /\ AllRows \subseteq r.mine.rows /\ r.mine.rows \subseteq Written
        /\ RowsTo(r.mine.lines) \subseteq AllRows /\ r.seen \subseteq r.mine.rows \cup fused
        /\ proc[p].pc \in Reading /\ r.pc \in Reading /\ r.pc # "rebuild"
    BY <2>1, <2>2, <2>4, <2>5, <2>7 DEF Reading, Written
  <2>9. QED
    BY <1>6, <1>r, <2>1, <2>5, <2>6, <2>8
<1>7. ASSUME gen = 0, NEW p \in Procs, RebuildFails(p)
      PROVE  HistoryInv'
  BY <1>7, <1>d, <1>k DEF RebuildFails, Parses
<1>8. ASSUME gen = 0, NEW p \in Procs, SaveOpen(p)
      PROVE  HistoryInv'
  <2> DEFINE r == [proc[p] EXCEPT !.pc = "write", !.fd = gen]
  <2>1. /\ gen' = gen /\ UNCHANGED file /\ proc[p].pc = "open" /\ Become(p, r)
        /\ ~Parses(rollup)'
    BY <1>8 DEF SaveOpen, Parses
  <2>2. /\ r \in Proc /\ r.pc = "write" /\ r.st = proc[p].st /\ r.seen = proc[p].seen
        /\ r.mine = proc[p].mine
    BY <1>p, <1>n DEF Proc, Phases
  <2> HIDE DEF r
  <2>3. proc[p].mine \in Live /\ proc[p].seen \subseteq proc[p].mine.rows \cup fused
    BY <1>8, <1>h, <1>t, <2>1 DEF HasRollup, HistoryInv, ReaderInv
  <2>4. QED
    BY <1>8, <1>r, <2>1, <2>2, <2>3 DEF Reading
\* What a reader holds when it saves is what it may report.
<1>w. ASSUME gen = 0, NEW p \in Procs, proc[p].pc \in {"open", "write"}
      PROVE  /\ proc[p].mine \in Live /\ proc[p].seen \subseteq proc[p].mine.rows \cup fused
             /\ proc[p].mine.rows \in SUBSET Rows /\ proc[p].mine.rows \subseteq Written
  <2>1. proc[p].mine \in Live /\ Good(proc[p].mine)
    BY <1>h, <1>w DEF HasRollup
  <2>2. proc[p].mine \in Rollup
    BY <1>t, <2>1
  <2>3. QED
    BY <1>t, <1>w, <2>1, <2>2 DEF HistoryInv, ReaderInv, Good, Sound, Rollup
<1>9. ASSUME gen = 0, NEW p \in Procs, SaveWrite(p)
      PROVE  HistoryInv'
  <2>1. /\ gen' = gen /\ UNCHANGED file /\ Report(p, proc[p].mine.rows)
        /\ rollup' \in {rollup, proc[p].mine, Torn} /\ proc[p].pc = "write"
    BY <1>9 DEF SaveWrite
  <2>2. Parses(rollup)' => rollup' \in Live
    BY <1>9, <1>k, <1>w, <2>1 DEF Parses
  <2>3. QED
    BY <1>9, <1>d, <1>w, <2>1, <2>2
<1>10. ASSUME gen = 0, NEW p \in Procs, SaveFails(p)
       PROVE  HistoryInv'
  <2>1. /\ gen' = gen /\ UNCHANGED file /\ (Parses(rollup)' => rollup' \in Live)
        /\ proc[p].pc \in {"open", "write"}
        /\ Report(p, NoResult) \/ Report(p, proc[p].mine.rows)
    BY <1>10, <1>k DEF SaveFails, Parses
  <2>2. QED
    BY <1>10, <1>d, <1>w, <2>1
<1>11. ASSUME gen = 0, NEW p \in Procs, End(p)
       PROVE  HistoryInv'
  <2>1. Idle \in Proc /\ Idle.pc = "idle"
    BY DEF Idle, Proc, Phases, Stamp, NoStamp
  <2>2. proc'[p] = Idle /\ \A q \in Procs : q # p => proc'[q] = proc[q]
    BY <1>11, <1>t, <2>1, BecomeTyped DEF End
  <2>3. ReaderInv(p)' /\ ~HasRollup(p)' /\ proc'[p].pc \notin Reading
    BY <2>1, <2>2 DEF ReaderInv, HasRollup, Reading
  <2>4. gen' = gen /\ UNCHANGED file /\ (Parses(rollup)' => rollup' \in Live)
    BY <1>11, <1>k DEF End, Parses
  <2>5. QED
    BY <1>11, <1>t, <2>2, <2>3, <2>4, ReaderStep
\* Nothing the invariant speaks of changes.
<1>12. ASSUME gen = 0, UNCHANGED <<gen, file, rollup, proc>>
       PROVE  HistoryInv'
  BY <1>12, <1>t DEF HistoryInv, Live, HasRollup, Parses, Good, Sound, Covers, ReaderInv,
     RowsTo, AllRows, Written, file
<1>13. gen = 0 /\ ~Remove
  <2>1. ~Remove
    BY <1>n DEF Remove
  <2>2. ASSUME NEW p \in Procs, Step(p) \/ \E user \in BOOLEAN : Stat(p, user)
        PROVE  gen' = gen
    BY <2>2 DEF Step, Stat, Load, Count, Rebuild, RebuildFails, SaveOpen, SaveWrite,
       SaveFails, End
  <2>3. (RecordTorn \/ Tick \/ UNCHANGED vars \/ \E r \in Rows : Record(r)) => gen' = gen
    BY DEF Record, RecordTorn, Tick, vars
  <2>4. gen' = gen
    BY <2>1, <2>2, <2>3, Zenon DEF Next
  <2>5. QED
    BY <2>1, <2>4
<1>14. ASSUME NEW p \in Procs, Step(p)
       PROVE  HistoryInv'
  BY <1>4, <1>5, <1>6, <1>7, <1>8, <1>9, <1>10, <1>11, <1>13, <1>14 DEF Step
<1>15. (Tick \/ UNCHANGED vars) => UNCHANGED <<gen, file, rollup, proc>>
  BY DEF Tick, vars, file
<1>16. QED
  BY <1>1, <1>2, <1>3, <1>12, <1>13, <1>14, <1>15, Zenon DEF Next

-----------------------------------------------------------------------------
LEMMA RollupInvariance == Spec => []RollupInv
<1>1. Init => RollupInv
  <2>1. Init => /\ gen = 0 /\ hist = <<>> /\ size = 0 /\ rollup = NoRollup
                /\ \A p \in Procs : proc[p].pc = "idle"
    BY DEF Init, Idle
  <2>2. Init => HistoryInv
    BY <2>1 DEF HistoryInv, Live, HasRollup, Parses, ReaderInv, Reading
  <2>3. QED
    BY <2>2, RollupInitTyped DEF RollupInv
<1>2. RollupInv /\ [Next]_vars => RollupInv'
  BY StepTyped, StepHistory DEF RollupInv
<1>3. QED
  BY <1>1, <1>2, PTL DEF Spec

\* Every cache, stamp and report is well formed: a line of the history that does not parse
\* never reaches a rollup.
THEOREM RollupTypeCorrect == Spec => []TypeOK
<1>1. RollupInv => TypeOK
  BY DEF RollupInv
<1>2. QED
  BY <1>1, RollupInvariance, PTL

\* core/rollup.ts, the fast path: while the history is append-only, a cached rollup with
\* the file's size and modification time has every row of the file, whoever wrote it and
\* when; the only others in it are rows cut off just before their newline, whose line a
\* later write made garbage of.
THEOREM StampIsProof == Spec => []StampProvesCurrent
<1>1. RollupInv => StampProvesCurrent
  <2>1. ASSUME RollupInv, gen = 0, Parses(rollup), rollup.stamp = FileStamp
        PROVE  AllRows \subseteq rollup.rows /\ rollup.rows \subseteq Written
    <3>1. Good(rollup)
      BY <2>1 DEF RollupInv, HistoryInv, Live
    <3>2. rollup.stamp.size = size
      BY <2>1 DEF FileStamp
    <3>3. QED
      BY <3>1, <3>2 DEF Good, Sound
  <2>2. QED
    BY <2>1 DEF StampProvesCurrent
<1>2. QED
  BY <1>1, RollupInvariance, PTL

\* core/rollup.ts ensureProjectRollup, listProjectRollups: what a reader reports is never
\* older than its start, but for a row fused since, and never more than was written whole.
THEOREM ReportsAreCurrent == Spec => []ReportIsCurrent
<1>1. RollupInv => ReportIsCurrent
  BY DEF RollupInv, HistoryInv, ReaderInv, ReportIsCurrent
<1>2. QED
  BY <1>1, RollupInvariance, PTL

-----------------------------------------------------------------------------
(***************************************************************************)
(* Proofs about Telemetry, for any number of processes and any window: the *)
(* files stay well formed, nothing leaves without consent, what the server *)
(* keeps is what TelemetryPromise says, and, as long as no dispatch looks  *)
(* at the stamp while another one is on its way to it, there is one        *)
(* attempt per window.                                                     *)
(*                                                                         *)
(* A dispatch decides on the stamp it reads and acts on it much later, and *)
(* another one may have begun in between, or a killed one have left the    *)
(* file empty.  The invariant therefore speaks of every moment at which a  *)
(* report was or is about to be sent (Times), and says which processes and *)
(* which states of the file are Clear of all of them.                      *)
(***************************************************************************)
\* What the place of a dispatch says of what it holds.
Shape(w) ==
    /\ w.pc # "idle" => w.kind \in {"hot", "cold", "look"}
    /\ w.pc \in {"peek", "caches"} => w.kind = "hot"
    /\ w.kind = "look" => w.pc \in {"idle", "config", "load", "mint", "mintWrite"} /\ w.device = None
    /\ w.pc \in {"config", "peek", "caches", "load"} => w.device = None
    /\ w.pc \in {"stampLoad", "stamp", "stampWrite", "send"} => w.device \in Nat
    /\ w.pc \in {"mintWrite", "stamp", "stampWrite"} => w.held \in State
    /\ w.pc = "mintWrite" => w.held.sent = None

\* What it says of the rest of the system: it has a runId and a time of the past, and the
\* consent it goes by was given since it began.
Bound(w) ==
    /\ w.pc # "idle" => w.id \in 1 .. runs /\ w.now <= clock
    /\ w.pc = "config" /\ Consents(config) => w.asked
    /\ w.pc \notin {"idle", "config", "answer"} /\ w.kind # "look" => w.asked

ProcInv == \A p \in Senders : Shape(sender[p]) /\ Bound(sender[p])

AttemptInv == \A a \in attempts : a.asked /\ a.report.id \in 1 .. runs

TelemetryInv == TelemetryTypeOK /\ runs <= MaxRuns /\ ProcInv /\ AttemptInv

-----------------------------------------------------------------------------
(* One process moves *)

LEMMA IdleFits == AtRest \in Sender /\ Shape(AtRest) /\ AtRest.pc = "idle"
  BY DEF AtRest, Sender, Shape

\* A process that goes on keeps its runId, time, kind and consent.
Follows(v, w) ==
    \/ v = AtRest
    \/ /\ v.pc \notin {"idle", "config", "answer"}
       /\ v.id = w.id /\ v.now = w.now /\ v.kind = w.kind /\ v.asked = w.asked

LEMMA FollowsBound ==
    ASSUME NEW w \in Sender, NEW v \in Sender, Bound(w), Follows(v, w),
           w.pc \notin {"idle", "config", "answer"}
    PROVE  Bound(v)
  BY IdleFits DEF Bound, Follows

LEMMA MoveTyped ==
    ASSUME TelemetryInv, NEW p \in Senders, NEW v \in Sender, sender' = [sender EXCEPT ![p] = v],
           UNCHANGED <<built, config, clock, runs>>, Shape(v), Bound(v)
    PROVE  sender' \in [Senders -> Sender] /\ ProcInv'
<1>1. sender' \in [Senders -> Sender]
  BY DEF TelemetryInv, TelemetryTypeOK
<1>2. ASSUME NEW q \in Senders
      PROVE  Shape(sender'[q]) /\ Bound(sender'[q])
  BY DEF TelemetryInv, TelemetryTypeOK, ProcInv
<1>3. \A q \in Senders : Bound(sender'[q]) => Bound(sender[q])'
  BY DEF Bound, Consents
<1>4. QED
  BY <1>1, <1>2, <1>3 DEF ProcInv, Shape

LEMMA DecidedFits ==
    ASSUME NEW w \in Sender, Shape(w), w.kind \in {"hot", "cold"},
           w.kind = "hot" => w.device = None,
           w.kind = "cold" => w.device \in Nat, NEW sent
    PROVE  /\ Decided(w, sent) \in Sender /\ Shape(Decided(w, sent)) /\ Follows(Decided(w, sent), w)
           /\ Decided(w, sent).pc \in {"idle", "keep", "caches", "stampLoad"}
<1>1. CASE ~built.endpoint
  BY <1>1 DEF Decided, Sender, Shape, Follows
<1>2. CASE built.endpoint /\ TooSoon(w.now, sent)
  BY <1>2, IdleFits DEF Decided, Follows
<1>3. CASE built.endpoint /\ ~TooSoon(w.now, sent)
  BY <1>3 DEF Decided, Sender, Shape, Follows
<1>4. QED
  BY <1>1, <1>2, <1>3

LEMMA LoadedFits ==
    ASSUME Constants, NEW w \in Sender, Shape(w), w.pc \in {"load", "stampLoad", "mint", "mintWrite"},
           NEW found \in State
    PROVE  /\ Loaded(w, found) \in Sender /\ Shape(Loaded(w, found)) /\ Follows(Loaded(w, found), w)
           /\ Loaded(w, found).pc \in {"idle", "keep", "stampLoad", "stamp"}
<1>1. found.salt \in Nat /\ found.sent \in Nat \cup {None}
  BY DEF State
<1>2. CASE w.device # None
  BY <1>2 DEF Loaded, Sender, Shape, Follows, Constants
<1>3. CASE w.device = None
  <2> DEFINE named == [w EXCEPT !.device = found.salt, !.held = None]
  <2>1. named \in Sender /\ named.kind = w.kind /\ named.pc = w.pc /\ named.device = found.salt
        /\ named.id = w.id /\ named.now = w.now /\ named.asked = w.asked
    BY <1>1 DEF Sender
  <2>2. CASE w.kind = "look"
    BY <1>3, <2>2, IdleFits DEF Loaded, Follows
  <2>3. CASE w.kind = "hot"
    <3>1. Loaded(w, found) = [named EXCEPT !.pc = "stampLoad"]
      BY <1>3, <2>3 DEF Loaded
    <3> HIDE DEF named
    <3>2. /\ Loaded(w, found) \in Sender /\ Loaded(w, found).pc = "stampLoad"
          /\ Loaded(w, found).kind = "hot" /\ Loaded(w, found).device \in Nat
      BY <1>1, <2>1, <2>3, <3>1 DEF Sender
    <3>3. Follows(Loaded(w, found), w)
      BY <2>1, <3>1, <3>2 DEF Follows, Sender
    <3>4. QED
      BY <3>2, <3>3 DEF Shape
  <2>4. CASE w.kind = "cold"
    <3>1. Loaded(w, found) = Decided(named, found.sent)
      BY <1>3, <2>4 DEF Loaded
    <3> HIDE DEF named
    <3>2. CASE ~built.endpoint
      <4>1. Loaded(w, found) = [named EXCEPT !.pc = "keep"]
        BY <3>1, <3>2 DEF Decided
      <4>2. QED
        BY <1>1, <2>1, <2>4, <4>1 DEF Sender, Shape, Follows
    <3>3. CASE built.endpoint /\ TooSoon(named.now, found.sent)
      BY <3>1, <3>3, IdleFits DEF Decided, Follows
    <3>4. CASE built.endpoint /\ ~TooSoon(named.now, found.sent)
      <4>1. Loaded(w, found) = [named EXCEPT !.pc = "stampLoad"]
        BY <2>1, <2>4, <3>1, <3>4 DEF Decided
      <4>2. QED
        BY <1>1, <2>1, <2>4, <4>1 DEF Sender, Shape, Follows
    <3>5. QED
      BY <3>2, <3>3, <3>4
  <2>5. QED
    BY <2>2, <2>3, <2>4 DEF Shape
<1>4. QED
  BY <1>2, <1>3

-----------------------------------------------------------------------------
(* One step *)

LEMMA TelemetryInitTyped == Constants /\ TelemetryInit => TelemetryInv
<1> SUFFICES ASSUME Constants, TelemetryInit PROVE TelemetryInv
  OBVIOUS
<1>1. \A p \in Senders : sender[p] = AtRest
  BY DEF TelemetryInit
<1>2. ProcInv
  BY <1>1, IdleFits DEF ProcInv, Bound
<1>3. TelemetryTypeOK
  <2>1. sender \in [Senders -> Sender]
    BY IdleFits DEF TelemetryInit
  <2>2. built \in [endpoint : BOOLEAN, default : BOOLEAN] /\ config \in Files
        /\ toggle \in {"on", "off", None} /\ state \in State \cup NoState
    BY DEF TelemetryInit
  <2>3. clock \in Nat /\ runs \in Nat /\ salts \in Nat /\ rows \in [1 .. MaxRuns -> Nat]
        /\ kept \in Nat \cup {None} /\ mishaps \subseteq {"overlap", "torn", "mints"}
        /\ attempts \subseteq [report : Message, asked : BOOLEAN]
    BY DEF TelemetryInit
  <2>4. QED
    BY <2>1, <2>2, <2>3 DEF TelemetryTypeOK
<1>4. QED
  BY <1>2, <1>3 DEF TelemetryInit, TelemetryInv, AttemptInv, Constants

\* The rest of the state after a step of one process that hands in nothing.
Rest(v) ==
    /\ UNCHANGED <<built, config, toggle, clock, runs, attempts>>
    /\ v \in Sender /\ Shape(v) /\ Bound(v)
    /\ state' \in State \cup NoState /\ salts' \in Nat /\ kept' \in Nat \cup {None}
    /\ rows' = rows
    /\ mishaps' \subseteq {"overlap", "torn", "mints"}

LEMMA StepRest ==
    ASSUME TelemetryInv, NEW p \in Senders, NEW v, Rest(v), Goes(p, v)
    PROVE  TelemetryInv'
<1>1. sender' \in [Senders -> Sender] /\ ProcInv'
  BY MoveTyped DEF Rest, Goes
<1>2. TelemetryTypeOK'
  BY <1>1 DEF TelemetryInv, TelemetryTypeOK, Rest
<1>3. QED
  BY <1>1, <1>2 DEF TelemetryInv, Rest, AttemptInv

LEMMA IdleBound == Bound(AtRest)
  BY IdleFits DEF Bound

\* Every process that goes back to idle, leaving the files alone or keeping its report.
LEMMA StepIdle ==
    ASSUME TelemetryInv, NEW p \in Senders, Goes(p, AtRest), kept' \in Nat \cup {None},
           UNCHANGED <<Consent, state, clock, runs, salts, rows, Ghosts>>
    PROVE  TelemetryInv'
  BY StepRest, IdleFits, IdleBound DEF Rest, TelemetryInv, TelemetryTypeOK, Consent, Ghosts

LEMMA ProcAt ==
    ASSUME TelemetryInv, NEW p \in Senders
    PROVE  sender[p] \in Sender /\ Shape(sender[p]) /\ Bound(sender[p])
  BY DEF TelemetryInv, TelemetryTypeOK, ProcInv

LEMMA NoticedTyped ==
    ASSUME TelemetryInv, NEW p \in Senders PROVE Noticed(p) \subseteq {"overlap", "torn", "mints"}
  BY DEF TelemetryInv, TelemetryTypeOK, Noticed

LEMMA StepBegin ==
    ASSUME Constants, TelemetryInv, NEW p \in Senders, NEW kind \in {"hot", "cold", "look"}, Begin(p, kind)
    PROVE  TelemetryInv'
<1> DEFINE v == [AtRest EXCEPT !.pc = "config", !.kind = kind, !.now = clock,
                             !.id = runs + 1, !.asked = Consents(config)]
<1>1. /\ v.pc = "config" /\ v.kind = kind /\ v.now = clock /\ v.id = runs + 1
      /\ v.held = None /\ v.device = None /\ v.asked = Consents(config)
  BY DEF AtRest
<1>2. clock \in Nat /\ runs \in Nat /\ runs < MaxRuns /\ MaxRuns \in Nat /\ runs' = runs + 1
  BY DEF TelemetryInv, TelemetryTypeOK, Begin, Constants
<1>3. Consents(config) \in BOOLEAN
  BY DEF Consents
<1>4. v \in Sender
  <2> DEFINE u1 == [AtRest EXCEPT !.pc = "config"]
             u2 == [u1 EXCEPT !.kind = kind]
             u3 == [u2 EXCEPT !.now = clock]
             u4 == [u3 EXCEPT !.id = runs + 1]
             u5 == [u4 EXCEPT !.asked = Consents(config)]
  <2>1. v = u5
    OBVIOUS
  <2> HIDE DEF u5, v
  <2>2. u1 \in Sender
    BY IdleFits DEF Sender
  <2> HIDE DEF u1
  <2>3. u2 \in Sender
    BY <2>2 DEF Sender
  <2> HIDE DEF u2
  <2>4. u3 \in Sender
    BY <1>2, <2>3 DEF Sender
  <2> HIDE DEF u3
  <2>5. u4 \in Sender
    BY <1>2, <2>4 DEF Sender
  <2> HIDE DEF u4
  <2>6. [u4 EXCEPT !.asked = TRUE] \in Sender /\ [u4 EXCEPT !.asked = FALSE] \in Sender
    BY <2>5 DEF Sender
  <2>7. u5 \in Sender
    BY <1>3, <2>6, Zenon DEF u5
  <2>8. QED
    BY <2>1, <2>7
<1>5. Shape(v)
  BY <1>1, <1>2 DEF Shape
<1> HIDE DEF v
<1>6. sender' = [sender EXCEPT ![p] = v]
  BY DEF Begin, Goes, v
<1>7. UNCHANGED <<built, config, toggle, state, clock, salts, attempts, rows, kept, mishaps>>
  BY DEF Begin, Consent, Ghosts
<1>8. ASSUME NEW q \in Senders
      PROVE  Shape(sender'[q]) /\ Bound(sender[q])'
  <2>1. CASE q = p
    <3>1. sender'[q] = v
      BY <1>6, <2>1 DEF TelemetryInv, TelemetryTypeOK
    <3>2. v.pc = "config" /\ v.id = runs' /\ v.now = clock' /\ v.asked = Consents(config)'
      BY <1>1, <1>2, <1>7 DEF Consents
    <3>3. Bound(sender[q])'
      BY <1>2, <1>7, <3>1, <3>2 DEF Bound
    <3>4. QED
      BY <1>5, <3>1, <3>3
  <2>2. CASE q # p
    <3>1. sender'[q] = sender[q]
      BY <1>6, <2>2 DEF TelemetryInv, TelemetryTypeOK
    <3>2. Consents(config)' = Consents(config)
      BY <1>7 DEF Consents
    <3>3. sender[q].id \in Nat
      BY DEF TelemetryInv, TelemetryTypeOK, Sender
    <3>4. QED
      BY <1>2, <1>7, <3>1, <3>2, <3>3, ProcAt DEF Bound
  <2>3. QED
    BY <2>1, <2>2
<1>9. sender' \in [Senders -> Sender]
  BY <1>4, <1>6 DEF TelemetryInv, TelemetryTypeOK
<1>10. TelemetryTypeOK'
  BY <1>2, <1>7, <1>9 DEF TelemetryInv, TelemetryTypeOK
<1>11. \A a \in attempts : a.report.id \in Nat
  BY DEF TelemetryInv, TelemetryTypeOK, Message
<1>12. QED
  BY <1>2, <1>7, <1>8, <1>10, <1>11 DEF TelemetryInv, ProcInv, AttemptInv, Shape

LEMMA StepReadConfig ==
    ASSUME Constants, TelemetryInv, NEW p \in Senders, ReadConfig(p)
    PROVE  TelemetryInv'
<1> DEFINE w == sender[p]
           v == IF ~Proceeds(w, config) THEN AtRest
                ELSE [w EXCEPT !.pc = IF w.kind = "hot" THEN "peek" ELSE "load"]
<1>1. w \in Sender /\ Shape(w) /\ Bound(w) /\ w.pc = "config"
  BY ProcAt DEF ReadConfig, Asks
<1>2. v \in Sender /\ Shape(v) /\ Bound(v)
  <2>1. CASE ~Proceeds(w, config)
    BY <2>1, IdleFits, IdleBound
  <2>2. CASE Proceeds(w, config)
    <3>1. v = [w EXCEPT !.pc = IF w.kind = "hot" THEN "peek" ELSE "load"]
      BY <2>2
    <3>2. w.kind # "look" => w.asked
      BY <1>1, <2>2 DEF Proceeds, Bound
    <3> HIDE DEF w, v
    <3>3. v \in Sender /\ v.pc \in {"peek", "load"} /\ v.kind = w.kind /\ v.id = w.id
          /\ v.now = w.now /\ v.asked = w.asked /\ v.device = w.device
          /\ (v.pc = "peek" => w.kind = "hot")
      BY <1>1, <3>1 DEF Sender
    <3>4. QED
      BY <1>1, <3>2, <3>3 DEF Shape, Bound
  <2>3. QED
    BY <2>1, <2>2
<1>3. Goes(p, v) /\ UNCHANGED <<Consent, state, clock, runs, salts, kept, rows, Ghosts>>
  BY DEF ReadConfig, Asks
<1> HIDE DEF v
<1>4. Rest(v)
  BY <1>2, <1>3 DEF Rest, TelemetryInv, TelemetryTypeOK, Consent, Ghosts
<1>5. QED
  BY <1>3, <1>4, StepRest

LEMMA StepPeek ==
    ASSUME Constants, TelemetryInv, NEW p \in Senders, Peek(p)
    PROVE  TelemetryInv'
<1> DEFINE w == sender[p]
           v == Decided(w, IF state \in NoState THEN None ELSE state.sent)
<1>1. w \in Sender /\ Shape(w) /\ Bound(w) /\ w.pc = "peek"
  BY ProcAt DEF Peek
<1>2. Goes(p, v) /\ mishaps' = Noticed(p)
      /\ UNCHANGED <<Consent, state, clock, runs, salts, kept, attempts, rows>>
  BY DEF Peek
<1> HIDE DEF w
<1>3. v \in Sender /\ Shape(v) /\ Follows(v, w)
  BY <1>1, DecidedFits DEF Shape
<1> HIDE DEF v
<1>4. Rest(v)
  BY <1>1, <1>2, <1>3, FollowsBound, NoticedTyped DEF Rest, TelemetryInv, TelemetryTypeOK, Consent
<1>5. QED
  BY <1>2, <1>4, StepRest

LEMMA StepLoad ==
    ASSUME Constants, TelemetryInv, NEW p \in Senders, LoadState(p)
    PROVE  TelemetryInv'
<1> DEFINE w == sender[p]
           v == IF state \in NoState THEN [w EXCEPT !.pc = "mint"] ELSE Loaded(w, state)
<1>1. w \in Sender /\ Shape(w) /\ Bound(w) /\ w.pc \in {"load", "stampLoad"}
  BY ProcAt DEF LoadState
<1>2. Goes(p, v) /\ mishaps' \subseteq Noticed(p) \cup {"mints"}
      /\ UNCHANGED <<Consent, state, clock, runs, salts, kept, attempts, rows>>
  BY DEF LoadState
<1> HIDE DEF w
<1>3. v \in Sender /\ Shape(v) /\ Follows(v, w)
  <2>1. CASE state \in NoState
    <3>1. v = [w EXCEPT !.pc = "mint"]
      BY <2>1
    <3>2. QED
      BY <1>1, <3>1 DEF Sender, Shape, Follows
  <2>2. CASE state \notin NoState
    <3>1. state \in State
      BY <2>2 DEF TelemetryInv, TelemetryTypeOK
    <3>2. QED
      BY <1>1, <2>2, <3>1, LoadedFits
  <2>3. QED
    BY <2>1, <2>2
<1> HIDE DEF v
<1>4. Rest(v)
  BY <1>1, <1>2, <1>3, FollowsBound, NoticedTyped DEF Rest, TelemetryInv, TelemetryTypeOK, Consent
<1>5. QED
  BY <1>2, <1>4, StepRest

LEMMA FreshTyped == ASSUME NEW n \in Nat PROVE Fresh(n) \in State /\ Fresh(n).sent = None
  BY DEF Fresh, State

LEMMA StepMintOpen ==
    ASSUME TelemetryInv, NEW p \in Senders, MintOpen(p)
    PROVE  TelemetryInv'
<1> DEFINE w == sender[p]
           u == [w EXCEPT !.pc = "mintWrite"]
           v == [u EXCEPT !.held = Fresh(salts + 1)]
<1>1. w \in Sender /\ Shape(w) /\ Bound(w) /\ w.pc = "mint"
  BY ProcAt DEF MintOpen
<1>2. salts + 1 \in Nat /\ Fresh(salts + 1) \in State /\ Fresh(salts + 1).sent = None
  BY FreshTyped DEF TelemetryInv, TelemetryTypeOK
<1>3. Goes(p, v)
  BY DEF MintOpen
<1>4. salts' = salts + 1 /\ state' = Emptied /\ UNCHANGED <<Consent, clock, runs, kept, rows, Ghosts>>
  BY DEF MintOpen
<1> HIDE DEF w
<1>5. u \in Sender /\ u.pc = "mintWrite" /\ u.kind = w.kind /\ u.id = w.id /\ u.now = w.now
      /\ u.asked = w.asked /\ u.device = w.device
  BY <1>1 DEF Sender
<1> HIDE DEF u
<1>6. v \in Sender /\ v.pc = "mintWrite" /\ v.kind = w.kind /\ v.id = w.id /\ v.now = w.now
      /\ v.asked = w.asked /\ v.device = w.device /\ v.held \in State /\ v.held.sent = None
  BY <1>2, <1>5 DEF Sender
<1> HIDE DEF v
<1>7. Shape(v) /\ Follows(v, w)
  BY <1>1, <1>6 DEF Shape, Follows
<1>8. Rest(v)
  BY <1>1, <1>2, <1>4, <1>6, <1>7, FollowsBound DEF Rest, TelemetryInv, TelemetryTypeOK, Consent, Ghosts, NoState
<1>9. QED
  BY <1>3, <1>8, StepRest

LEMMA StepMintWrite ==
    ASSUME Constants, TelemetryInv, NEW p \in Senders, MintWrite(p)
    PROVE  TelemetryInv'
<1> DEFINE w == sender[p]
           v == Loaded(w, w.held)
<1>1. w \in Sender /\ Shape(w) /\ Bound(w) /\ w.pc = "mintWrite"
  BY ProcAt DEF MintWrite
<1>2. Goes(p, v) /\ state' = w.held /\ UNCHANGED <<Consent, clock, runs, salts, kept, rows, Ghosts>>
  BY DEF MintWrite
<1> HIDE DEF w
<1>3. w.held \in State
  BY <1>1 DEF Shape
<1>4. v \in Sender /\ Shape(v) /\ Follows(v, w)
  BY <1>1, <1>3, LoadedFits
<1> HIDE DEF v
<1>5. Rest(v)
  BY <1>1, <1>2, <1>3, <1>4, FollowsBound DEF Rest, TelemetryInv, TelemetryTypeOK, Consent, Ghosts
<1>6. QED
  BY <1>2, <1>5, StepRest

LEMMA StepCaches ==
    ASSUME TelemetryInv, NEW p \in Senders, NEW some \in BOOLEAN, Caches(p, some)
    PROVE  TelemetryInv'
<1> DEFINE w == sender[p]
           v == IF some THEN [w EXCEPT !.pc = "load"] ELSE AtRest
<1>1. w \in Sender /\ Shape(w) /\ Bound(w) /\ w.pc = "caches"
  BY ProcAt DEF Caches
<1>2. Goes(p, v) /\ UNCHANGED <<Consent, state, clock, runs, salts, kept, rows, Ghosts>>
  BY DEF Caches
<1> HIDE DEF w
<1>3. v \in Sender /\ Shape(v) /\ Follows(v, w)
  <2>1. CASE some
    BY <1>1, <2>1 DEF Sender, Shape, Follows
  <2>2. CASE ~some
    BY <2>2, IdleFits DEF Follows
  <2>3. QED
    BY <2>1, <2>2
<1> HIDE DEF v
<1>4. Rest(v)
  BY <1>1, <1>2, <1>3, FollowsBound DEF Rest, TelemetryInv, TelemetryTypeOK, Consent, Ghosts
<1>5. QED
  BY <1>2, <1>4, StepRest

LEMMA StepStampOpen ==
    ASSUME TelemetryInv, NEW p \in Senders, StampOpen(p)
    PROVE  TelemetryInv'
<1> DEFINE w == sender[p]
           v == [w EXCEPT !.pc = "stampWrite"]
<1>1. w \in Sender /\ Shape(w) /\ Bound(w) /\ w.pc = "stamp"
  BY ProcAt DEF StampOpen
<1>2. Goes(p, v) /\ state' = Emptied /\ UNCHANGED <<Consent, clock, runs, salts, kept, rows, Ghosts>>
  BY DEF StampOpen
<1> HIDE DEF w
<1>3. v \in Sender /\ Shape(v) /\ Follows(v, w)
  BY <1>1 DEF Sender, Shape, Follows
<1> HIDE DEF v
<1>4. Rest(v)
  BY <1>1, <1>2, <1>3, FollowsBound DEF Rest, TelemetryInv, TelemetryTypeOK, Consent, Ghosts, NoState
<1>5. QED
  BY <1>2, <1>4, StepRest

LEMMA StepStampWrite ==
    ASSUME TelemetryInv, NEW p \in Senders, StampWrite(p)
    PROVE  TelemetryInv'
<1> DEFINE w == sender[p]
           u == [w EXCEPT !.pc = "send"]
           v == [u EXCEPT !.held = None]
<1>1. w \in Sender /\ Shape(w) /\ Bound(w) /\ w.pc = "stampWrite"
  BY ProcAt DEF StampWrite
<1>2. Goes(p, v)
  BY DEF StampWrite
<1>3. state' = [w.held EXCEPT !.sent = w.now] /\ UNCHANGED <<Consent, clock, runs, salts, kept, rows, Ghosts>>
  BY DEF StampWrite
<1> HIDE DEF w
<1>4. state' \in State
  <2>1. w.held \in State /\ w.now \in Nat
    BY <1>1 DEF Shape, Sender
  <2>2. QED
    BY <1>3, <2>1 DEF State
<1>5. u \in Sender /\ u.pc = "send" /\ u.kind = w.kind /\ u.id = w.id /\ u.now = w.now
      /\ u.asked = w.asked /\ u.device = w.device
  BY <1>1 DEF Sender
<1> HIDE DEF u
<1>6. v \in Sender /\ v.pc = "send" /\ v.kind = w.kind /\ v.id = w.id /\ v.now = w.now
      /\ v.asked = w.asked /\ v.device = w.device
  BY <1>5 DEF Sender
<1> HIDE DEF v
<1>7. Shape(v) /\ Follows(v, w)
  BY <1>1, <1>6 DEF Shape, Follows
<1>8. Rest(v)
  BY <1>1, <1>3, <1>4, <1>6, <1>7, FollowsBound DEF Rest, TelemetryInv, TelemetryTypeOK, Consent, Ghosts
<1>9. QED
  BY <1>2, <1>8, StepRest

\* Only here something is handed in.
LEMMA StepSend ==
    ASSUME TelemetryInv, NEW p \in Senders, Send(p)
    PROVE  TelemetryInv'
<1> DEFINE w == sender[p]
           report == [id |-> w.id, device |-> w.device, at |-> w.now]
           a == [report |-> report, asked |-> w.asked]
           u1 == [AtRest EXCEPT !.pc = "answer"]
           u2 == [u1 EXCEPT !.kind = "cold"]
           u3 == [u2 EXCEPT !.id = w.id]
           v == IF w.kind = "hot" THEN AtRest ELSE u3
<1>1. w \in Sender /\ Shape(w) /\ Bound(w) /\ w.pc = "send"
  BY ProcAt DEF Send
<1>2. Goes(p, v)
  BY DEF Send
<1>3. attempts' = attempts \cup {a}
      /\ UNCHANGED <<Consent, state, clock, runs, salts, kept, rows, mishaps>>
  BY DEF Send
<1>4. w.id \in 1 .. runs /\ w.now \in Nat /\ w.device \in Nat /\ w.asked /\ runs \in Nat
  BY <1>1 DEF TelemetryInv, TelemetryTypeOK, Bound, Shape, Sender
<1>5. w.asked \in BOOLEAN
  BY <1>1 DEF Sender
<1> HIDE DEF w
<1>6. u1 \in Sender /\ u1.pc = "answer" /\ u1.device = None
  BY IdleFits DEF Sender, AtRest
<1> HIDE DEF u1
<1>7. u2 \in Sender /\ u2.pc = "answer" /\ u2.device = None /\ u2.kind = "cold"
  BY <1>6 DEF Sender
<1> HIDE DEF u2
<1>8. u3 \in Sender /\ u3.pc = "answer" /\ u3.device = None /\ u3.kind = "cold" /\ u3.id = w.id
  BY <1>4, <1>7 DEF Sender
<1>9. u3.now = 0
  BY <1>6, <1>7 DEF AtRest, u1, u2
<1> HIDE DEF u3
<1>10. v \in Sender /\ Shape(v) /\ Bound(v)
  <2>1. clock \in Nat
    BY DEF TelemetryInv, TelemetryTypeOK
  <2>2. Shape(u3) /\ Bound(u3)
    BY <1>4, <1>8, <1>9, <2>1 DEF Shape, Bound
  <2>3. QED
    BY <1>8, <2>2, IdleFits, IdleBound
<1> HIDE DEF v
<1>11. report \in Message
  BY <1>4 DEF Message
<1>12. a.asked /\ a.report = report /\ report.id = w.id
  BY <1>4
<1> HIDE DEF report
<1>13. a \in [report : Message, asked : BOOLEAN]
  BY <1>5, <1>11, Zenon
<1> HIDE DEF a
<1>14. sender' \in [Senders -> Sender] /\ ProcInv'
  BY <1>2, <1>3, <1>10, MoveTyped DEF Goes, Consent
<1>15. TelemetryTypeOK'
  BY <1>3, <1>13, <1>14 DEF TelemetryInv, TelemetryTypeOK, Consent
<1>16. AttemptInv'
  BY <1>3, <1>4, <1>12 DEF TelemetryInv, AttemptInv
<1>17. QED
  BY <1>3, <1>14, <1>15, <1>16 DEF TelemetryInv

\* The other processes go on as they were, but for one field.
LEMMA OthersTyped ==
    ASSUME TelemetryInv, NEW P \in [Senders -> Sender], sender' = P,
           \A q \in Senders : /\ P[q].pc = sender[q].pc /\ P[q].kind = sender[q].kind
                            /\ P[q].device = sender[q].device /\ P[q].held = sender[q].held
                            /\ P[q].id = sender[q].id /\ P[q].now = sender[q].now
                            /\ (sender[q].asked => P[q].asked),
           UNCHANGED <<clock, runs>>,
           \A q \in Senders : P[q].pc = "config" /\ Consents(config)' =>
                               P[q].asked \/ Consents(config)
    PROVE  ProcInv'
<1>1. ASSUME NEW q \in Senders
      PROVE  Shape(sender'[q]) /\ Bound(sender[q])'
  <2>1. Shape(sender[q]) /\ Bound(sender[q])
    BY ProcAt
  <2>2. QED
    BY <2>1 DEF Shape, Bound
<1>2. QED
  BY <1>1 DEF ProcInv, Shape

LEMMA StepIngest ==
    ASSUME TelemetryInv, NEW a \in attempts, NEW heard \in BOOLEAN, Ingest(a.report, heard)
    PROVE  TelemetryInv'
<1> DEFINE P == [p \in Senders |-> IF heard /\ sender[p].pc = "answer" /\ sender[p].id = a.report.id
                                 THEN [sender[p] EXCEPT !.ok = TRUE] ELSE sender[p]]
<1>1. /\ sender' = P /\ Insert(a.report)
      /\ UNCHANGED <<Consent, state, clock, runs, salts, kept, Ghosts>>
  BY DEF Ingest
<1>2. ASSUME NEW q \in Senders
      PROVE  /\ P[q] \in Sender /\ P[q].pc = sender[q].pc /\ P[q].kind = sender[q].kind
             /\ P[q].device = sender[q].device /\ P[q].held = sender[q].held
             /\ P[q].id = sender[q].id /\ P[q].now = sender[q].now /\ P[q].asked = sender[q].asked
  <2>1. sender[q] \in Sender
    BY DEF TelemetryInv, TelemetryTypeOK
  <2>2. [sender[q] EXCEPT !.ok = TRUE] \in Sender
    BY <2>1 DEF Sender
  <2>3. CASE heard /\ sender[q].pc = "answer" /\ sender[q].id = a.report.id
    <3>1. P[q] = [sender[q] EXCEPT !.ok = TRUE]
      BY <2>3
    <3>2. QED
      BY <2>1, <2>2, <3>1 DEF Sender
  <2>4. CASE ~(heard /\ sender[q].pc = "answer" /\ sender[q].id = a.report.id)
    <3>1. P[q] = sender[q]
      BY <2>4
    <3>2. QED
      BY <2>1, <3>1
  <2>5. QED
    BY <2>3, <2>4
<1>3. P \in [Senders -> Sender]
  BY <1>2
<1> HIDE DEF P
<1>4. Consents(config)' = Consents(config)
  BY <1>1 DEF Consents, Consent
<1>5. ProcInv'
  BY <1>1, <1>2, <1>3, <1>4, OthersTyped
<1>6. rows' \in [1 .. MaxRuns -> Nat]
  BY <1>1 DEF TelemetryInv, TelemetryTypeOK, Insert
<1>7. TelemetryTypeOK'
  BY <1>1, <1>3, <1>6 DEF TelemetryInv, TelemetryTypeOK, Consent, Ghosts
<1>8. QED
  BY <1>1, <1>5, <1>7 DEF TelemetryInv, AttemptInv, Ghosts

LEMMA StepTick ==
    ASSUME TelemetryInv, TimePasses
    PROVE  TelemetryInv'
<1>1. clock \in Nat /\ clock' = clock + 1
      /\ UNCHANGED <<Consent, state, sender, runs, salts, kept, rows, Ghosts>>
  BY DEF TelemetryInv, TelemetryTypeOK, TimePasses
<1>2. ASSUME NEW q \in Senders
      PROVE  Shape(sender'[q]) /\ Bound(sender[q])'
  <2>1. Shape(sender[q]) /\ Bound(sender[q]) /\ sender[q].now \in Nat
    BY ProcAt DEF Sender
  <2>2. Consents(config)' = Consents(config)
    BY <1>1 DEF Consents, Consent
  <2>3. QED
    BY <1>1, <2>1, <2>2 DEF Bound
<1>3. TelemetryTypeOK'
  BY <1>1 DEF TelemetryInv, TelemetryTypeOK, Consent, Ghosts
<1>4. QED
  BY <1>1, <1>2, <1>3 DEF TelemetryInv, ProcInv, AttemptInv, Shape, Ghosts

LEMMA StepToggle ==
    ASSUME Constants, TelemetryInv,
           ToggleWrite \/ ToggleCrash \/ \E to \in {"on", "off"} : ToggleOpen(to)
    PROVE  TelemetryInv'
<1>1. CASE \E to \in {"on", "off"} : ToggleOpen(to)
  <2>1. PICK to \in {"on", "off"} : ToggleOpen(to)
    BY <1>1
  <2>2. /\ config' = Emptied /\ toggle' = to
        /\ UNCHANGED <<built, state, clock, sender, runs, salts, kept, rows, Ghosts>>
    BY <2>1 DEF ToggleOpen
  <2>3. ~Consents(config)'
    BY <2>2 DEF Consents, Constants
  <2>4. TelemetryTypeOK'
    BY <2>2 DEF TelemetryInv, TelemetryTypeOK, Files, Ghosts
  <2>5. sender' \in [Senders -> Sender]
    BY <2>4 DEF TelemetryTypeOK
  <2>6. ProcInv'
    BY <2>2, <2>3, <2>5, OthersTyped
  <2>7. QED
    BY <2>2, <2>4, <2>6 DEF TelemetryInv, AttemptInv, Ghosts
<1>2. CASE ToggleWrite
  <2> DEFINE P == [p \in Senders |-> [sender[p] EXCEPT !.asked = @ \/ toggle = "on"]]
  <2>1. /\ toggle \in {"on", "off"} /\ config' = toggle /\ toggle' = None /\ sender' = P
        /\ UNCHANGED <<built, state, clock, runs, salts, kept, rows, Ghosts>>
    BY <1>2 DEF ToggleWrite, TelemetryInv, TelemetryTypeOK
  <2>2. ASSUME NEW q \in Senders
        PROVE  /\ P[q] \in Sender /\ P[q].pc = sender[q].pc /\ P[q].kind = sender[q].kind
               /\ P[q].device = sender[q].device /\ P[q].held = sender[q].held
               /\ P[q].id = sender[q].id /\ P[q].now = sender[q].now
               /\ (sender[q].asked => P[q].asked) /\ (toggle = "on" => P[q].asked)
    <3>1. sender[q] \in Sender
      BY DEF TelemetryInv, TelemetryTypeOK
    <3>2. CASE toggle = "on"
      <4>1. P[q] = [sender[q] EXCEPT !.asked = TRUE]
        BY <3>2
      <4> HIDE DEF P
      <4>2. QED
        BY <3>1, <4>1 DEF Sender
    <3>3. CASE toggle # "on"
      <4>1. sender[q].asked \in BOOLEAN
        BY <3>1 DEF Sender
      <4>2. P[q] = [sender[q] EXCEPT !.asked = sender[q].asked]
        <5>1. P[q] = [sender[q] EXCEPT !.asked = sender[q].asked \/ toggle = "on"]
          OBVIOUS
        <5>2. (sender[q].asked \/ toggle = "on") = sender[q].asked
          BY <3>3, <4>1, Zenon
        <5> HIDE DEF P
        <5>3. QED
          BY <5>1, <5>2, Zenon
      <4> HIDE DEF P
      <4>3. P[q] = sender[q]
        BY <3>1, <4>2 DEF Sender
      <4>4. QED
        BY <3>1, <3>3, <4>3
    <3>4. QED
      BY <3>2, <3>3
  <2>3. P \in [Senders -> Sender]
    BY <2>2
  <2> HIDE DEF P
  <2>4. Consents(config)' => toggle = "on" \/ (toggle = None /\ toggle \in {"on", "off"})
    BY <2>1 DEF Consents
  <2>5. ASSUME Consents(config)', toggle # "on"
        PROVE  FALSE
    BY <1>2, <2>4, <2>5 DEF ToggleWrite
  <2>6. ProcInv'
    BY <2>1, <2>2, <2>3, <2>5, OthersTyped
  <2>7. TelemetryTypeOK'
    BY <2>1, <2>3 DEF TelemetryInv, TelemetryTypeOK, Files, Ghosts
  <2>8. QED
    BY <2>1, <2>6, <2>7 DEF TelemetryInv, AttemptInv, Ghosts
<1>3. CASE ToggleCrash
  <2>1. toggle' = None
        /\ UNCHANGED <<built, config, state, clock, sender, runs, salts, kept, rows, Ghosts>>
    BY <1>3 DEF ToggleCrash
  <2>2. Consents(config)' = Consents(config)
    BY <2>1 DEF Consents
  <2>3. TelemetryTypeOK'
    BY <2>1 DEF TelemetryInv, TelemetryTypeOK, Ghosts
  <2>4. sender' \in [Senders -> Sender]
    BY <2>3 DEF TelemetryTypeOK
  <2>5. ProcInv'
    BY <2>1, <2>2, <2>4, OthersTyped
  <2>6. QED
    BY <2>1, <2>3, <2>5 DEF TelemetryInv, AttemptInv, Ghosts
<1>4. QED
  BY <1>1, <1>2, <1>3

LEMMA StepEnds ==
    ASSUME TelemetryInv, NEW p \in Senders,
           KeepLocal(p) \/ NoAnswer(p) \/ Answered(p) \/ StateFails(p) \/ Crash(p)
    PROVE  TelemetryInv'
<1>1. sender[p].id \in Nat /\ kept \in Nat \cup {None}
  BY DEF TelemetryInv, TelemetryTypeOK, Sender
<1>2. QED
  BY <1>1, StepIdle DEF KeepLocal, NoAnswer, Answered, StateFails, Crash

LEMMA StepInv ==
    ASSUME Constants, TelemetryInv, [TelemetryNext]_telemetryVars
    PROVE  TelemetryInv'
<1>1. CASE UNCHANGED telemetryVars
  <2>1. UNCHANGED <<built, config, toggle, state, clock, sender, runs, salts, attempts, rows,
                    kept, mishaps>>
    BY <1>1 DEF telemetryVars
  <2>2. Consents(config)' = Consents(config)
    BY <2>1 DEF Consents
  <2>3. TelemetryTypeOK'
    BY <2>1 DEF TelemetryInv, TelemetryTypeOK
  <2>4. sender' \in [Senders -> Sender]
    BY <2>3 DEF TelemetryTypeOK
  <2>5. ProcInv'
    BY <2>1, <2>2, <2>4, OthersTyped
  <2>6. QED
    BY <2>1, <2>3, <2>5 DEF TelemetryInv, AttemptInv
<1>2. ASSUME NEW p \in Senders, NEW kind \in {"hot", "cold", "look"}, Begin(p, kind)
      PROVE  TelemetryInv'
  BY <1>2, StepBegin
<1>3. ASSUME NEW p \in Senders, Dispatch(p)
      PROVE  TelemetryInv'
  BY <1>3, StepReadConfig, StepPeek, StepLoad, StepMintOpen, StepMintWrite, StepCaches,
     StepStampOpen, StepStampWrite, StepSend, StepEnds DEF Dispatch
<1>4. ASSUME NEW a \in attempts, NEW heard \in BOOLEAN, Ingest(a.report, heard)
      PROVE  TelemetryInv'
  BY <1>4, StepIngest
<1>5. QED
  BY <1>1, <1>2, <1>3, <1>4, StepToggle, StepTick, StepEnds DEF TelemetryNext

LEMMA TelemetryInvariance == TelemetrySpec => []TelemetryInv
<1>1. TelemetryInit => TelemetryInv
  BY TelemetryAssumption, TelemetryInitTyped
<1>2. TelemetryInv /\ [TelemetryNext]_telemetryVars => TelemetryInv'
  BY TelemetryAssumption, StepInv
<1>3. QED
  BY <1>1, <1>2, PTL DEF TelemetrySpec

\* The files and the processes stay well formed: a state read in the middle of a write is
\* never taken for one.
THEOREM TelemetryTypeCorrect == TelemetrySpec => []TelemetryTypeOK
<1>1. TelemetryInv => TelemetryTypeOK
  BY DEF TelemetryInv
<1>2. QED
  BY <1>1, TelemetryInvariance, PTL

\* telemetry/dispatch.ts:34-40, core/config.ts: whatever is switched while dispatches are
\* under way, no report leaves without a consent given since its dispatch began.
THEOREM NothingUnasked == TelemetrySpec => []SilentWithoutConsent
<1>1. TelemetryInv => SilentWithoutConsent
  BY DEF TelemetryInv, AttemptInv, SilentWithoutConsent
<1>2. QED
  BY <1>1, TelemetryInvariance, PTL

-----------------------------------------------------------------------------
(* The server's table *)

LEMMA PromiseStep ==
    ASSUME Constants, TelemetryInv, [TelemetryNext]_telemetryVars
    PROVE  [Promise!Next]_(Promise!tvars)
<1> DEFINE tried == {a.report.id : a \in attempts}
           Ids == 1 .. MaxRuns
<1>1. CASE UNCHANGED <<attempts, rows>>
  BY <1>1 DEF Promise!tvars
<1>2. ASSUME NEW p \in Senders, Send(p)
      PROVE  [Promise!Next]_(Promise!tvars)
  <2> DEFINE w == sender[p]
             report == [id |-> w.id, device |-> w.device, at |-> w.now]
             b == [report |-> report, asked |-> w.asked]
  <2>1. attempts' = attempts \cup {b} /\ rows' = rows
    BY <1>2 DEF Send
  <2>2. b.report.id = w.id
    OBVIOUS
  <2>3. w.id \in Ids
    BY <1>2, ProcAt DEF Send, Bound, TelemetryInv, TelemetryTypeOK, Constants
  <2> HIDE DEF b, w
  <2>4. tried' = tried \cup {w.id}
    BY <2>1, <2>2
  <2> HIDE DEF tried
  <2>5. CASE w.id \in tried
    <3>1. tried' = tried
      BY <2>4, <2>5
    <3>2. QED
      BY <2>1, <3>1 DEF Promise!tvars, tried
  <2>6. CASE w.id \notin tried
    <3>1. PICK i \in Ids : i = w.id
      BY <2>3
    <3>2. Promise!Try(i)
      BY <2>1, <2>4, <2>6, <3>1 DEF Promise!Try, tried
    <3>3. QED
      BY <3>2 DEF Promise!Next
  <2>7. QED
    BY <2>5, <2>6
<1>3. ASSUME NEW a \in attempts, NEW heard \in BOOLEAN, Ingest(a.report, heard)
      PROVE  [Promise!Next]_(Promise!tvars)
  <2>1. attempts' = attempts /\ Insert(a.report)
    BY <1>3 DEF Ingest, Ghosts
  <2>2. a.report.id \in Ids /\ a.report.id \in tried
    BY DEF TelemetryInv, TelemetryTypeOK, AttemptInv, Constants
  <2>3. tried' = tried
    BY <2>1
  <2> HIDE DEF tried
  <2>4. CASE rows[a.report.id] = 0
    <3>1. Promise!Count(a.report.id)
      BY <2>1, <2>2, <2>3, <2>4 DEF Insert, Promise!Count, tried
    <3>2. QED
      BY <2>2, <3>1 DEF Promise!Next
  <2>5. CASE rows[a.report.id] # 0
    BY <2>1, <2>3, <2>5 DEF Insert, Promise!tvars, tried
  <2>6. QED
    BY <2>4, <2>5
<1>4. CASE \E p \in Senders : Send(p)
  BY <1>2, <1>4
<1>5. CASE \E a \in attempts, heard \in BOOLEAN : Ingest(a.report, heard)
  BY <1>3, <1>5
<1>6. CASE ~(\E p \in Senders : Send(p))
           /\ ~(\E a \in attempts, heard \in BOOLEAN : Ingest(a.report, heard))
  <2>1. UNCHANGED <<attempts, rows>>
    BY <1>6 DEF TelemetryNext, Dispatch, telemetryVars, Ghosts, ToggleOpen, ToggleWrite, ToggleCrash, TimePasses, Begin,
       StateFails, Crash, ReadConfig, Asks, Peek, LoadState, MintOpen, MintWrite, KeepLocal, Caches,
       StampOpen, StampWrite, NoAnswer, Answered
  <2>2. QED
    BY <1>1, <2>1
<1>7. QED
  BY <1>4, <1>5, <1>6

\* telemetry/send.ts, server/app/src/db.ts: requests and answers may be lost, doubled and
\* late; each dispatch is still counted once at most, and only after it was handed in.
THEOREM CountedOnce == TelemetrySpec => ReportedOnce
<1>1. TelemetryInit => Promise!Init
  BY DEF TelemetryInit, Promise!Init
<1>2. TelemetryInv /\ [TelemetryNext]_telemetryVars => [Promise!Next]_(Promise!tvars)
  BY TelemetryAssumption, PromiseStep
<1>3. QED
  BY <1>1, <1>2, TelemetryInvariance, PTL DEF TelemetrySpec, ReportedOnce, Promise!Spec

-----------------------------------------------------------------------------
(* The window *)

\* A dispatch between its start and its stamp; one that has looked at the stamp; one that
\* has found the window open.
Active(w) == w.pc \notin {"idle", "keep", "send", "answer"}
Looked(w) == \/ w.pc \in {"caches", "mint", "mintWrite", "stampLoad", "stamp", "stampWrite"}
             \/ w.pc = "load" /\ w.kind = "hot"
Committed(w) == \/ w.pc \in {"caches", "stampLoad", "stamp", "stampWrite"}
                \/ w.pc = "load" /\ w.kind = "hot"
                \/ w.pc \in {"mint", "mintWrite"} /\ (w.kind = "hot" \/ w.device # None)

\* When reports were sent, or are about to be, their stamp being set.
Times == {a.report.at : a \in attempts} \cup {sender[p].now : p \in {q \in Senders : sender[q].pc = "send"}}
Clear(t) == \A x \in Times : x + Window <= t
Spaced(x, y) == x >= y + Window \/ y >= x + Window

\* The file lets everybody through.
Open == state \in NoState \/ state.sent = None

\* Of two at work one has not looked yet, and began after the other had.
OneLooked ==
    \A p, q \in Senders : p # q /\ Looked(sender[p]) /\ Active(sender[q]) =>
        ~Looked(sender[q]) /\ sender[p].now <= sender[q].now
MintsNothing == \A p \in Senders : sender[p].pc \in {"mint", "mintWrite"} => state \in NoState
CommittedClear == \A p \in Senders : Committed(sender[p]) => Clear(sender[p].now)
OpenClear == Open => Clear(clock) /\ \A p \in Senders : Active(sender[p]) => Clear(sender[p].now)
StampLast == ~Open => \A x \in Times : x <= state.sent
AllSpaced ==
    /\ \A a, b \in attempts : a = b \/ Spaced(a.report.at, b.report.at)
    /\ \A a \in attempts, p \in Senders :
          sender[p].pc = "send" => Spaced(a.report.at, sender[p].now)
    /\ \A p, q \in Senders :
          p # q /\ sender[p].pc = "send" /\ sender[q].pc = "send" => Spaced(sender[p].now, sender[q].now)

Undisturbed == OneLooked /\ MintsNothing /\ CommittedClear /\ OpenClear /\ StampLast /\ AllSpaced
WindowInv == "overlap" \notin mishaps => Undisturbed

Same(v, w) == v.pc = w.pc /\ v.kind = w.kind /\ v.now = w.now /\ v.device = w.device
Done(v) == ~Active(v) /\ v.pc # "send"
\* Started, or still before its look at the stamp.
Early(v, w) == Active(v) /\ ~Looked(v) /\ (v.now = clock \/ (Active(w) /\ v.now = w.now))

LEMMA LookedActive ==
    ASSUME NEW w PROVE (Looked(w) => Active(w)) /\ (Committed(w) => Looked(w))
                       /\ (w.pc \in {"mint", "mintWrite"} => Looked(w))
  BY DEF Looked, Active, Committed

LEMMA SameLooks ==
    ASSUME NEW v, NEW w, Same(v, w)
    PROVE  /\ Active(v) = Active(w) /\ Looked(v) = Looked(w) /\ Committed(v) = Committed(w)
  BY DEF Same, Active, Looked, Committed

LEMMA TimesTyped ==
    ASSUME TelemetryInv PROVE Times \subseteq Nat
  BY DEF TelemetryInv, TelemetryTypeOK, Sender, Message, Times

\* What is sent, or about to be, does not grow if nobody comes to that point.
LEMMA TimesShrink ==
    ASSUME attempts' = attempts,
           \A q \in Senders : sender'[q].pc = "send" =>
               sender[q].pc = "send" /\ sender'[q].now = sender[q].now
    PROVE  Times' \subseteq Times
  BY DEF Times

LEMMA SpacedStays ==
    ASSUME AllSpaced, attempts' = attempts,
           \A q \in Senders : sender'[q].pc = "send" =>
               sender[q].pc = "send" /\ sender'[q].now = sender[q].now
    PROVE  AllSpaced'
  BY DEF AllSpaced, Spaced

\* Steps before the look and after the stamp disturb nobody.
LEMMA Calm ==
    ASSUME Constants, TelemetryInv, TelemetryInv', Undisturbed, UNCHANGED <<state, attempts>>, clock <= clock',
           \A q \in Senders : \/ Same(sender'[q], sender[q]) \/ Done(sender'[q])
                            \/ Early(sender'[q], sender[q])
    PROVE  Undisturbed'
<1> USE DEF Done, Early
<1>1. \A q \in Senders : sender'[q].pc = "send" => sender[q].pc = "send" /\ sender'[q].now = sender[q].now
  BY DEF Same, Active
<1>2. Times' \subseteq Times /\ Times \subseteq Nat
  BY <1>1, TimesShrink, TimesTyped
<1>3. clock \in Nat /\ clock' \in Nat /\ Window \in Nat
  BY DEF TelemetryInv, TelemetryTypeOK, Constants
<1>4. \A q \in Senders : sender[q].now \in Nat /\ sender'[q].now \in Nat
  BY DEF TelemetryInv, TelemetryTypeOK, Sender
<1>5. \A q \in Senders : Looked(sender'[q]) => Same(sender'[q], sender[q]) /\ Looked(sender[q])
  BY LookedActive, SameLooks
<1>6. \A q \in Senders : Looked(sender[q]) => sender[q].now <= clock
  BY ProcAt DEF Looked, Bound
<1>7. OneLooked'
  <2>1. ASSUME NEW p \in Senders, NEW q \in Senders, p # q, Looked(sender'[p]), Active(sender'[q])
        PROVE  ~Looked(sender'[q]) /\ sender'[p].now <= sender'[q].now
    <3>1. Same(sender'[p], sender[p]) /\ Looked(sender[p])
      BY <1>5, <2>1
    <3>2. CASE Same(sender'[q], sender[q])
      BY <2>1, <3>1, <3>2, SameLooks DEF Undisturbed, OneLooked, Same
    <3>3. CASE Early(sender'[q], sender[q]) /\ sender'[q].now = clock
      BY <1>6, <2>1, <3>1, <3>3 DEF Same
    <3>4. CASE Early(sender'[q], sender[q]) /\ Active(sender[q]) /\ sender'[q].now = sender[q].now
      BY <2>1, <3>1, <3>4 DEF Undisturbed, OneLooked, Same
    <3>5. QED
      BY <2>1, <3>2, <3>3, <3>4
  <2>2. QED
    BY <2>1 DEF OneLooked
<1>8. MintsNothing'
  BY <1>5, LookedActive DEF Undisturbed, MintsNothing, Same
<1>9. CommittedClear'
  <2>1. ASSUME NEW p \in Senders, Committed(sender'[p])
        PROVE  Clear(sender[p].now)'
    <3>1. Same(sender'[p], sender[p]) /\ Committed(sender[p])
      BY <1>5, <2>1, LookedActive, SameLooks
    <3>2. Clear(sender[p].now)
      BY <3>1 DEF Undisturbed, CommittedClear
    <3>3. QED
      BY <1>2, <3>1, <3>2 DEF Clear, Same
  <2>2. QED
    BY <2>1 DEF CommittedClear
<1>10. OpenClear'
  <2>1. SUFFICES ASSUME Open
                 PROVE  Clear(clock)' /\ \A p \in Senders : Active(sender'[p]) => Clear(sender[p].now)'
    BY DEF OpenClear, Open
  <2>2. Clear(clock) /\ \A p \in Senders : Active(sender[p]) => Clear(sender[p].now)
    BY <2>1 DEF Undisturbed, OpenClear
  <2>3. Clear(clock)'
    BY <1>2, <1>3, <2>2 DEF Clear
  <2>4. ASSUME NEW p \in Senders, Active(sender'[p])
        PROVE  Clear(sender[p].now)'
    <3>1. sender'[p].now = clock \/ (Active(sender[p]) /\ sender'[p].now = sender[p].now)
      BY <2>4, SameLooks DEF Same
    <3>2. QED
      BY <1>2, <2>2, <3>1 DEF Clear
  <2>5. QED
    BY <2>3, <2>4
<1>11. StampLast'
  BY <1>2 DEF Undisturbed, StampLast, Open
<1>12. AllSpaced'
  BY <1>1, SpacedStays DEF Undisturbed
<1>13. QED
  BY <1>7, <1>8, <1>9, <1>10, <1>11, <1>12 DEF Undisturbed

\* A look at the stamp while nobody else is at work.
LEMMA LookAlone ==
    ASSUME Constants, TelemetryInv, TelemetryInv', Undisturbed, UNCHANGED <<state, attempts, clock>>,
           NEW p \in Senders, ~Overlaps(p), Active(sender[p]),
           \A q \in Senders : q # p => sender'[q] = sender[q],
           \/ Done(sender'[p])
           \/ /\ Active(sender'[p]) /\ sender'[p].now = sender[p].now /\ sender'[p].pc # "mintWrite"
              /\ sender'[p].pc = "mint" => state \in NoState
              /\ Committed(sender'[p]) => Clear(sender[p].now)
    PROVE  Undisturbed'
<1>1. \A q \in Senders : q # p => ~Active(sender'[q]) /\ sender'[q] = sender[q]
  BY DEF Overlaps, Active
<1>2. \A q \in Senders : sender'[q].pc = "send" => sender[q].pc = "send" /\ sender'[q].now = sender[q].now
  BY <1>1 DEF Done, Active
<1>3. Times' \subseteq Times /\ Times \subseteq Nat
  BY <1>2, TimesShrink, TimesTyped
<1>4. OneLooked' /\ MintsNothing'
  BY <1>1, LookedActive DEF OneLooked, MintsNothing, Done, Active
<1>5. CommittedClear'
  <2>1. ASSUME NEW q \in Senders, Committed(sender'[q])
        PROVE  Clear(sender[q].now)'
    <3>1. q = p /\ Active(sender'[p])
      BY <1>1, <2>1, LookedActive
    <3>2. Clear(sender[p].now) /\ sender'[p].now = sender[p].now
      BY <2>1, <3>1 DEF Done
    <3>3. QED
      BY <1>3, <3>1, <3>2 DEF Clear
  <2>2. QED
    BY <2>1 DEF CommittedClear
<1>6. OpenClear'
  <2>1. SUFFICES ASSUME Open
                 PROVE  Clear(clock)' /\ \A q \in Senders : Active(sender'[q]) => Clear(sender[q].now)'
    BY DEF OpenClear, Open
  <2>2. Clear(clock) /\ Clear(sender[p].now)
    BY <2>1 DEF Undisturbed, OpenClear
  <2>3. ASSUME NEW q \in Senders, Active(sender'[q])
        PROVE  Clear(sender[q].now)'
    BY <1>1, <1>3, <2>2, <2>3 DEF Clear, Done
  <2>4. QED
    BY <1>3, <2>2, <2>3 DEF Clear
<1>7. StampLast'
  BY <1>3 DEF Undisturbed, StampLast, Open
<1>8. AllSpaced'
  BY <1>2, SpacedStays DEF Undisturbed
<1>9. QED
  BY <1>4, <1>5, <1>6, <1>7, <1>8 DEF Undisturbed

\* Who finds the window open is clear of all reports.
LEMMA OpenWindow ==
    ASSUME Constants, TelemetryInv, Undisturbed, NEW p \in Senders, Active(sender[p]),
           ~TooSoon(sender[p].now, IF state \in NoState THEN None ELSE state.sent)
    PROVE  Clear(sender[p].now)
<1>1. sender[p].now \in Nat /\ Window \in Nat /\ Times \subseteq Nat
  BY TimesTyped DEF TelemetryInv, TelemetryTypeOK, Sender, Constants
<1>2. CASE Open
  BY <1>2 DEF Undisturbed, OpenClear
<1>3. CASE ~Open
  <2>1. state \in State /\ state.sent \in Nat /\ state.sent # None
    BY <1>3 DEF TelemetryInv, TelemetryTypeOK, Open, State
  <2>2. sender[p].now >= state.sent + Window
    BY <1>1, <1>3, <2>1 DEF TooSoon, Open
  <2>3. \A x \in Times : x <= state.sent
    BY <1>3 DEF Undisturbed, StampLast
  <2>4. QED
    BY <1>1, <2>1, <2>2, <2>3 DEF Clear
<1>4. QED
  BY <1>2, <1>3

\* What a dispatch does with a state in its hands.
LEMMA LoadedClear ==
    ASSUME Constants, NEW w \in Sender, Shape(w), w.pc \in {"load", "stampLoad", "mintWrite"},
           NEW found \in State, NEW clear,
           Committed(w) => clear,
           ~TooSoon(w.now, found.sent) => clear
    PROVE  LET v == Loaded(w, found) IN
           \/ Done(v)
           \/ /\ Active(v) /\ v.now = w.now /\ v.pc \notin {"mint", "mintWrite"} /\ clear
<1> DEFINE v == Loaded(w, found)
<1>1. v.pc \in {"idle", "keep", "stampLoad", "stamp"} /\ Follows(v, w)
  BY LoadedFits
<1>2. v.pc \in {"stampLoad", "stamp"} => clear
  <2>1. CASE Committed(w)
    BY <2>1
  <2>2. CASE ~Committed(w)
    <3>1. w.device = None /\ w.kind # "hot"
      BY <2>2 DEF Committed, Shape
    <3>2. CASE w.kind = "look"
      <4>1. v = AtRest
        BY <3>1, <3>2 DEF Loaded
      <4>2. QED
        BY <4>1, IdleFits
    <3>3. CASE w.kind = "cold"
      <4> DEFINE named == [w EXCEPT !.device = found.salt, !.held = None]
      <4>1. v = Decided(named, found.sent)
        BY <3>1, <3>3 DEF Loaded
      <4>2. named.now = w.now
        BY DEF Sender
      <4> HIDE DEF named, v
      <4>3. CASE TooSoon(w.now, found.sent) /\ built.endpoint
        <5>1. v = AtRest
          BY <4>1, <4>2, <4>3 DEF Decided
        <5>2. QED
          BY <5>1, IdleFits
      <4>4. CASE ~built.endpoint
        <5>1. v = [named EXCEPT !.pc = "keep"]
          BY <4>1, <4>4 DEF Decided
        <5>2. v.pc = "keep"
          BY <5>1 DEF named, Sender
        <5>3. QED
          BY <5>2
      <4>5. CASE ~TooSoon(w.now, found.sent)
        BY <4>5
      <4>6. QED
        BY <4>3, <4>4, <4>5
    <3>4. QED
      BY <3>1, <3>2, <3>3 DEF Shape
  <2>3. QED
    BY <2>1, <2>2
<1> HIDE DEF v
<1>3. v.pc \in {"stampLoad", "stamp"} => v.now = w.now
  BY <1>1, IdleFits DEF Follows
<1>4. Done(v) \/ /\ Active(v) /\ v.now = w.now /\ v.pc \notin {"mint", "mintWrite"} /\ clear
  BY <1>1, <1>2, <1>3 DEF Done, Active
<1>5. QED
  BY <1>4 DEF v

LEMMA MovedOne ==
    ASSUME TelemetryInv, NEW p \in Senders, NEW v, Goes(p, v)
    PROVE  sender'[p] = v /\ \A q \in Senders : q # p => sender'[q] = sender[q]
  BY DEF Goes, TelemetryInv, TelemetryTypeOK

LEMMA WindowPeek ==
    ASSUME Constants, TelemetryInv, TelemetryInv', Undisturbed, "overlap" \notin mishaps',
           NEW p \in Senders, Peek(p)
    PROVE  Undisturbed'
<1> DEFINE w == sender[p]
           sent == IF state \in NoState THEN None ELSE state.sent
           v == Decided(w, sent)
<1>1. w \in Sender /\ Shape(w) /\ w.pc = "peek" /\ w.kind = "hot" /\ w.device = None
  BY ProcAt DEF Peek, Shape
<1>2. Goes(p, v) /\ mishaps' = Noticed(p)
      /\ UNCHANGED <<Consent, state, clock, runs, salts, kept, attempts, rows>>
  BY DEF Peek
<1>3. ~Overlaps(p) /\ Active(w)
  BY <1>1, <1>2 DEF Noticed, Active
<1>4. ~TooSoon(w.now, sent) => Clear(w.now)
  BY <1>3, OpenWindow
<1> HIDE DEF w, sent
<1>5. v.pc \in {"idle", "keep", "caches", "stampLoad"} /\ Follows(v, w)
  BY <1>1, DecidedFits
<1>6. v.pc \in {"caches", "stampLoad"} => ~TooSoon(w.now, sent)
  <2>1. CASE TooSoon(w.now, sent) /\ built.endpoint
    BY <2>1, IdleFits DEF Decided
  <2>2. CASE ~built.endpoint
    <3>1. v = [w EXCEPT !.pc = "keep"]
      BY <2>2 DEF Decided
    <3>2. v.pc = "keep"
      BY <1>1, <3>1 DEF Sender
    <3>3. QED
      BY <3>2
  <2>3. QED
    BY <2>1, <2>2
<1> HIDE DEF v
<1>7. \/ Done(v)
      \/ Active(v) /\ v.now = w.now /\ v.pc \notin {"mint", "mintWrite"} /\ Clear(w.now)
  BY <1>4, <1>5, <1>6, IdleFits DEF Done, Active, Follows
<1>8. sender'[p] = v /\ \A q \in Senders : q # p => sender'[q] = sender[q]
  BY <1>2, MovedOne
<1>9. QED
  BY <1>2, <1>3, <1>7, <1>8, LookAlone DEF w

LEMMA WindowLoad ==
    ASSUME Constants, TelemetryInv, TelemetryInv', Undisturbed, "overlap" \notin mishaps',
           NEW p \in Senders, LoadState(p)
    PROVE  Undisturbed'
<1> DEFINE w == sender[p]
           v == IF state \in NoState THEN [w EXCEPT !.pc = "mint"] ELSE Loaded(w, state)
<1>1. w \in Sender /\ Shape(w) /\ w.pc \in {"load", "stampLoad"}
  BY ProcAt DEF LoadState
<1>2. Goes(p, v) /\ Noticed(p) \subseteq mishaps'
      /\ UNCHANGED <<Consent, state, clock, runs, salts, kept, attempts, rows>>
  BY DEF LoadState
<1>3. ~Overlaps(p) /\ Active(w)
  BY <1>1, <1>2 DEF Noticed, Active
<1>4. Committed(w) => Clear(w.now)
  BY DEF Undisturbed, CommittedClear
<1>5. state \notin NoState /\ ~TooSoon(w.now, state.sent) => Clear(w.now)
  BY <1>3, OpenWindow
<1> HIDE DEF w
<1>6. \/ Done(v)
      \/ /\ Active(v) /\ v.now = w.now /\ v.pc # "mintWrite" /\ (v.pc = "mint" => state \in NoState)
         /\ Committed(v) => Clear(w.now)
  <2>1. CASE state \in NoState
    <3>1. v.pc = "mint" /\ v.now = w.now /\ v.kind = w.kind /\ v.device = w.device
      BY <1>1, <2>1 DEF Sender
    <3> HIDE DEF v
    <3>2. Committed(v) => Committed(w)
      BY <1>1, <3>1 DEF Committed, Shape
    <3>3. QED
      BY <1>4, <2>1, <3>1, <3>2 DEF Active
  <2>2. CASE state \notin NoState
    <3>1. state \in State
      BY <2>2 DEF TelemetryInv, TelemetryTypeOK
    <3>2. v = Loaded(w, state)
      BY <2>2
    <3> HIDE DEF v
    <3>3. QED
      BY <1>1, <1>4, <1>5, <2>2, <3>1, <3>2, LoadedClear
  <2>3. QED
    BY <2>1, <2>2
<1> HIDE DEF v
<1>7. sender'[p] = v /\ \A q \in Senders : q # p => sender'[q] = sender[q]
  BY <1>2, MovedOne
<1>8. QED
  BY <1>2, <1>3, <1>6, <1>7, LookAlone DEF w

\* Steps of one that has looked and does not set the stamp.
LEMMA LookedStep ==
    ASSUME Constants, TelemetryInv, TelemetryInv', Undisturbed, UNCHANGED <<attempts, clock>>,
           NEW p \in Senders, Looked(sender[p]),
           \A q \in Senders : q # p => sender'[q] = sender[q],
           Done(sender'[p]) \/ (Active(sender'[p]) /\ sender'[p].now = sender[p].now),
           Committed(sender'[p]) => Clear(sender[p].now),
           sender'[p].pc \in {"mint", "mintWrite"} => state' \in NoState,
           Open' => Open \/ Clear(sender[p].now),
           Open' \/ state' = state
    PROVE  Undisturbed'
<1>1. \A q \in Senders : sender'[q].pc = "send" => sender[q].pc = "send" /\ sender'[q].now = sender[q].now
  BY DEF Done, Active
<1>2. Times' \subseteq Times /\ Times \subseteq Nat
  BY <1>1, TimesShrink, TimesTyped
<1>3. \A q \in Senders : q # p /\ Active(sender[q]) => ~Looked(sender[q]) /\ sender[p].now <= sender[q].now
  BY DEF Undisturbed, OneLooked
<1>4. \A q \in Senders : sender[q].now \in Nat
  BY DEF TelemetryInv, TelemetryTypeOK, Sender
<1>5. sender[p].now <= clock /\ clock \in Nat /\ Window \in Nat
  BY ProcAt, LookedActive DEF Bound, Active, TelemetryInv, TelemetryTypeOK, Constants
<1>6. OneLooked'
  <2>1. \A q \in Senders : q # p => ~Looked(sender'[q])
    BY <1>3, LookedActive
  <2>2. ASSUME NEW q \in Senders, q # p, Active(sender'[q]), Looked(sender'[p])
        PROVE  sender'[p].now <= sender'[q].now
    BY <1>3, <2>2, LookedActive DEF Done
  <2>3. QED
    BY <2>1, <2>2 DEF OneLooked
<1>7. MintsNothing'
  BY <1>3, LookedActive DEF MintsNothing
<1>8. CommittedClear'
  <2>1. ASSUME NEW q \in Senders, Committed(sender'[q])
        PROVE  Clear(sender[q].now)'
    <3>1. q = p
      BY <1>3, <2>1, LookedActive
    <3>2. sender'[p].now = sender[p].now /\ Clear(sender[p].now)
      BY <2>1, <3>1, LookedActive DEF Done
    <3>3. QED
      BY <1>2, <3>1, <3>2 DEF Clear
  <2>2. QED
    BY <2>1 DEF CommittedClear
<1>9. OpenClear'
  <2>1. SUFFICES ASSUME Open'
                 PROVE  Clear(clock)' /\ \A q \in Senders : Active(sender'[q]) => Clear(sender[q].now)'
    BY DEF OpenClear
  <2>2. Clear(clock) /\ \A q \in Senders : Active(sender[q]) => Clear(sender[q].now)
    <3>1. CASE Open
      BY <3>1 DEF Undisturbed, OpenClear
    <3>2. CASE Clear(sender[p].now)
      BY <1>2, <1>3, <1>4, <1>5, <3>2 DEF Clear
    <3>3. QED
      BY <2>1, <3>1, <3>2
  <2>3. ASSUME NEW q \in Senders, Active(sender'[q])
        PROVE  Clear(sender[q].now)'
    <3>1. Active(sender[q]) /\ sender'[q].now = sender[q].now
      BY <2>3, LookedActive DEF Done
    <3>2. QED
      BY <1>2, <2>2, <3>1 DEF Clear
  <2>4. QED
    BY <1>2, <2>2, <2>3 DEF Clear
<1>10. StampLast'
  BY <1>2 DEF Undisturbed, StampLast, Open
<1>11. AllSpaced'
  BY <1>1, SpacedStays DEF Undisturbed
<1>12. QED
  BY <1>6, <1>7, <1>8, <1>9, <1>10, <1>11 DEF Undisturbed

LEMMA WindowMintOpen ==
    ASSUME Constants, TelemetryInv, TelemetryInv', Undisturbed, NEW p \in Senders, MintOpen(p)
    PROVE  Undisturbed'
<1> DEFINE w == sender[p]
           u == [w EXCEPT !.pc = "mintWrite"]
           v == [u EXCEPT !.held = Fresh(salts + 1)]
<1>1. w \in Sender /\ w.pc = "mint"
  BY ProcAt DEF MintOpen
<1>2. Goes(p, v) /\ state' = Emptied /\ UNCHANGED <<attempts, clock>>
  BY DEF MintOpen, Ghosts
<1>3. Looked(w) /\ (Committed(w) => Clear(w.now)) /\ state \in NoState
  BY <1>1 DEF Looked, Undisturbed, CommittedClear, MintsNothing
<1> HIDE DEF w
<1>4. v.pc = "mintWrite" /\ v.now = w.now /\ v.kind = w.kind /\ v.device = w.device
  BY <1>1 DEF Sender
<1> HIDE DEF v
<1>5. Active(v) /\ (Committed(v) => Committed(w))
  BY <1>1, <1>4 DEF Active, Committed
<1>6. sender'[p] = v /\ \A q \in Senders : q # p => sender'[q] = sender[q]
  BY <1>2, MovedOne
<1>7. Open /\ Open' /\ state' \in NoState
  BY <1>2, <1>3 DEF Open, NoState
<1>8. QED
  BY <1>2, <1>3, <1>4, <1>5, <1>6, <1>7, LookedStep DEF w

LEMMA WindowMintWrite ==
    ASSUME Constants, TelemetryInv, TelemetryInv', Undisturbed, NEW p \in Senders, MintWrite(p)
    PROVE  Undisturbed'
<1> DEFINE w == sender[p]
           v == Loaded(w, w.held)
<1>1. w \in Sender /\ Shape(w) /\ w.pc = "mintWrite" /\ w.held \in State
  BY ProcAt DEF MintWrite, Shape
<1>2. Goes(p, v) /\ state' = w.held /\ UNCHANGED <<attempts, clock>>
  BY DEF MintWrite, Ghosts
<1>3. Looked(w) /\ Active(w) /\ Open
  BY <1>1 DEF Looked, Active, Undisturbed, MintsNothing, Open
<1>4. Clear(w.now) /\ Clear(clock)
  BY <1>3 DEF Undisturbed, OpenClear
<1>5. sender'[p] = v /\ \A q \in Senders : q # p => sender'[q] = sender[q]
  BY <1>2, MovedOne
<1>6. Done(v) \/ (Active(v) /\ v.now = w.now /\ v.pc \notin {"mint", "mintWrite"})
  BY <1>1, <1>4, LoadedClear
<1> HIDE DEF v
<1>7. v.pc \notin {"mint", "mintWrite"}
  BY <1>6 DEF Done, Active
<1>8. Open'
  BY <1>1, <1>2 DEF Open, Shape
<1> HIDE DEF w
<1>9. QED
  BY <1>2, <1>3, <1>4, <1>5, <1>6, <1>7, <1>8, LookedStep DEF w

LEMMA WindowCaches ==
    ASSUME Constants, TelemetryInv, TelemetryInv', Undisturbed, NEW p \in Senders, NEW some \in BOOLEAN,
           Caches(p, some)
    PROVE  Undisturbed'
<1> DEFINE w == sender[p]
           v == IF some THEN [w EXCEPT !.pc = "load"] ELSE AtRest
<1>1. w \in Sender /\ w.pc = "caches" /\ Looked(w)
  BY ProcAt DEF Caches, Looked
<1>2. Goes(p, v) /\ UNCHANGED <<state, attempts, clock>>
  BY DEF Caches, Ghosts
<1>3. Clear(w.now)
  BY <1>1 DEF Undisturbed, CommittedClear, Committed
<1> HIDE DEF w
<1>4. Done(v) \/ (Active(v) /\ v.now = w.now /\ v.pc = "load")
  <2>1. CASE some
    BY <1>1, <2>1 DEF Sender, Active
  <2>2. CASE ~some
    BY <2>2, IdleFits DEF Done, Active
  <2>3. QED
    BY <2>1, <2>2
<1> HIDE DEF v
<1>5. sender'[p] = v /\ \A q \in Senders : q # p => sender'[q] = sender[q]
  BY <1>2, MovedOne
<1>6. v.pc \notin {"mint", "mintWrite"}
  BY <1>4 DEF Done, Active
<1>7. QED
  BY <1>1, <1>2, <1>3, <1>4, <1>5, <1>6, LookedStep DEF w

LEMMA WindowStampOpen ==
    ASSUME Constants, TelemetryInv, TelemetryInv', Undisturbed, NEW p \in Senders, StampOpen(p)
    PROVE  Undisturbed'
<1> DEFINE w == sender[p]
           v == [w EXCEPT !.pc = "stampWrite"]
<1>1. w \in Sender /\ w.pc = "stamp" /\ Looked(w)
  BY ProcAt DEF StampOpen, Looked
<1>2. Goes(p, v) /\ state' = Emptied /\ UNCHANGED <<attempts, clock>>
  BY DEF StampOpen, Ghosts
<1>3. Clear(w.now)
  BY <1>1 DEF Undisturbed, CommittedClear, Committed
<1> HIDE DEF w
<1>4. v.pc = "stampWrite" /\ v.now = w.now /\ Active(v)
  BY <1>1 DEF Sender, Active
<1> HIDE DEF v
<1>5. sender'[p] = v /\ \A q \in Senders : q # p => sender'[q] = sender[q]
  BY <1>2, MovedOne
<1>6. Open'
  BY <1>2 DEF Open, NoState
<1>7. QED
  BY <1>1, <1>2, <1>3, <1>4, <1>5, <1>6, LookedStep DEF w

\* The stamp is set: from here on the report counts among those that others must be clear of.
LEMMA WindowStampWrite ==
    ASSUME Constants, TelemetryInv, TelemetryInv', Undisturbed, NEW p \in Senders, StampWrite(p)
    PROVE  Undisturbed'
<1> DEFINE w == sender[p]
           u == [w EXCEPT !.pc = "send"]
           v == [u EXCEPT !.held = None]
<1>1. w \in Sender /\ Shape(w) /\ w.pc = "stampWrite" /\ Looked(w) /\ w.now \in Nat /\ w.held \in State
  BY ProcAt DEF StampWrite, Looked, Shape, Sender
<1>2. Goes(p, v) /\ state' = [w.held EXCEPT !.sent = w.now] /\ UNCHANGED <<attempts, clock>>
  BY DEF StampWrite, Ghosts
<1>3. Clear(w.now)
  BY <1>1 DEF Undisturbed, CommittedClear, Committed
<1>4. \A q \in Senders : q # p => ~Looked(sender[q])
  BY <1>1, LookedActive DEF Undisturbed, OneLooked
<1> HIDE DEF w
<1>5. v.pc = "send" /\ v.now = w.now
  BY <1>1 DEF Sender
<1> HIDE DEF v
<1>6. sender'[p] = v /\ \A q \in Senders : q # p => sender'[q] = sender[q]
  BY <1>2, MovedOne
<1>7. Times \subseteq Nat /\ Window \in Nat
  BY TimesTyped DEF Constants
<1>8. Times' \subseteq Times \cup {w.now}
  BY <1>2, <1>5, <1>6 DEF Times
<1>9. state' \in State /\ state'.sent = w.now
  BY <1>1, <1>2 DEF State
<1>10. ~Open'
  BY <1>1, <1>9 DEF Open, Constants, NoState
<1>11. \A q \in Senders : ~Looked(sender'[q])
  BY <1>4, <1>5, <1>6 DEF Looked
<1>12. OneLooked' /\ MintsNothing' /\ CommittedClear'
  BY <1>11, LookedActive DEF OneLooked, MintsNothing, CommittedClear
<1>13. OpenClear'
  BY <1>10 DEF OpenClear
<1>14. StampLast'
  <2>1. \A x \in Times : x <= w.now
    BY <1>1, <1>3, <1>7 DEF Clear
  <2>2. \A x \in Times' : x <= w.now
    BY <1>1, <1>8, <2>1
  <2>3. QED
    BY <1>9, <2>2 DEF StampLast
<1>15. AllSpaced'
  <2>1. \A a \in attempts : a.report.at \in Times
    BY DEF Times
  <2>2. \A q \in Senders : sender[q].pc = "send" => sender[q].now \in Times
    BY DEF Times
  <2>3. \A x \in Times : w.now >= x + Window
    BY <1>1, <1>3, <1>7 DEF Clear
  <2> HIDE DEF w
  <2>4. \A a, b \in attempts' : a = b \/ Spaced(a.report.at, b.report.at)
    BY <1>2 DEF Undisturbed, AllSpaced
  <2>5. \A a \in attempts', q \in Senders :
           sender'[q].pc = "send" => Spaced(a.report.at, sender'[q].now)
    BY <1>2, <1>5, <1>6, <2>1, <2>3 DEF Undisturbed, AllSpaced, Spaced
  <2>6. \A q, r \in Senders : q # r /\ sender'[q].pc = "send" /\ sender'[r].pc = "send" =>
                               Spaced(sender'[q].now, sender'[r].now)
    BY <1>5, <1>6, <2>2, <2>3 DEF Undisturbed, AllSpaced, Spaced
  <2>7. QED
    BY <2>4, <2>5, <2>6 DEF AllSpaced, Spaced
<1>16. QED
  BY <1>12, <1>13, <1>14, <1>15 DEF Undisturbed

LEMMA WindowSend ==
    ASSUME Constants, TelemetryInv, TelemetryInv', Undisturbed, NEW p \in Senders, Send(p)
    PROVE  Undisturbed'
<1> DEFINE w == sender[p]
           report == [id |-> w.id, device |-> w.device, at |-> w.now]
           b == [report |-> report, asked |-> w.asked]
           v == IF w.kind = "hot" THEN AtRest
                ELSE [AtRest EXCEPT !.pc = "answer", !.kind = "cold", !.id = w.id]
<1>1. w.pc = "send" /\ attempts' = attempts \cup {b} /\ Goes(p, v) /\ UNCHANGED <<state, clock>>
  BY DEF Send
<1>2. b.report.at = w.now
  OBVIOUS
<1>3. v.pc \in {"idle", "answer"}
  BY DEF AtRest
<1> HIDE DEF b, v
<1>4. sender'[p] = v /\ \A q \in Senders : q # p => sender'[q] = sender[q]
  BY <1>1, MovedOne
<1>5. ~Active(v) /\ ~Looked(v) /\ v.pc # "send"
  BY <1>3 DEF Active, Looked
<1>6. w.now \in Times
  BY <1>1 DEF Times
<1> HIDE DEF w
<1>7. Times' \subseteq Times
  BY <1>1, <1>2, <1>4, <1>5, <1>6 DEF Times
<1>8. OneLooked' /\ MintsNothing'
  BY <1>1, <1>4, <1>5, LookedActive DEF Undisturbed, OneLooked, MintsNothing
<1>9. CommittedClear'
  <2>1. ASSUME NEW q \in Senders, Committed(sender'[q])
        PROVE  Clear(sender[q].now)'
    <3>1. sender'[q] = sender[q]
      BY <1>4, <1>5, <2>1, LookedActive
    <3>2. QED
      BY <1>7, <2>1, <3>1 DEF Undisturbed, CommittedClear, Clear
  <2>2. QED
    BY <2>1 DEF CommittedClear
<1>10. OpenClear'
  <2>1. SUFFICES ASSUME Open
                 PROVE  Clear(clock)' /\ \A q \in Senders : Active(sender'[q]) => Clear(sender[q].now)'
    BY <1>1 DEF OpenClear, Open
  <2>2. Clear(clock)'
    BY <1>1, <1>7, <2>1 DEF Undisturbed, OpenClear, Clear
  <2>3. ASSUME NEW q \in Senders, Active(sender'[q])
        PROVE  Clear(sender[q].now)'
    BY <1>4, <1>5, <1>7, <2>1, <2>3 DEF Undisturbed, OpenClear, Clear
  <2>4. QED
    BY <2>2, <2>3
<1>11. StampLast'
  BY <1>1, <1>7 DEF Undisturbed, StampLast, Open
<1>12. AllSpaced'
  <2>1. \A a \in attempts : Spaced(a.report.at, w.now)
    BY <1>1 DEF Undisturbed, AllSpaced, w
  <2>2. \A q \in Senders : q # p /\ sender[q].pc = "send" => Spaced(w.now, sender[q].now)
    BY <1>1 DEF Undisturbed, AllSpaced, w
  <2>3. \A x, y : Spaced(x, y) => Spaced(y, x)
    BY DEF Spaced
  <2>4. \A a, c \in attempts' : a = c \/ Spaced(a.report.at, c.report.at)
    BY <1>1, <1>2, <2>1, <2>3 DEF Undisturbed, AllSpaced
  <2>5. \A a \in attempts', q \in Senders :
           sender'[q].pc = "send" => Spaced(a.report.at, sender'[q].now)
    BY <1>1, <1>2, <1>4, <1>5, <2>2 DEF Undisturbed, AllSpaced
  <2>6. \A q, r \in Senders : q # r /\ sender'[q].pc = "send" /\ sender'[r].pc = "send" =>
                               Spaced(sender'[q].now, sender'[r].now)
    BY <1>4, <1>5 DEF Undisturbed, AllSpaced
  <2>7. QED
    BY <2>4, <2>5, <2>6 DEF AllSpaced, Spaced
<1>13. QED
  BY <1>8, <1>9, <1>10, <1>11, <1>12 DEF Undisturbed

\* One process goes where it needs no look, or stays as it was.
LEMMA WindowCalm ==
    ASSUME Constants, TelemetryInv, TelemetryInv', Undisturbed, NEW p \in Senders, NEW v, Goes(p, v),
           Done(v) \/ Early(v, sender[p]), UNCHANGED <<state, attempts, clock>>
    PROVE  Undisturbed'
<1>1. sender'[p] = v /\ \A q \in Senders : q # p => sender'[q] = sender[q]
  BY MovedOne
<1>2. \A q \in Senders : \/ Same(sender'[q], sender[q]) \/ Done(sender'[q])
                       \/ Early(sender'[q], sender[q])
  BY <1>1 DEF Same
<1>3. clock <= clock'
  BY DEF TelemetryInv, TelemetryTypeOK
<1>4. QED
  BY <1>2, <1>3, Calm

LEMMA WindowBegin ==
    ASSUME Constants, TelemetryInv, TelemetryInv', Undisturbed, NEW p \in Senders,
           NEW kind \in {"hot", "cold", "look"}, Begin(p, kind)
    PROVE  Undisturbed'
<1> DEFINE v == [AtRest EXCEPT !.pc = "config", !.kind = kind, !.now = clock,
                             !.id = runs + 1, !.asked = Consents(config)]
<1>1. Goes(p, v) /\ UNCHANGED <<state, attempts, clock>>
  BY DEF Begin, Ghosts
<1>2. v.pc = "config" /\ v.now = clock
  BY DEF AtRest
<1> HIDE DEF v
<1>3. Early(v, sender[p])
  BY <1>2 DEF Early, Active, Looked
<1>4. QED
  BY <1>1, <1>3, WindowCalm

LEMMA WindowReadConfig ==
    ASSUME Constants, TelemetryInv, TelemetryInv', Undisturbed, NEW p \in Senders, ReadConfig(p)
    PROVE  Undisturbed'
<1> DEFINE w == sender[p]
           v == IF ~Proceeds(w, config) THEN AtRest
                ELSE [w EXCEPT !.pc = IF w.kind = "hot" THEN "peek" ELSE "load"]
<1>1. w.pc = "config" /\ Goes(p, v) /\ UNCHANGED <<state, attempts, clock>>
  BY DEF ReadConfig, Asks, Ghosts
<1>2. w \in Sender
  BY ProcAt
<1> HIDE DEF w
<1>3. CASE Proceeds(w, config)
  <2>1. v.now = w.now /\ v.kind = w.kind /\ v.pc = IF w.kind = "hot" THEN "peek" ELSE "load"
    BY <1>2, <1>3 DEF Sender
  <2> HIDE DEF v
  <2>2. Early(v, w)
    BY <1>1, <2>1 DEF Early, Active, Looked
  <2>3. QED
    BY <1>1, <2>2, WindowCalm DEF w
<1>4. CASE ~Proceeds(w, config)
  <2>1. v = AtRest
    BY <1>4
  <2> HIDE DEF v
  <2>2. Done(v)
    BY <2>1, IdleFits DEF Done, Active
  <2>3. QED
    BY <1>1, <2>2, WindowCalm
<1>5. QED
  BY <1>3, <1>4

\* The dispatch is over.
LEMMA WindowEnds ==
    ASSUME Constants, TelemetryInv, TelemetryInv', Undisturbed, NEW p \in Senders,
           KeepLocal(p) \/ NoAnswer(p) \/ Answered(p) \/ StateFails(p) \/ Crash(p)
    PROVE  Undisturbed'
<1>1. Goes(p, AtRest) /\ UNCHANGED <<state, attempts, clock>>
  BY DEF KeepLocal, NoAnswer, Answered, StateFails, Crash, Ghosts
<1>2. Done(AtRest)
  BY IdleFits DEF Done, Active
<1>3. QED
  BY <1>1, <1>2, WindowCalm

\* Nobody moves, or nothing of a process changes that the window depends on.
LEMMA WindowAround ==
    ASSUME Constants, TelemetryInv, TelemetryInv', Undisturbed,
           \/ UNCHANGED telemetryVars
           \/ TimePasses \/ ToggleWrite \/ ToggleCrash \/ \E to \in {"on", "off"} : ToggleOpen(to)
           \/ \E a \in attempts, heard \in BOOLEAN : Ingest(a.report, heard)
    PROVE  Undisturbed'
<1>1. UNCHANGED <<state, attempts>>
  BY DEF telemetryVars, TimePasses, ToggleWrite, ToggleCrash, ToggleOpen, Ingest, Ghosts
<1>2. clock <= clock'
  <2>1. clock' = clock \/ clock' = clock + 1
    BY DEF telemetryVars, TimePasses, ToggleWrite, ToggleCrash, ToggleOpen, Ingest
  <2>2. QED
    BY <2>1 DEF TelemetryInv, TelemetryTypeOK
<1>3. \A q \in Senders : Same(sender'[q], sender[q])
  <2>1. CASE sender' = sender
    BY <2>1 DEF Same
  <2>2. CASE ToggleWrite
    BY <2>2 DEF ToggleWrite, Same, TelemetryInv, TelemetryTypeOK, Sender
  <2>3. ASSUME NEW a \in attempts, NEW heard \in BOOLEAN, Ingest(a.report, heard)
        PROVE  \A q \in Senders : Same(sender'[q], sender[q])
    BY <2>3 DEF Ingest, Same, TelemetryInv, TelemetryTypeOK, Sender
  <2>4. QED
    BY <2>1, <2>2, <2>3 DEF telemetryVars, TimePasses, ToggleCrash, ToggleOpen
<1>4. QED
  BY <1>1, <1>2, <1>3, Calm

\* What went wrong is not forgotten.
LEMMA MishapsGrow ==
    ASSUME [TelemetryNext]_telemetryVars, "overlap" \notin mishaps'
    PROVE  "overlap" \notin mishaps
  BY DEF TelemetryNext, telemetryVars, Dispatch, ToggleOpen, ToggleWrite, ToggleCrash, TimePasses, Begin, ReadConfig, Asks,
         Peek, LoadState, Noticed, MintOpen, MintWrite, KeepLocal, Caches, StampOpen, StampWrite,
         Send, NoAnswer, Answered, StateFails, Crash, Ingest, Ghosts

LEMMA StepWindow ==
    ASSUME Constants, TelemetryInv, WindowInv, [TelemetryNext]_telemetryVars
    PROVE  WindowInv'
<1>1. SUFFICES ASSUME "overlap" \notin mishaps'
               PROVE  Undisturbed'
  BY DEF WindowInv
<1>2. TelemetryInv' /\ Undisturbed
  BY <1>1, StepInv, MishapsGrow DEF WindowInv
<1>3. ASSUME NEW p \in Senders, Dispatch(p)
      PROVE  Undisturbed'
  BY <1>1, <1>2, <1>3, WindowReadConfig, WindowPeek, WindowLoad, WindowMintOpen,
     WindowMintWrite, WindowCaches, WindowStampOpen, WindowStampWrite, WindowSend, WindowEnds
     DEF Dispatch
<1>4. QED
  BY <1>2, <1>3, WindowBegin, WindowEnds, WindowAround DEF TelemetryNext

LEMMA InitWindow == Constants /\ TelemetryInit => WindowInv
<1> SUFFICES ASSUME Constants, TelemetryInit PROVE Undisturbed
  BY DEF WindowInv
<1>1. \A p \in Senders : sender[p].pc = "idle"
  BY IdleFits DEF TelemetryInit
<1>2. \A p \in Senders : ~Active(sender[p]) /\ ~Looked(sender[p]) /\ ~Committed(sender[p])
  BY <1>1 DEF Active, Looked, Committed
<1>3. Times = {}
  BY <1>1 DEF TelemetryInit, Times
<1>4. OneLooked /\ MintsNothing /\ CommittedClear /\ OpenClear /\ StampLast
  BY <1>1, <1>2, <1>3 DEF OneLooked, MintsNothing, CommittedClear, OpenClear, StampLast, Clear
<1>5. AllSpaced
  BY <1>1 DEF TelemetryInit, AllSpaced
<1>6. QED
  BY <1>4, <1>5 DEF Undisturbed

\* "Strictly <=1 attempt per 23h window" (telemetry/dispatch.ts:71), for any number of
\* processes, hot and cold, and wherever they are killed, as long as none looks at the stamp
\* while another one, begun, has not set it.
THEOREM OncePerWindow == TelemetrySpec => []OneAttemptPerWindow
<1>1. TelemetryInit => WindowInv
  BY TelemetryAssumption, InitWindow
<1>2. TelemetryInv /\ WindowInv /\ [TelemetryNext]_telemetryVars => WindowInv'
  BY TelemetryAssumption, StepWindow
<1>3. WindowInv => OneAttemptPerWindow
  BY DEF WindowInv, Undisturbed, AllSpaced, Spaced, OneAttemptPerWindow
<1>4. QED
  BY <1>1, <1>2, <1>3, TelemetryInvariance, PTL DEF TelemetrySpec

-----------------------------------------------------------------------------
(* The device *)

\* A dispatch that has a state in its hands, which it may write.
Holds(w) == w.pc \in {"mintWrite", "stamp", "stampWrite"}
Names(w, d) == (w.device # None /\ d = w.device) \/ (Holds(w) /\ d = w.held.salt)

\* Every salt that names the installation, wherever it is: in a report, in the hands of a
\* dispatch, in the file.
Devices ==
    {d \in Nat \cup {None} : \/ \E a \in attempts : d = a.report.device
                             \/ \E p \in Senders : Names(sender[p], d)
                             \/ state \notin NoState /\ d = state.salt}
OneName == \A x, y \in Devices : x = y
\* A salt is generated only for want of a file, by one alone, and then there is none anywhere.
Mints(p) == sender[p].pc = "mint"
MintsFirst == \A p \in Senders : Mints(p) => state = None
MintsAlone == \A p, q \in Senders : Mints(p) /\ Mints(q) => p = q
Unnamed == state = None => Devices = {}
OneNamed == OneName /\ MintsFirst /\ MintsAlone /\ Unnamed
DeviceInv == mishaps \cap {"torn", "mints"} = {} => OneNamed

LEMMA NothingNamed == \A d : ~Names(AtRest, d)
  BY IdleFits DEF Names, Holds, AtRest

LEMMA NamesTyped ==
    ASSUME TelemetryInv, NEW p \in Senders, NEW d, Names(sender[p], d) PROVE d \in Nat /\ d \in Devices
<1>1. sender[p] \in Sender /\ Shape(sender[p])
  BY ProcAt
<1>2. CASE sender[p].device # None /\ d = sender[p].device
  BY <1>1, <1>2 DEF Sender, Names, Devices
<1>3. CASE Holds(sender[p]) /\ d = sender[p].held.salt
  BY <1>1, <1>3 DEF Holds, Shape, State, Names, Devices
<1>4. QED
  BY <1>2, <1>3 DEF Names

\* No step but the one that generates a salt brings one in.
LEMMA NoneNew ==
    ASSUME OneNamed,
           \A q \in Senders : \A d : Names(sender'[q], d) => d \in Devices,
           \A a \in attempts' : a.report.device \in Devices,
           state' \notin NoState => state'.salt \in Devices,
           state' = None => state = None,
           \A q \in Senders : Mints(q)' => state' = None,
           MintsAlone'
    PROVE  OneNamed'
<1>1. Devices' \subseteq Devices
  BY DEF Devices
<1>2. QED
  BY <1>1 DEF OneNamed, OneName, MintsFirst, Unnamed

\* One process moves, and leaves the file and the reports as they are.
LEMMA MovesOn ==
    ASSUME TelemetryInv, OneNamed, NEW p \in Senders, NEW v, Goes(p, v), UNCHANGED <<state, attempts>>,
           \A d : Names(v, d) => d \in Devices,
           v.pc = "mint" => state = None /\ \A q \in Senders \ {p} : ~Mints(q)
    PROVE  OneNamed'
<1>1. sender'[p] = v /\ \A q \in Senders : q # p => sender'[q] = sender[q]
  BY MovedOne
<1>2. \A q \in Senders : \A d : Names(sender'[q], d) => d \in Devices
  BY <1>1, NamesTyped
<1>3. \A a \in attempts' : a.report.device \in Devices
  BY DEF Devices, TelemetryInv, TelemetryTypeOK, Message
<1>4. state' \notin NoState => state'.salt \in Devices
  BY DEF Devices, TelemetryInv, TelemetryTypeOK, State
<1>5. MintsAlone' /\ \A q \in Senders : Mints(q)' => state' = None
  BY <1>1 DEF OneNamed, MintsFirst, MintsAlone, Mints
<1>6. QED
  BY <1>2, <1>3, <1>4, <1>5, NoneNew

\* One that has a state in its hands writes it: there is a name, so nobody makes one.
LEMMA Writes ==
    ASSUME TelemetryInv, OneNamed, NEW p \in Senders, NEW v, Goes(p, v), UNCHANGED attempts,
           Devices # {}, v.pc # "mint",
           \A d : Names(v, d) => d \in Devices,
           state' # None,
           state' \notin NoState => state'.salt \in Devices
    PROVE  OneNamed'
<1>1. sender'[p] = v /\ \A q \in Senders : q # p => sender'[q] = sender[q]
  BY MovedOne
<1>2. \A q \in Senders : \A d : Names(sender'[q], d) => d \in Devices
  BY <1>1, NamesTyped
<1>3. \A a \in attempts' : a.report.device \in Devices
  BY DEF Devices, TelemetryInv, TelemetryTypeOK, Message
<1>4. \A q \in Senders : ~Mints(q)'
  BY <1>1 DEF OneNamed, MintsFirst, Unnamed, Mints
<1>5. QED
  BY <1>2, <1>3, <1>4, NoneNew DEF MintsAlone

LEMMA DecidedNames ==
    ASSUME NEW w \in Sender, NEW sent, NEW d, Names(Decided(w, sent), d)
    PROVE  Names(w, d)
<1>1. CASE Decided(w, sent) = AtRest
  BY <1>1, NothingNamed
<1>2. CASE Decided(w, sent) \in {[w EXCEPT !.pc = c] : c \in {"keep", "caches", "stampLoad"}}
  BY <1>2 DEF Names, Holds, Sender
<1>3. QED
  BY <1>1, <1>2 DEF Decided

LEMMA LoadedNames ==
    ASSUME Constants, NEW w \in Sender, Shape(w), NEW found \in State, NEW d,
           w.pc \in {"load", "stampLoad", "mintWrite"}, Names(Loaded(w, found), d)
    PROVE  Names(w, d) \/ d = found.salt
<1>1. CASE w.device # None
  BY <1>1 DEF Loaded, Names, Holds, Sender
<1>2. CASE w.device = None
  <2> DEFINE named == [w EXCEPT !.device = found.salt, !.held = None]
  <2>1. named \in Sender /\ named.device = found.salt /\ named.pc = w.pc /\ named.held = None
    BY DEF Sender, State
  <2>2. CASE w.kind = "look"
    BY <1>2, <2>2, NothingNamed DEF Loaded
  <2>3. CASE w.kind = "hot"
    <3>1. Loaded(w, found) = [named EXCEPT !.pc = "stampLoad"]
      BY <1>2, <2>3 DEF Loaded
    <3>2. QED
      BY <2>1, <3>1 DEF Names, Holds, Sender
  <2>4. CASE w.kind = "cold"
    <3>1. Loaded(w, found) = Decided(named, found.sent)
      BY <1>2, <2>4 DEF Loaded
    <3> HIDE DEF named
    <3>2. CASE Decided(named, found.sent) = AtRest
      BY <3>1, <3>2, NothingNamed
    <3>3. CASE Decided(named, found.sent) \in {[named EXCEPT !.pc = c] : c \in {"keep", "caches", "stampLoad"}}
      BY <2>1, <3>1, <3>3 DEF Names, Holds, Sender
    <3>4. QED
      BY <3>2, <3>3 DEF Decided
  <2>5. QED
    BY <2>2, <2>3, <2>4 DEF Shape
<1>3. QED
  BY <1>1, <1>2

\* The steps that neither look at the file nor write it.
LEMMA DeviceAside ==
    ASSUME TelemetryInv, OneNamed, NEW p \in Senders,
           \/ \E kind \in {"hot", "cold", "look"} : Begin(p, kind)
           \/ ReadConfig(p) \/ \E some \in BOOLEAN : Caches(p, some)
           \/ KeepLocal(p) \/ NoAnswer(p) \/ Answered(p) \/ StateFails(p) \/ Crash(p)
    PROVE  OneNamed'
<1>1. UNCHANGED <<state, attempts>>
  BY DEF Begin, ReadConfig, Asks, Caches, KeepLocal, NoAnswer, Answered, StateFails, Crash, Ghosts
<1>2. PICK v : Goes(p, v) /\ v.pc # "mint" /\ \A d : Names(v, d) => Names(sender[p], d)
  <2>1. CASE KeepLocal(p) \/ NoAnswer(p) \/ Answered(p) \/ StateFails(p) \/ Crash(p)
    BY <2>1, NothingNamed, IdleFits DEF KeepLocal, NoAnswer, Answered, StateFails, Crash
  <2>2. ASSUME NEW kind \in {"hot", "cold", "look"}, Begin(p, kind)
        PROVE  \E v : Goes(p, v) /\ v.pc # "mint" /\ \A d : Names(v, d) => Names(sender[p], d)
    <3> DEFINE v == [AtRest EXCEPT !.pc = "config", !.kind = kind, !.now = clock,
                                 !.id = runs + 1, !.asked = Consents(config)]
    <3>1. Goes(p, v)
      BY <2>2 DEF Begin
    <3>2. v.pc = "config" /\ v.device = None
      BY DEF AtRest
    <3> HIDE DEF v
    <3>3. QED
      BY <3>1, <3>2 DEF Names, Holds
  <2>3. CASE ReadConfig(p)
    <3> DEFINE w == sender[p]
               c == IF w.kind = "hot" THEN "peek" ELSE "load"
    <3>1. w \in Sender
      BY ProcAt
    <3>2. CASE Goes(p, AtRest)
      BY <3>2, NothingNamed, IdleFits
    <3>3. CASE Goes(p, [w EXCEPT !.pc = c])
      <4> HIDE DEF w
      <4>1. [w EXCEPT !.pc = c].pc = c /\ [w EXCEPT !.pc = c].device = w.device /\ c \in {"peek", "load"}
        BY <3>1 DEF Sender
      <4>2. QED
        BY <3>3, <4>1 DEF Names, Holds, w
    <3>4. QED
      BY <2>3, <3>2, <3>3 DEF ReadConfig, Asks
  <2>4. ASSUME NEW some \in BOOLEAN, Caches(p, some)
        PROVE  \E v : Goes(p, v) /\ v.pc # "mint" /\ \A d : Names(v, d) => Names(sender[p], d)
    <3> DEFINE w == sender[p]
    <3>1. w \in Sender
      BY ProcAt
    <3>2. CASE Goes(p, AtRest)
      BY <3>2, NothingNamed, IdleFits
    <3>3. CASE Goes(p, [w EXCEPT !.pc = "load"])
      <4> HIDE DEF w
      <4>1. [w EXCEPT !.pc = "load"].pc = "load" /\ [w EXCEPT !.pc = "load"].device = w.device
        BY <3>1 DEF Sender
      <4>2. QED
        BY <3>3, <4>1 DEF Names, Holds, w
    <3>4. QED
      BY <2>4, <3>2, <3>3 DEF Caches
  <2>5. QED
    BY <2>1, <2>2, <2>3, <2>4
<1>3. QED
  BY <1>1, <1>2, NamesTyped, MovesOn

LEMMA DevicePeek ==
    ASSUME TelemetryInv, OneNamed, NEW p \in Senders, Peek(p) PROVE OneNamed'
<1> DEFINE w == sender[p]
           sent == IF state \in NoState THEN None ELSE state.sent
           v == Decided(w, sent)
<1>1. w \in Sender /\ Shape(w) /\ w.pc = "peek" /\ w.kind = "hot" /\ w.device = None
  BY ProcAt DEF Peek, Shape
<1>2. Goes(p, v) /\ UNCHANGED <<state, attempts>>
  BY DEF Peek
<1> HIDE DEF sent
<1>3. \A d : Names(v, d) => d \in Devices
  BY <1>1, DecidedNames, NamesTyped
<1>4. v.pc # "mint"
  BY <1>1, DecidedFits
<1> HIDE DEF v
<1>5. QED
  BY <1>2, <1>3, <1>4, MovesOn

LEMMA DeviceLoad ==
    ASSUME Constants, TelemetryInv, OneNamed, NEW p \in Senders, LoadState(p),
           mishaps' \cap {"torn", "mints"} = {}
    PROVE  OneNamed'
<1> DEFINE w == sender[p]
<1>1. w \in Sender /\ Shape(w) /\ w.pc \in {"load", "stampLoad"} /\ UNCHANGED <<state, attempts>>
  BY ProcAt DEF LoadState
<1>2. state # Emptied
  BY DEF LoadState, Noticed
<1>3. CASE state \in NoState
  <2> DEFINE v == [w EXCEPT !.pc = "mint"]
  <2>1. Goes(p, v) /\ state = None
    BY <1>2, <1>3 DEF LoadState, NoState
  <2>5. \A q \in Senders \ {p} : ~Mints(q)
    BY <2>1 DEF LoadState, BothMint, Mints
  <2> HIDE DEF w
  <2>2. v.pc = "mint" /\ v.device = w.device
    BY <1>1 DEF Sender
  <2> HIDE DEF v
  <2>3. \A d : Names(v, d) => Names(w, d)
    BY <2>2 DEF Names, Holds
  <2>4. QED
    BY <1>1, <2>1, <2>3, <2>5, NamesTyped, MovesOn DEF w
<1>4. CASE state \notin NoState
  <2> DEFINE v == Loaded(w, state)
  <2>1. Goes(p, v) /\ state \in State
    BY <1>4 DEF LoadState, TelemetryInv, TelemetryTypeOK
  <2>2. state.salt \in Devices
    BY <1>4, <2>1 DEF Devices, State
  <2>3. \A d : Names(v, d) => d \in Devices
    BY <1>1, <2>1, <2>2, LoadedNames, NamesTyped
  <2>4. v.pc # "mint"
    BY <1>1, <2>1, LoadedFits
  <2> HIDE DEF v
  <2>5. QED
    BY <1>1, <2>1, <2>3, <2>4, MovesOn
<1>5. QED
  BY <1>3, <1>4

\* The one salt: there was none.
LEMMA DeviceMintOpen ==
    ASSUME Constants, TelemetryInv, OneNamed, NEW p \in Senders, MintOpen(p)
    PROVE  OneNamed'
<1> DEFINE w == sender[p]
           u == [w EXCEPT !.pc = "mintWrite"]
           v == [u EXCEPT !.held = Fresh(salts + 1)]
<1>1. w \in Sender /\ w.pc = "mint" /\ Mints(p)
  BY ProcAt DEF MintOpen, Mints
<1>2. Goes(p, v) /\ state' = Emptied /\ UNCHANGED attempts
  BY DEF MintOpen, Ghosts
<1>3. Devices = {}
  BY <1>1 DEF OneNamed, MintsFirst, Unnamed
<1> HIDE DEF w
<1>4. v.pc = "mintWrite" /\ v.device = w.device /\ v.held = Fresh(salts + 1)
  BY <1>1 DEF Sender
<1> HIDE DEF v
<1>5. sender'[p] = v /\ \A q \in Senders : q # p => sender'[q] = sender[q]
  BY <1>2, MovedOne
<1>6. \A q \in Senders : \A d : ~Names(sender[q], d)
  BY <1>3, NamesTyped
<1>7. \A d : Names(v, d) => d = salts + 1
  BY <1>4, <1>6 DEF Names, Fresh, w
<1>8. \A a \in attempts : a.report.device \notin Devices => FALSE
  BY DEF Devices, TelemetryInv, TelemetryTypeOK, Message
<1>9. \A d \in Devices' : d = salts + 1
  BY <1>2, <1>3, <1>5, <1>6, <1>7, <1>8 DEF Devices, NoState
<1>10. \A q \in Senders : ~Mints(q)'
  BY <1>1, <1>4, <1>5 DEF OneNamed, MintsAlone, Mints
<1>11. Unnamed'
  BY <1>2 DEF Unnamed, Constants
<1>12. QED
  BY <1>9, <1>10, <1>11 DEF OneNamed, OneName, MintsFirst, MintsAlone

LEMMA DeviceMintWrite ==
    ASSUME Constants, TelemetryInv, OneNamed, NEW p \in Senders, MintWrite(p)
    PROVE  OneNamed'
<1> DEFINE w == sender[p]
           v == Loaded(w, w.held)
<1>1. w \in Sender /\ Shape(w) /\ w.pc = "mintWrite" /\ w.held \in State
  BY ProcAt DEF MintWrite, Shape
<1>2. Goes(p, v) /\ state' = w.held /\ UNCHANGED attempts
  BY DEF MintWrite, Ghosts
<1>3. w.held.salt \in Devices
  BY <1>1, NamesTyped DEF Names, Holds
<1>4. \A d : Names(v, d) => d \in Devices
  BY <1>1, <1>3, LoadedNames, NamesTyped
<1>5. v.pc # "mint"
  BY <1>1, LoadedFits
<1> HIDE DEF v
<1>6. state' \notin NoState
  BY <1>1, <1>2 DEF Constants
<1>7. QED
  BY <1>2, <1>3, <1>4, <1>5, <1>6, Writes DEF NoState

LEMMA DeviceStamp ==
    ASSUME Constants, TelemetryInv, OneNamed, NEW p \in Senders, StampOpen(p) \/ StampWrite(p)
    PROVE  OneNamed'
<1> DEFINE w == sender[p]
<1>1. w \in Sender /\ Shape(w) /\ w.pc \in {"stamp", "stampWrite"} /\ w.held \in State /\ UNCHANGED attempts
  BY ProcAt DEF StampOpen, StampWrite, Shape, Ghosts
<1>3. w.held.salt \in Devices
  BY <1>1, NamesTyped DEF Names, Holds
<1>4. CASE StampOpen(p)
  <2> DEFINE v == [w EXCEPT !.pc = "stampWrite"]
  <2>1. Goes(p, v) /\ state' = Emptied /\ w.pc = "stamp"
    BY <1>4 DEF StampOpen
  <2> HIDE DEF w
  <2>2. v.pc = "stampWrite" /\ v.device = w.device /\ v.held = w.held
    BY <1>1 DEF Sender
  <2> HIDE DEF v
  <2>3. \A d : Names(v, d) => Names(w, d)
    BY <2>1, <2>2 DEF Names, Holds
  <2>4. state' # None /\ state' \in NoState
    BY <2>1 DEF Constants, NoState
  <2>5. QED
    BY <1>1, <1>3, <2>1, <2>2, <2>3, <2>4, NamesTyped, Writes DEF w
<1>5. CASE StampWrite(p)
  <2> DEFINE u == [w EXCEPT !.pc = "send"]
             v == [u EXCEPT !.held = None]
             s == [w.held EXCEPT !.sent = w.now]
  <2>1. Goes(p, v) /\ state' = s
    BY <1>5 DEF StampWrite
  <2> HIDE DEF w
  <2>2. v.pc = "send" /\ v.device = w.device
    BY <1>1 DEF Sender
  <2>3. s \in State /\ s.salt = w.held.salt
    BY <1>1 DEF State, Sender
  <2> HIDE DEF v, s
  <2>4. \A d : Names(v, d) => Names(w, d)
    BY <2>2 DEF Names, Holds
  <2>5. state' \notin NoState
    BY <2>1, <2>3 DEF Constants
  <2>6. QED
    BY <1>1, <1>3, <2>1, <2>2, <2>3, <2>4, <2>5, NamesTyped, Writes DEF w, NoState
<1>6. QED
  BY <1>4, <1>5

LEMMA DeviceSend ==
    ASSUME Constants, TelemetryInv, OneNamed, NEW p \in Senders, Send(p) PROVE OneNamed'
<1> DEFINE w == sender[p]
           report == [id |-> w.id, device |-> w.device, at |-> w.now]
           u == [AtRest EXCEPT !.pc = "answer", !.kind = "cold", !.id = w.id]
           v == IF w.kind = "hot" THEN AtRest ELSE u
<1>1. w \in Sender /\ Shape(w) /\ w.pc = "send" /\ w.device \in Nat /\ w.device # None
  BY ProcAt DEF Send, Shape, Constants
<1>2. Goes(p, v) /\ attempts' = attempts \cup {[report |-> report, asked |-> w.asked]} /\ state' = state
  BY DEF Send
<1>3. w.device \in Devices
  BY <1>1, NamesTyped DEF Names
<1>4. \A a \in attempts' : a.report.device \in Devices
  BY <1>2, <1>3 DEF Devices, TelemetryInv, TelemetryTypeOK, Message
<1>5. v.pc # "mint" /\ v.device = None /\ ~Holds(v)
  BY DEF AtRest, Holds
<1> HIDE DEF v
<1>6. \A d : ~Names(v, d)
  BY <1>5 DEF Names
<1>7. sender'[p] = v /\ \A q \in Senders : q # p => sender'[q] = sender[q]
  BY <1>2, MovedOne
<1>8. \A q \in Senders : \A d : Names(sender'[q], d) => d \in Devices
  BY <1>6, <1>7, NamesTyped
<1>9. state' \notin NoState => state'.salt \in Devices
  BY <1>2 DEF Devices, TelemetryInv, TelemetryTypeOK, State
<1>10. MintsAlone' /\ \A q \in Senders : Mints(q)' => state' = None
  BY <1>2, <1>5, <1>7 DEF OneNamed, MintsFirst, MintsAlone, Mints
<1>11. QED
  BY <1>2, <1>4, <1>8, <1>9, <1>10, NoneNew

LEMMA DeviceAround ==
    ASSUME TelemetryInv, OneNamed,
           \/ UNCHANGED telemetryVars
           \/ TimePasses \/ ToggleWrite \/ ToggleCrash \/ \E to \in {"on", "off"} : ToggleOpen(to)
           \/ \E a \in attempts, heard \in BOOLEAN : Ingest(a.report, heard)
    PROVE  OneNamed'
<1>1. UNCHANGED <<state, attempts>>
  BY DEF telemetryVars, TimePasses, ToggleWrite, ToggleCrash, ToggleOpen, Ingest, Ghosts
<1>2. \A q \in Senders : /\ sender'[q].pc = sender[q].pc /\ sender'[q].device = sender[q].device
                         /\ sender'[q].held = sender[q].held
  <2>1. CASE sender' = sender
    BY <2>1
  <2>2. CASE ToggleWrite
    BY <2>2 DEF ToggleWrite, TelemetryInv, TelemetryTypeOK, Sender
  <2>3. ASSUME NEW a \in attempts, NEW heard \in BOOLEAN, Ingest(a.report, heard)
        PROVE  \A q \in Senders : /\ sender'[q].pc = sender[q].pc /\ sender'[q].device = sender[q].device
                                  /\ sender'[q].held = sender[q].held
    BY <2>3 DEF Ingest, TelemetryInv, TelemetryTypeOK, Sender
  <2>4. QED
    BY <2>1, <2>2, <2>3 DEF telemetryVars, TimePasses, ToggleCrash, ToggleOpen
<1>3. \A q \in Senders : \A d : Names(sender'[q], d) => Names(sender[q], d)
  BY <1>2 DEF Names, Holds
<1>4. \A a \in attempts' : a.report.device \in Devices
  BY <1>1 DEF Devices, TelemetryInv, TelemetryTypeOK, Message
<1>5. state' \notin NoState => state'.salt \in Devices
  BY <1>1 DEF Devices, TelemetryInv, TelemetryTypeOK, State
<1>6. MintsAlone' /\ \A q \in Senders : Mints(q)' => state' = None
  BY <1>1, <1>2 DEF OneNamed, MintsFirst, MintsAlone, Mints
<1>7. QED
  BY <1>1, <1>3, <1>4, <1>5, <1>6, NamesTyped, NoneNew

LEMMA MishapsStay ==
    ASSUME [TelemetryNext]_telemetryVars PROVE mishaps \subseteq mishaps'
  BY DEF TelemetryNext, telemetryVars, Dispatch, ToggleOpen, ToggleWrite, ToggleCrash, TimePasses, Begin, ReadConfig, Asks,
         Peek, LoadState, Noticed, MintOpen, MintWrite, KeepLocal, Caches, StampOpen, StampWrite,
         Send, NoAnswer, Answered, StateFails, Crash, Ingest, Ghosts

LEMMA StepDevice ==
    ASSUME Constants, TelemetryInv, DeviceInv, [TelemetryNext]_telemetryVars
    PROVE  DeviceInv'
<1>1. SUFFICES ASSUME mishaps' \cap {"torn", "mints"} = {}
               PROVE  OneNamed'
  BY DEF DeviceInv
<1>2. OneNamed
  BY <1>1, MishapsStay DEF DeviceInv
<1>3. ASSUME NEW p \in Senders, Dispatch(p)
      PROVE  OneNamed'
  BY <1>1, <1>2, <1>3, DeviceAside, DevicePeek, DeviceLoad, DeviceMintOpen, DeviceMintWrite,
     DeviceStamp, DeviceSend DEF Dispatch
<1>4. QED
  BY <1>2, <1>3, DeviceAside, DeviceAround DEF TelemetryNext

LEMMA InitDevice == Constants /\ TelemetryInit => DeviceInv
<1> SUFFICES ASSUME Constants, TelemetryInit PROVE OneNamed
  BY DEF DeviceInv
<1>1. \A p \in Senders : sender[p] = AtRest
  BY DEF TelemetryInit
<1>2. Devices = {}
  BY <1>1, NothingNamed DEF TelemetryInit, Devices
<1>3. QED
  BY <1>1, <1>2, IdleFits DEF OneNamed, OneName, MintsFirst, MintsAlone, Mints, Unnamed

\* The salt is generated once (telemetry/state.ts): for any number of processes, killed
\* anywhere and overlapping as they like, all reports of an installation name the same device.
\* It says nothing of an installation where somebody found the file half-written, nor of one
\* where two dispatches were about to make the file at once.
THEOREM SameDevice == TelemetrySpec => []OneDevice
<1>1. TelemetryInit => DeviceInv
  BY TelemetryAssumption, InitDevice
<1>2. TelemetryInv /\ DeviceInv /\ [TelemetryNext]_telemetryVars => DeviceInv'
  BY TelemetryAssumption, StepDevice
<1>3. TelemetryInv /\ DeviceInv => OneDevice
  <2> SUFFICES ASSUME TelemetryInv, OneNamed, NEW a \in attempts, NEW b \in attempts
               PROVE  a.report.device = b.report.device
    BY DEF DeviceInv, OneDevice
  <2>1. a.report.device \in Devices /\ b.report.device \in Devices
    BY DEF Devices, TelemetryInv, TelemetryTypeOK, Message
  <2>2. QED
    BY <2>1 DEF OneNamed, OneName
<1>4. QED
  BY <1>1, <1>2, <1>3, TelemetryInvariance, PTL DEF TelemetrySpec

=============================================================================
