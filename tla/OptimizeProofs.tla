--------------------------- MODULE OptimizeProofs ---------------------------
(***************************************************************************)
(* Proofs about Optimize, for any number of commands, files and edits:     *)
(* what an apply has overwritten is in its backup set, a key of the user   *)
(* is not replaced, and a restore that ends has given back what the last   *)
(* apply found.                                                            *)
(*                                                                         *)
(* The copy of a file and its write are three steps of one command, which  *)
(* others run beside and which may be killed in between.  The set a copy   *)
(* goes into is named for a time that no other command has, so nothing but *)
(* the command itself can spoil it (Recorded, Ahead); for the restore it   *)
(* matters besides who was at work since (Alone) and that the files the    *)
(* apply has not come to are as it found them (Found).                     *)
(***************************************************************************)
EXTENDS Optimize, TLAPS, WellFoundedInduction

Working == {"copy", "list", "sidecar", "write"}
Acting(w) == w.pc # "idle" /\ w.job # "restore"

\* What the place of a command says of what it holds.
Shape(w) ==
    /\ w.pc = "idle" => w = Idle
    /\ w.pc # "idle" => w.job \in {"apply", "backup", "restore"}
    /\ w.pc \in Working => w.job # "restore" /\ w.file \in Files /\ w.file \notin w.todo
    /\ w.pc \in {"sidecar", "write"} => w.job = "apply"
    /\ w.pc \in {"copy", "list"} => w.orig # None
    /\ Acting(w) => w.ts \in 1 .. runs
    /\ w.todo # {} => w.ts \in Times

\* What it has written down, and what it has not touched yet.
Recorded(w) ==
    /\ w.pc = "list" => saved[w.ts][w.file] = w.orig
    /\ w.pc \in {"sidecar", "write"} /\ w.orig # None =>
           w.file \in listed[w.ts] /\ saved[w.ts][w.file] = w.orig
Ahead(w) ==
    /\ Acting(w) => \A f \in w.todo : author[f] # w.ts
    /\ w.pc \in Working => author[w.file] # w.ts

Shaped == \A p \in Procs : Shape(proc[p])
Written == \A p \in Procs : Recorded(proc[p]) /\ Ahead(proc[p])
OwnTimes == \A p, q \in Procs :
                p # q /\ Acting(proc[p]) /\ Acting(proc[q]) => proc[p].ts # proc[q].ts
Past == runs <= MaxRuns /\ \A f \in Files : author[f] <= runs

IInv == TypeOK /\ Shaped /\ Written /\ OwnTimes /\ Past /\ Reversible

\* A context file is planned, and found, without the key.
Bare(c) == c # None /\ c.key = "absent"
KeysFound(found) == \A f \in Files \ {Settings} : found[f] = None \/ Bare(found[f])
Keyed(w) == w.job = "apply" =>
                /\ \A f \in w.todo \ {Settings} : Bare(w.plan[f])
                /\ w.pc \in Working /\ w.file # Settings => Bare(w.orig)
KeyInv == (bucket # None => KeysFound(bucket)) /\ \A p \in Procs : Keyed(proc[p])

\* Nobody but one command is at work, and no --backup nor an apply from before.
Alone == /\ \A p, q \in Procs : proc[p].pc # "idle" /\ proc[q].pc # "idle" => p = q
         /\ \A p \in Procs : proc[p].job # "backup"
         /\ \A p \in Procs : proc[p].job = "apply" => base.ts <= proc[p].ts
\* Before it leaves a trace the set of an apply is empty, and so are those of the future.
Unmade(t) == saved[t] = Nothing /\ listed[t] = {}
Traces ==
    /\ \A t \in Times : t > runs => Unmade(t)
    /\ \A p \in Procs : proc[p].job = "apply" /\ base.ts < proc[p].ts =>
           Unmade(proc[p].ts) /\ proc[p].pc \notin {"list", "write"}
    /\ base.ts <= runs

\* The last apply that left a trace is the one a restore would go back to.
AtWork(p) == proc[p].job = "apply" /\ proc[p].ts = base.ts
Live == /\ base.calm /\ base.ts \in Times
        /\ \A t \in Times : saved[t] # Nothing => t <= base.ts
        /\ saved[base.ts] # Nothing \/ \E p \in Procs : AtWork(p)
Kept(f) == f \in listed[base.ts] /\ saved[base.ts][f] = base.doc[f]
Found ==
    /\ \A f \in Files : base.doc[f] = None \/ doc[f] = base.doc[f] \/ Kept(f)
    /\ \A f \in listed[base.ts] : base.doc[f] = None \/ Kept(f)
    /\ \A p \in Procs : AtWork(p) =>
           /\ \A f \in proc[p].todo : doc[f] = base.doc[f] /\ proc[p].plan[f] = base.doc[f]
           /\ proc[p].pc \in Working => doc[proc[p].file] = base.doc[proc[p].file]
                                        /\ proc[p].orig = base.doc[proc[p].file]
    /\ \A p \in Procs : proc[p].job = "restore" =>
           /\ proc[p].ts = base.ts /\ proc[p].todo \subseteq listed[base.ts]
           /\ \A f \in Files \ proc[p].todo : base.doc[f] = None \/ doc[f] = base.doc[f]
BackInv == Traces /\ (base.calm => Alone) /\ (Live => Found)

-----------------------------------------------------------------------------
(* Types *)

LEMMA Moved ==
    ASSUME TypeOK, NEW p \in Procs, NEW v \in Proc, Goes(p, v)
    PROVE  /\ proc' \in [Procs -> Proc] /\ proc'[p] = v
           /\ \A q \in Procs : q # p => proc'[q] = proc[q]
  BY DEF Goes, TypeOK

LEMMA IdleTyped == Idle \in Proc /\ Idle.pc = "idle" /\ Idle.job = None /\ Idle.todo = {}
  BY DEF Idle, Proc, File, Nothing

LEMMA ProcAt ==
    ASSUME TypeOK, NEW p \in Procs
    PROVE  proc[p] \in Proc
  BY DEF TypeOK

\* Among the sets made so far one is the latest.
LEMMA HasMax ==
    ASSUME NEW n \in Nat, NEW S \in SUBSET (1 .. n), S # {}
    PROVE  \E t \in S : \A u \in S : u <= t
<1> DEFINE T == {n - s : s \in S}
           R == OpToRel(<, Nat)
<1>1. \A x, y \in Nat : x < y => <<x, y>> \in R
  BY DEF OpToRel
<1>2. IsWellFoundedOn(R, Nat)
  BY NatLessThanWellFounded
<1> HIDE DEF R
<1>3. T \subseteq Nat /\ T # {}
  <2>1. \A s \in S : s \in Nat /\ s <= n
    OBVIOUS
  <2>2. \A s \in S : n - s \in Nat
    BY <2>1
  <2>3. QED
    BY <2>2
<1>4. \A s \in S : n - s \in T
  OBVIOUS
<1>5. \A m \in T : \E s \in S : m = n - s
  OBVIOUS
<1> HIDE DEF T
<1>6. PICK m \in T : \A y \in T : <<y, m>> \notin R
  BY <1>2, <1>3, WFMin
<1>7. PICK s \in S : m = n - s
  BY <1>5
<1>8. ASSUME NEW u \in S
      PROVE  u <= s
  <2>1. ~(n - u < m)
    BY <1>1, <1>3, <1>4, <1>6
  <2>2. u \in Nat /\ s \in Nat
    OBVIOUS
  <2>3. QED
    BY <1>7, <2>1, <2>2
<1>9. QED
  BY <1>8

LEMMA LatestSet ==
    ASSUME Sets # {}
    PROVE  Latest \in Times /\ saved[Latest] # Nothing /\ \A t \in Sets : t <= Latest
<1>1. \E t \in Sets : \A u \in Sets : u <= t
  BY HasMax, BoundsAssumption DEF Sets, Times
<1>2. QED
  BY <1>1 DEF Latest, Sets

LEMMA EntriesTyped ==
    ASSUME TypeOK
    PROVE  /\ Entries.ts \in Nat /\ Entries.files \subseteq Files
           /\ Entries.files # {} => Entries.ts \in Times
<1>1. CASE Sets = {}
  BY <1>1 DEF Entries
<1>2. CASE Sets # {}
  <2>1. Latest \in Times
    BY <1>2, LatestSet
  <2>2. Entries = [ts |-> Latest, files |-> listed[Latest]]
    BY <1>2 DEF Entries
  <2>3. Latest \in Nat /\ listed[Latest] \subseteq Files
    BY <2>1, BoundsAssumption DEF TypeOK, Times
  <2>4. QED
    BY <2>1, <2>2, <2>3
<1>3. QED
  BY <1>1, <1>2

LEMMA SetKeyTyped == ASSUME NEW c \in Content PROVE SetKey(c) \in Content
  BY DEF SetKey, Content

LEMMA FindingsTyped == ASSUME TypeOK PROVE Findings \in [Files -> File]
  BY DEF TypeOK, Findings, File

LEMMA TouchTyped ==
    ASSUME TypeOK, NEW w \in Proc, Touch(w)
    PROVE  base' \in [ts : Nat, doc : [Files -> File], calm : BOOLEAN]
<1> DEFINE b == /\ \A q \in Procs : proc[q] = w \/ proc[q] = Idle
                /\ \A f \in w.todo \cup {w.file} :
                       doc[f] = IF f = w.file THEN w.orig ELSE w.plan[f]
<1>1. \/ base' = base \/ base' = [base EXCEPT !.calm = FALSE]
      \/ base' = [ts |-> w.ts, doc |-> doc, calm |-> b]
  BY DEF Touch
<1>2. b \in BOOLEAN
  OBVIOUS
<1> HIDE DEF b
<1>3. w.ts \in Nat /\ doc \in [Files -> File]
  BY DEF TypeOK, Proc
<1>4. CASE base' = [ts |-> w.ts, doc |-> doc, calm |-> b]
  BY <1>2, <1>3, <1>4
<1>5. CASE base' = base \/ base' = [base EXCEPT !.calm = FALSE]
  BY <1>5 DEF TypeOK
<1>6. QED
  BY <1>1, <1>4, <1>5

\* Beginning sets nothing but the last field of base.
LEMMA CalmTyped ==
    ASSUME TypeOK, Disturbed \/ StaysCalm
    PROVE  base' \in [ts : Nat, doc : [Files -> File], calm : BOOLEAN]
  BY DEF Disturbed, StaysCalm, TypeOK

LEMMA UserTyped ==
    ASSUME TypeOK, NEW f \in Files, NEW c \in File, UserWrites(f, c)
    PROVE  TypeOK'
<1>1. base' \in [ts : Nat, doc : [Files -> File], calm : BOOLEAN]
  BY CalmTyped DEF UserWrites
<1>2. doc' \in [Files -> File] /\ author' \in [Files -> Nat] /\ raced' \subseteq Files /\ edits' \in Nat
  BY DEF UserWrites, TypeOK
<1>3. QED
  BY <1>1, <1>2 DEF UserWrites, Backups, TypeOK

LEMMA ApplyTyped ==
    ASSUME TypeOK, NEW p \in Procs, ApplyBegin(p)
    PROVE  TypeOK'
<1> DEFINE found == IF bucket = None THEN Findings ELSE bucket
           todo == {f \in Files : Planned(f, found)}
           plan == [f \in Files |-> IF f \in todo THEN doc[f] ELSE None]
           v == [Idle EXCEPT !.pc = "next", !.job = "apply", !.ts = runs + 1, !.todo = todo,
                             !.plan = plan]
<1>1. found \in [Files -> File]
  BY FindingsTyped DEF TypeOK
<1>2. bucket' = found /\ Goes(p, v) /\ runs' = runs + 1 /\ StaysCalm
  BY DEF ApplyBegin
<1>3. todo \subseteq Files /\ plan \in [Files -> File] /\ runs + 1 \in Nat
  BY DEF TypeOK, File
<1>4. v \in Proc
  <2> HIDE DEF todo, plan
  <2>1. QED
    BY <1>3, IdleTyped DEF Proc
<1> HIDE DEF v, found
<1>5. proc' \in [Procs -> Proc]
  BY <1>2, <1>4, Moved
<1>6. base' \in [ts : Nat, doc : [Files -> File], calm : BOOLEAN]
  BY <1>2, CalmTyped
<1>7. QED
  BY <1>1, <1>2, <1>5, <1>6 DEF ApplyBegin, Backups, Ghosts, TypeOK

LEMMA BackupTyped ==
    ASSUME TypeOK, NEW p \in Procs, NEW files \in SUBSET Files, BackupBegin(p, files)
    PROVE  TypeOK'
<1> DEFINE v == [Idle EXCEPT !.pc = "next", !.job = "backup", !.ts = runs + 1, !.todo = files]
<1>1. v \in Proc
  <2>1. runs + 1 \in Nat
    BY DEF TypeOK
  <2>2. QED
    BY <2>1, IdleTyped DEF Proc
<1>2. Goes(p, v) /\ runs' = runs + 1 /\ Disturbed
  BY DEF BackupBegin
<1> HIDE DEF v
<1>3. proc' \in [Procs -> Proc]
  BY <1>1, <1>2, Moved
<1>4. base' \in [ts : Nat, doc : [Files -> File], calm : BOOLEAN]
  BY <1>2, CalmTyped
<1>5. QED
  BY <1>2, <1>3, <1>4 DEF BackupBegin, Backups, Ghosts, TypeOK

LEMMA RestoreTyped ==
    ASSUME TypeOK, NEW p \in Procs, RestoreBegin(p)
    PROVE  TypeOK'
<1> DEFINE v == [Idle EXCEPT !.pc = "next", !.job = "restore", !.ts = Entries.ts,
                             !.todo = Entries.files]
<1>1. v \in Proc
  BY IdleTyped, EntriesTyped DEF Proc
<1>2. Goes(p, v) /\ StaysCalm
  BY DEF RestoreBegin
<1> HIDE DEF v
<1>3. proc' \in [Procs -> Proc]
  BY <1>1, <1>2, Moved
<1>4. base' \in [ts : Nat, doc : [Files -> File], calm : BOOLEAN]
  BY <1>2, CalmTyped
<1>5. QED
  BY <1>3, <1>4 DEF RestoreBegin, Backups, Ghosts, TypeOK

\* What a command is after a step that takes the next file.
Taken(w, f, orig) ==
    [w EXCEPT !.todo = @ \ {f}, !.file = f, !.orig = orig,
              !.pc = IF orig = None THEN "sidecar" ELSE "copy"]
LEMMA NextFile ==
    ASSUME TypeOK, NEW p \in Procs, NEW f \in Files, TakeNext(p, f)
    PROVE  LET w == proc[p]
               orig == IF w.job = "backup" \/ f = Settings THEN doc[f] ELSE w.plan[f]
               v == IF Skipped(p, f) THEN [w EXCEPT !.todo = @ \ {f}] ELSE Taken(w, f, orig)
           IN  orig \in File /\ v \in Proc /\ Goes(p, v)
<1> DEFINE w == proc[p]
           orig == IF w.job = "backup" \/ f = Settings THEN doc[f] ELSE w.plan[f]
           v == IF Skipped(p, f) THEN [w EXCEPT !.todo = @ \ {f}] ELSE Taken(w, f, orig)
<1>1. w \in Proc
  BY ProcAt
<1>2. orig \in File
  BY <1>1 DEF TypeOK, Proc
<1>3. Goes(p, v)
  BY DEF TakeNext, Taken
<1> HIDE DEF w, orig
<1>4. v \in Proc
  BY <1>1, <1>2 DEF Proc, Taken
<1>5. QED
  BY <1>2, <1>3, <1>4 DEF w, orig

LEMMA AfterListTyped ==
    ASSUME NEW w \in Proc
    PROVE  LET v == AfterList(w) IN
           /\ v \in Proc /\ v.job = w.job /\ v.ts = w.ts /\ v.todo = w.todo /\ v.plan = w.plan
           /\ w.job = "backup" => v.pc = "next" /\ v.file = None /\ v.orig = None
           /\ w.job # "backup" => /\ v.pc = IF w.file = Settings THEN "sidecar" ELSE "write"
                                 /\ v.file = w.file /\ v.orig = w.orig
  BY DEF AfterList, Proc, File

LEMMA AtFile ==
    ASSUME IInv, NEW p \in Procs, proc[p].pc \in Working
    PROVE  /\ proc[p] \in Proc /\ Shape(proc[p]) /\ Recorded(proc[p]) /\ Ahead(proc[p])
           /\ proc[p].file \in Files /\ proc[p].ts \in Times /\ proc[p].orig \in File
           /\ proc[p].ts # 0 /\ Acting(proc[p])
<1>1. proc[p] \in Proc /\ Shape(proc[p]) /\ Recorded(proc[p]) /\ Ahead(proc[p])
  BY ProcAt DEF IInv, Shaped, Written
<1>2. Acting(proc[p])
  BY <1>1 DEF Shape, Acting, Working
<1>3. proc[p].ts \in 1 .. runs /\ runs \in Nat /\ runs <= MaxRuns
  BY <1>1, <1>2 DEF Shape, IInv, TypeOK, Past
<1>4. proc[p].ts \in Times /\ proc[p].ts # 0
  BY <1>3, BoundsAssumption DEF Times
<1>5. QED
  BY <1>1, <1>2, <1>4 DEF Shape, Proc

LEMMA SavedTyped ==
    ASSUME TypeOK, NEW t \in Times, NEW f \in Files, NEW c \in File,
           saved' = [saved EXCEPT ![t] = [@ EXCEPT ![f] = c]]
    PROVE  /\ saved' \in [Times -> [Files -> File]] /\ saved'[t][f] = c
           /\ \A u \in Times, g \in Files : u # t \/ g # f => saved'[u][g] = saved[u][g]
           /\ \A u \in Times : u # t => saved'[u] = saved[u]
<1>1. saved \in [Times -> [Files -> File]]
  BY DEF TypeOK
<1>2. [saved[t] EXCEPT ![f] = c] \in [Files -> File]
  BY <1>1
<1>3. QED
  BY <1>1, <1>2

LEMMA CopyTyped ==
    ASSUME IInv, NEW p \in Procs, Copy(p)
    PROVE  TypeOK'
<1> DEFINE w == proc[p]
           v == [w EXCEPT !.pc = "list"]
<1>1. w \in Proc /\ w.file \in Files /\ w.ts \in Times /\ w.orig \in File
  BY AtFile DEF Copy, Working
<1>2. Goes(p, v) /\ Touch(w) /\ saved' = [saved EXCEPT ![w.ts] = [@ EXCEPT ![w.file] = w.orig]]
  BY DEF Copy
<1> HIDE DEF w
<1>3. v \in Proc
  BY <1>1 DEF Proc
<1> HIDE DEF v
<1>4. proc' \in [Procs -> Proc] /\ base' \in [ts : Nat, doc : [Files -> File], calm : BOOLEAN]
  BY <1>1, <1>2, <1>3, Moved, TouchTyped DEF IInv
<1>5. saved' \in [Times -> [Files -> File]]
  BY <1>1, <1>2, SavedTyped DEF IInv
<1>6. QED
  BY <1>4, <1>5 DEF Copy, Ghosts, IInv, TypeOK

LEMMA ListTyped ==
    ASSUME IInv, NEW p \in Procs, List(p)
    PROVE  TypeOK'
<1> DEFINE w == proc[p]
           v == AfterList(w)
<1>1. w \in Proc /\ w.file \in Files /\ w.ts \in Times
  BY AtFile DEF List, Working
<1>2. Goes(p, v) /\ listed' = [listed EXCEPT ![w.ts] = @ \cup {w.file}]
  BY DEF List
<1>3. v \in Proc
  BY <1>1, AfterListTyped
<1> HIDE DEF w, v
<1>4. proc' \in [Procs -> Proc]
  BY <1>2, <1>3, Moved DEF IInv
<1>5. listed' \in [Times -> SUBSET Files]
  BY <1>1, <1>2 DEF IInv, TypeOK
<1>6. QED
  BY <1>4, <1>5 DEF List, Ghosts, IInv, TypeOK

LEMMA SidecarTyped ==
    ASSUME IInv, NEW p \in Procs, Sidecar(p)
    PROVE  TypeOK'
<1> DEFINE w == proc[p]
           v == [w EXCEPT !.pc = "write"]
<1>1. w \in Proc /\ w.orig \in File
  BY AtFile DEF Sidecar, Working
<1>2. Goes(p, v) /\ Touch(w) /\ sidecar' = w.orig
  BY DEF Sidecar
<1> HIDE DEF w
<1>3. v \in Proc
  BY <1>1 DEF Proc
<1> HIDE DEF v
<1>4. proc' \in [Procs -> Proc] /\ base' \in [ts : Nat, doc : [Files -> File], calm : BOOLEAN]
  BY <1>1, <1>2, <1>3, Moved, TouchTyped DEF IInv
<1>5. QED
  BY <1>1, <1>2, <1>4 DEF Sidecar, Ghosts, IInv, TypeOK

LEMMA WriteTyped ==
    ASSUME IInv, NEW p \in Procs, Write(p)
    PROVE  TypeOK'
<1> DEFINE w == proc[p]
           v == [w EXCEPT !.pc = "next", !.file = None, !.orig = None]
           c == IF w.orig = None THEN Created ELSE SetKey(w.orig)
<1>1. w \in Proc /\ w.file \in Files /\ w.ts \in Times /\ w.orig \in File
  BY AtFile DEF Write, Working
<1>2. /\ Goes(p, v) /\ doc' = [doc EXCEPT ![w.file] = c]
      /\ author' = [author EXCEPT ![w.file] = w.ts]
      /\ before' = [before EXCEPT ![w.file] = doc[w.file]]
      /\ raced' = raced \ {w.file} \/ raced' = raced \cup {w.file}
  BY DEF Write
<1> HIDE DEF w
<1>3. v \in Proc
  BY <1>1 DEF Proc, File
<1> HIDE DEF v
<1>4. c \in Content
  BY <1>1, SetKeyTyped, BoundsAssumption DEF Created, Content, File
<1> HIDE DEF c
<1>5. proc' \in [Procs -> Proc]
  BY <1>1, <1>2, <1>3, Moved DEF IInv
<1>6. doc' \in [Files -> File] /\ before' \in [Files -> File] /\ raced' \subseteq Files
  BY <1>1, <1>2, <1>4 DEF IInv, TypeOK, File
<1>7. author' \in [Files -> Nat]
  BY <1>1, <1>2, BoundsAssumption DEF IInv, TypeOK, Times
<1>8. QED
  BY <1>5, <1>6, <1>7 DEF Write, Backups, IInv, TypeOK

LEMMA RestoreOneTyped ==
    ASSUME IInv, NEW p \in Procs, NEW f \in Files, RestoreOne(p, f)
    PROVE  TypeOK'
<1> DEFINE w == proc[p]
           v == [w EXCEPT !.todo = @ \ {f}]
<1>1. w \in Proc /\ w.ts \in Times
  BY ProcAt DEF RestoreOne, IInv, Shaped, Shape
<1>2. Goes(p, v) /\ doc' = [doc EXCEPT ![f] = saved[w.ts][f]]
  BY DEF RestoreOne
<1> HIDE DEF w
<1>3. v \in Proc
  BY <1>1 DEF Proc
<1> HIDE DEF v
<1>4. proc' \in [Procs -> Proc]
  BY <1>2, <1>3, Moved DEF IInv
<1>5. doc' \in [Files -> File]
  BY <1>1, <1>2 DEF IInv, TypeOK
<1>6. author' \in [Files -> Nat] /\ raced' \subseteq Files
  BY DEF RestoreOne, IInv, TypeOK
<1>7. QED
  BY <1>4, <1>5, <1>6 DEF RestoreOne, Backups, IInv, TypeOK

LEMMA StepTyped ==
    ASSUME IInv, [Next]_vars
    PROVE  TypeOK'
<1>1. CASE UNCHANGED vars
  BY <1>1 DEF IInv, TypeOK, vars
<1>2. ASSUME NEW f \in Files, NEW c \in Content, UserWrites(f, c)
      PROVE  TypeOK'
  BY <1>2, UserTyped DEF File, IInv
<1>3. CASE UserWrites(Settings, None)
  BY <1>3, UserTyped, BoundsAssumption DEF File, IInv
<1>4. CASE Inspect
  BY <1>4, FindingsTyped DEF Inspect, Backups, Ghosts, IInv, TypeOK
<1>5. ASSUME NEW p \in Procs, ApplyBegin(p) \/ RestoreBegin(p)
      PROVE  TypeOK'
  BY <1>5, ApplyTyped, RestoreTyped DEF IInv
<1>6. ASSUME NEW p \in Procs, NEW files \in SUBSET Files, BackupBegin(p, files)
      PROVE  TypeOK'
  BY <1>6, BackupTyped DEF IInv
<1>7. ASSUME NEW p \in Procs, NEW f \in Files, TakeNext(p, f)
      PROVE  TypeOK'
  <2>1. proc' \in [Procs -> Proc]
    BY <1>7, NextFile, Moved DEF IInv
  <2>2. QED
    BY <1>7, <2>1 DEF TakeNext, Backups, Ghosts, IInv, TypeOK
<1>8. ASSUME NEW p \in Procs, Done(p) \/ Crash(p)
      PROVE  TypeOK'
  <2>1. proc' \in [Procs -> Proc]
    BY <1>8, IdleTyped, Moved DEF Done, Crash, IInv
  <2>2. QED
    BY <1>8, <2>1 DEF Done, Crash, Backups, Ghosts, IInv, TypeOK
<1>9. QED
  BY <1>1, <1>2, <1>3, <1>4, <1>5, <1>6, <1>7, <1>8, CopyTyped, ListTyped, SidecarTyped,
     WriteTyped, RestoreOneTyped DEF Next

-----------------------------------------------------------------------------
(* Backups *)

\* What a command may become by itself.
Fits(v, w) ==
    /\ Shape(v) /\ Recorded(v) /\ Ahead(v)
    /\ Acting(v) => Acting(w) /\ v.ts = w.ts

LEMMA WorkingActs ==
    ASSUME NEW w, Shape(w), w.pc \in Working
    PROVE  Acting(w)
  BY DEF Shape, Acting, Working

\* Steps that make no copy and write nothing in the name of an apply.
LEMMA Quiet ==
    ASSUME IInv, TypeOK', UNCHANGED <<runs, saved, listed, before>>,
           \A q \in Procs : proc'[q] = proc[q] \/ Fits(proc'[q], proc[q]),
           \A g \in Files : \/ author'[g] = 0
                            \/ author'[g] = author[g] /\ (g \in raced => g \in raced')
    PROVE  IInv'
<1>1. \A q \in Procs : Fits(proc'[q], proc[q])
  BY DEF IInv, Shaped, Written, Fits
<1>2. runs \in Nat
  BY DEF IInv, TypeOK
<1>3. Shaped'
  BY <1>1 DEF Shaped, Shape, Fits, Acting
<1>4. \A q \in Procs : Acting(proc'[q]) => proc'[q].ts # 0
  BY <1>1, <1>2 DEF Fits, Shape
<1>5. \A q \in Procs : Recorded(proc[q])'
  BY <1>1 DEF Fits, Recorded
<1>6. \A q \in Procs : proc'[q].pc \in Working => Acting(proc'[q]) /\ proc'[q].file \in Files
  BY <1>1, WorkingActs DEF Fits, Shape
<1>7. \A q \in Procs : Ahead(proc[q])'
  <2>1. ASSUME NEW q \in Procs, NEW g \in Files, Acting(proc'[q]), author[g] # proc'[q].ts
        PROVE  author'[g] # proc'[q].ts
    BY <1>4, <2>1
  <2>2. \A q \in Procs : proc'[q].todo \subseteq Files
    BY DEF TypeOK, Proc
  <2>3. QED
    BY <1>1, <1>6, <2>1, <2>2 DEF Fits, Ahead, Acting
<1>8. OwnTimes'
  BY <1>1 DEF IInv, OwnTimes, Fits
<1>9. Past'
  BY <1>2 DEF IInv, Past
<1>10. Reversible'
  BY DEF IInv, Reversible
<1>11. QED
  BY <1>3, <1>5, <1>7, <1>8, <1>9, <1>10 DEF IInv, Written

LEMMA UserKeeps ==
    ASSUME IInv, TypeOK', NEW f \in Files, NEW c, UserWrites(f, c)
    PROVE  IInv'
  BY Quiet DEF UserWrites, Backups, IInv, TypeOK

LEMMA IdleFits == ASSUME NEW w PROVE Fits(Idle, w)
  BY IdleTyped DEF Fits, Shape, Recorded, Ahead, Acting, Working

LEMMA RestoreKeeps ==
    ASSUME IInv, TypeOK', NEW p \in Procs, RestoreBegin(p)
    PROVE  IInv'
<1> DEFINE v == [Idle EXCEPT !.pc = "next", !.job = "restore", !.ts = Entries.ts,
                             !.todo = Entries.files]
<1>1. Goes(p, v) /\ UNCHANGED <<runs, saved, listed, before, author, raced>>
  BY DEF RestoreBegin, Backups, Ghosts
<1>2. v \in Proc /\ v.pc = "next" /\ v.job = "restore" /\ (v.todo # {} => v.ts \in Times)
  BY IdleTyped, EntriesTyped DEF Proc, IInv
<1> HIDE DEF v
<1>3. Fits(v, proc[p])
  BY <1>2 DEF Fits, Shape, Recorded, Ahead, Acting, Working
<1>4. proc'[p] = v /\ \A q \in Procs : q # p => proc'[q] = proc[q]
  BY <1>1, <1>2, Moved DEF IInv
<1>5. QED
  BY <1>1, <1>3, <1>4, Quiet

LEMMA RestoreOneKeeps ==
    ASSUME IInv, TypeOK', NEW p \in Procs, NEW f \in Files, RestoreOne(p, f)
    PROVE  IInv'
<1> DEFINE w == proc[p]
           v == [w EXCEPT !.todo = @ \ {f}]
<1>1. /\ Goes(p, v) /\ UNCHANGED <<runs, saved, listed, before>>
      /\ w.pc = "next" /\ w.job = "restore"
      /\ author' = [author EXCEPT ![f] = 0] /\ raced' = raced \ {f}
  BY DEF RestoreOne, Backups
<1>2. w \in Proc /\ Shape(w)
  BY ProcAt DEF IInv, Shaped
<1> HIDE DEF w
<1>3. v \in Proc /\ v.pc = "next" /\ v.job = "restore" /\ v.ts = w.ts /\ v.todo \subseteq w.todo
  BY <1>1, <1>2 DEF Proc
<1> HIDE DEF v
<1>4. Fits(v, w)
  BY <1>2, <1>3 DEF Fits, Shape, Recorded, Ahead, Acting, Working
<1>5. proc'[p] = v /\ \A q \in Procs : q # p => proc'[q] = proc[q]
  BY <1>1, <1>3, Moved DEF IInv
<1>6. \A g \in Files : author'[g] = 0 \/ (author'[g] = author[g] /\ (g \in raced => g \in raced'))
  BY <1>1 DEF IInv, TypeOK
<1>7. QED
  BY <1>1, <1>4, <1>5, <1>6, Quiet DEF w

LEMMA EndsKeep ==
    ASSUME IInv, TypeOK', NEW p \in Procs, Done(p) \/ Crash(p)
    PROVE  IInv'
<1>1. Goes(p, Idle) /\ UNCHANGED <<runs, saved, listed, before, author, raced>>
  BY DEF Done, Crash, Backups, Ghosts
<1>2. proc'[p] = Idle /\ \A q \in Procs : q # p => proc'[q] = proc[q]
  BY <1>1, IdleTyped, Moved DEF IInv
<1>3. QED
  BY <1>1, <1>2, IdleFits, Quiet

LEMMA TakeFits ==
    ASSUME IInv, NEW p \in Procs, NEW f \in Files, TakeNext(p, f)
    PROVE  /\ proc'[p] \in Proc /\ Fits(proc'[p], proc[p])
           /\ \A q \in Procs : q # p => proc'[q] = proc[q]
<1> DEFINE w == proc[p]
           orig == IF w.job = "backup" \/ f = Settings THEN doc[f] ELSE w.plan[f]
           v == IF Skipped(p, f) THEN [w EXCEPT !.todo = @ \ {f}] ELSE Taken(w, f, orig)
<1>1. w.pc = "next" /\ w.job # "restore" /\ f \in w.todo
  BY DEF TakeNext
<1>2. w \in Proc /\ Shape(w) /\ Ahead(w)
  BY ProcAt DEF IInv, Shaped, Written
<1>3. orig \in File /\ v \in Proc /\ Goes(p, v)
  BY NextFile DEF IInv
<1>4. Skipped(p, f) \/ w.job # "backup" \/ orig # None
  BY DEF Skipped
<1> HIDE DEF w, orig
<1>5. Acting(w) /\ w.job \in {"apply", "backup"}
  BY <1>1, <1>2 DEF Shape, Acting
<1>6. CASE Skipped(p, f)
  <2>1. v.pc = "next" /\ v.job = w.job /\ v.ts = w.ts /\ v.todo = w.todo \ {f}
    BY <1>1, <1>2, <1>6 DEF Proc
  <2> HIDE DEF v
  <2>2. Fits(v, w)
    BY <1>1, <1>2, <1>5, <2>1 DEF Fits, Shape, Recorded, Ahead, Acting, Working
  <2>3. QED
    BY <1>3, <2>2, Moved DEF IInv, w
<1>7. CASE ~Skipped(p, f)
  <2>1. /\ v.pc = (IF orig = None THEN "sidecar" ELSE "copy") /\ v.job = w.job /\ v.ts = w.ts
        /\ v.todo = w.todo \ {f} /\ v.file = f /\ v.orig = orig
    BY <1>2, <1>7 DEF Proc, Taken
  <2> HIDE DEF v
  <2>2. Fits(v, w)
    BY <1>1, <1>2, <1>4, <1>5, <1>7, <2>1 DEF Fits, Shape, Recorded, Ahead, Acting, Working
  <2>3. QED
    BY <1>3, <2>2, Moved DEF IInv, w
<1>8. QED
  BY <1>6, <1>7

LEMMA TakeKeeps ==
    ASSUME IInv, TypeOK', NEW p \in Procs, NEW f \in Files, TakeNext(p, f)
    PROVE  IInv'
  BY TakeFits, Quiet DEF TakeNext, Backups, Ghosts

LEMMA SidecarKeeps ==
    ASSUME IInv, TypeOK', NEW p \in Procs, Sidecar(p)
    PROVE  IInv'
<1> DEFINE w == proc[p]
           v == [w EXCEPT !.pc = "write"]
<1>1. w \in Proc /\ Shape(w) /\ Recorded(w) /\ Ahead(w) /\ w.pc = "sidecar"
  BY AtFile DEF Sidecar, Working
<1>2. Goes(p, v) /\ UNCHANGED <<runs, saved, listed, before, author, raced>>
  BY DEF Sidecar, Ghosts
<1> HIDE DEF w
<1>3. v \in Proc /\ v.pc = "write" /\ v.job = w.job /\ v.ts = w.ts /\ v.todo = w.todo
      /\ v.file = w.file /\ v.orig = w.orig
  BY <1>1 DEF Proc
<1> HIDE DEF v
<1>4. Fits(v, w)
  BY <1>1, <1>3 DEF Fits, Shape, Recorded, Ahead, Acting, Working
<1>5. proc'[p] = v /\ \A q \in Procs : q # p => proc'[q] = proc[q]
  BY <1>2, <1>3, Moved DEF IInv
<1>6. QED
  BY <1>2, <1>4, <1>5, Quiet DEF w

\* A command that begins has a time that nobody had before.
LEMMA Begins ==
    ASSUME IInv, TypeOK', NEW p \in Procs, NEW v \in Proc, Goes(p, v),
           v.pc = "next", v.job \in {"apply", "backup"}, v.ts = runs + 1,
           runs < MaxRuns, runs' = runs + 1,
           UNCHANGED <<saved, listed, before, author, raced>>
    PROVE  IInv'
<1>1. proc'[p] = v /\ \A q \in Procs : q # p => proc'[q] = proc[q]
  BY Moved DEF IInv
<1>2. runs \in Nat /\ MaxRuns \in Nat /\ \A f \in Files : author[f] \in Nat /\ author[f] <= runs
  BY BoundsAssumption DEF IInv, TypeOK, Past
<1>3. v.ts \in Times /\ v.ts \in 1 .. runs' /\ Acting(v)
  BY <1>2 DEF Times, Acting
<1>4. Shaped'
  <2>1. ASSUME NEW q \in Procs
        PROVE  Shape(proc[q])'
    <3>1. CASE q = p
      BY <1>1, <1>3, <3>1 DEF Shape, Acting, Working
    <3>2. CASE q # p
      <4>1. Shape(proc[q]) /\ proc'[q] = proc[q]
        BY <1>1, <3>2 DEF IInv, Shaped
      <4>2. QED
        BY <1>2, <4>1 DEF Shape
    <3>3. QED
      BY <3>1, <3>2
  <2>2. QED
    BY <2>1 DEF Shaped
<1>5. \A q \in Procs : q # p /\ Acting(proc[q]) => proc[q].ts <= runs /\ proc[q].ts \in Nat
  BY <1>2 DEF IInv, Shaped, Shape
<1>6. OwnTimes'
  BY <1>1, <1>2, <1>3, <1>5 DEF IInv, OwnTimes
<1>7. Written'
  <2>1. ASSUME NEW q \in Procs
        PROVE  Recorded(proc[q])' /\ Ahead(proc[q])'
    <3>1. CASE q = p
      <4>1. \A f \in v.todo : author[f] # v.ts
        BY <1>2 DEF Proc
      <4>2. QED
        BY <1>1, <3>1, <4>1 DEF Recorded, Ahead, Working
    <3>2. CASE q # p
      <4>1. Recorded(proc[q]) /\ Ahead(proc[q]) /\ proc'[q] = proc[q]
        BY <1>1, <3>2 DEF IInv, Written
      <4>2. QED
        BY <4>1 DEF Recorded, Ahead
    <3>3. QED
      BY <3>1, <3>2
  <2>2. QED
    BY <2>1 DEF Written
<1>8. Past'
  BY <1>2 DEF Past
<1>9. Reversible'
  BY DEF IInv, Reversible
<1>10. QED
  BY <1>4, <1>6, <1>7, <1>8, <1>9 DEF IInv

LEMMA ApplyKeeps ==
    ASSUME IInv, TypeOK', NEW p \in Procs, ApplyBegin(p)
    PROVE  IInv'
<1> DEFINE found == IF bucket = None THEN Findings ELSE bucket
           todo == {f \in Files : Planned(f, found)}
           plan == [f \in Files |-> IF f \in todo THEN doc[f] ELSE None]
           v == [Idle EXCEPT !.pc = "next", !.job = "apply", !.ts = runs + 1, !.todo = todo,
                             !.plan = plan]
<1>1. /\ Goes(p, v) /\ runs < MaxRuns /\ runs' = runs + 1
      /\ UNCHANGED <<saved, listed, before, author, raced>>
  BY DEF ApplyBegin, Backups, Ghosts
<1>2. todo \subseteq Files /\ plan \in [Files -> File] /\ runs + 1 \in Nat
  BY DEF IInv, TypeOK, File
<1> HIDE DEF todo, plan
<1>3. v \in Proc /\ v.pc = "next" /\ v.job = "apply" /\ v.ts = runs + 1
  BY <1>2, IdleTyped DEF Proc
<1> HIDE DEF v
<1>4. QED
  BY <1>1, <1>3, Begins

LEMMA BackupKeeps ==
    ASSUME IInv, TypeOK', NEW p \in Procs, NEW files \in SUBSET Files, BackupBegin(p, files)
    PROVE  IInv'
<1> DEFINE v == [Idle EXCEPT !.pc = "next", !.job = "backup", !.ts = runs + 1, !.todo = files]
<1>1. /\ Goes(p, v) /\ runs < MaxRuns /\ runs' = runs + 1
      /\ UNCHANGED <<saved, listed, before, author, raced>>
  BY DEF BackupBegin, Backups, Ghosts
<1>2. runs + 1 \in Nat
  BY DEF IInv, TypeOK
<1>3. v \in Proc /\ v.pc = "next" /\ v.job = "backup" /\ v.ts = runs + 1
  BY <1>2, IdleTyped DEF Proc
<1> HIDE DEF v
<1>4. QED
  BY <1>1, <1>3, Begins

\* The command works on its own set, which no other command looks at.
LEMMA Works ==
    ASSUME IInv, TypeOK', NEW p \in Procs, proc[p].pc \in Working,
           NEW v \in Proc, Goes(p, v), v.job = proc[p].job, v.ts = proc[p].ts,
           v.todo = proc[p].todo,
           v.pc \in Working => v.file = proc[p].file /\ v.orig = proc[p].orig,
           v.pc \notin {"idle", "copy"},
           v.pc = "list" => v.orig # None, v.pc \in {"sidecar", "write"} => v.job = "apply",
           UNCHANGED runs,
           \A t \in Times : t # v.ts => saved'[t] = saved[t] /\ listed'[t] = listed[t],
           Recorded(proc[p])', \A q \in Procs : Ahead(proc[q])', Reversible', Past'
    PROVE  IInv'
<1>1. proc'[p] = v /\ \A q \in Procs : q # p => proc'[q] = proc[q]
  BY Moved DEF IInv
<1>2. Shape(proc[p]) /\ Acting(proc[p]) /\ proc[p].ts \in Times /\ proc[p].file \in Files
  BY AtFile
<1>3. Shape(v) /\ Acting(v)
  BY <1>2 DEF Shape, Acting, Working
<1>4. Shaped'
  <2>1. \A q \in Procs : Shape(proc'[q])
    BY <1>1, <1>3 DEF IInv, Shaped
  <2>2. QED
    BY <2>1 DEF Shaped, Shape
<1>5. OwnTimes'
  BY <1>1, <1>2, <1>3 DEF IInv, OwnTimes
<1>6. ASSUME NEW q \in Procs, q # p
      PROVE  Recorded(proc[q])'
  <2>1. Recorded(proc[q]) /\ proc'[q] = proc[q]
    BY <1>1, <1>6 DEF IInv, Written
  <2>2. CASE proc[q].pc \in Working
    <3>1. proc[q].ts \in Times /\ proc[q].ts # v.ts
      BY <1>2, <1>6, <2>2, AtFile DEF IInv, OwnTimes
    <3>2. QED
      BY <2>1, <3>1 DEF Recorded
  <2>3. CASE proc[q].pc \notin Working
    BY <2>1, <2>3 DEF Recorded, Working
  <2>4. QED
    BY <2>2, <2>3
<1>7. Written'
  BY <1>6 DEF Written
<1>8. QED
  BY <1>4, <1>5, <1>7 DEF IInv

\* While nobody is written down as an author, nothing that is ahead moves.
LEMMA AheadStays ==
    ASSUME IInv, NEW p \in Procs, proc[p].pc \in Working,
           NEW v \in Proc, Goes(p, v), v.job = proc[p].job, v.ts = proc[p].ts,
           v.todo = proc[p].todo,
           v.pc \in Working => v.file = proc[p].file,
           UNCHANGED author
    PROVE  \A q \in Procs : Ahead(proc[q])'
<1>1. proc'[p] = v /\ \A q \in Procs : q # p => proc'[q] = proc[q]
  BY Moved DEF IInv
<1>2. Ahead(proc[p]) /\ Acting(proc[p])
  BY AtFile
<1>3. \A q \in Procs : Ahead(proc'[q])
  <2>1. Ahead(v)
    BY <1>2 DEF Ahead, Acting
  <2>2. QED
    BY <1>1, <2>1 DEF IInv, Written
<1>4. QED
  BY <1>3 DEF Ahead, Acting

LEMMA CopyKeeps ==
    ASSUME IInv, TypeOK', NEW p \in Procs, Copy(p)
    PROVE  IInv'
<1> DEFINE w == proc[p]
           v == [w EXCEPT !.pc = "list"]
<1>1. /\ w \in Proc /\ Shape(w) /\ Ahead(w) /\ w.pc = "copy" /\ w.file \in Files
      /\ w.ts \in Times /\ w.orig \in File
  BY AtFile DEF Copy, Working
<1>2. Goes(p, v) /\ saved' = [saved EXCEPT ![w.ts] = [@ EXCEPT ![w.file] = w.orig]]
      /\ UNCHANGED <<listed, runs, author, before, raced>>
  BY DEF Copy, Ghosts
<1>3. /\ saved'[w.ts][w.file] = w.orig
      /\ \A u \in Times, g \in Files : u # w.ts \/ g # w.file => saved'[u][g] = saved[u][g]
      /\ \A u \in Times : u # w.ts => saved'[u] = saved[u]
  <2> HIDE DEF w, v
  <2>1. TypeOK /\ saved' = [saved EXCEPT ![w.ts] = [@ EXCEPT ![w.file] = w.orig]]
    BY <1>2 DEF IInv
  <2>2. [saved[w.ts] EXCEPT ![w.file] = w.orig] \in [Files -> File]
    BY <1>1, <2>1 DEF TypeOK
  <2>3. QED
    BY <1>1, <2>1, <2>2 DEF TypeOK
<1> HIDE DEF w
<1>4. v \in Proc /\ v.pc = "list" /\ v.job = w.job /\ v.ts = w.ts /\ v.todo = w.todo
      /\ v.file = w.file /\ v.orig = w.orig
  BY <1>1 DEF Proc
<1> HIDE DEF v
<1>5. proc'[p] = v
  BY <1>2, <1>4, Moved DEF IInv
<1>6. Recorded(proc[p])'
  BY <1>3, <1>4, <1>5 DEF Recorded
<1>7. w.pc \in Working /\ w.orig # None
  BY <1>1 DEF Working, Shape
<1>8. \A q \in Procs : Ahead(proc[q])'
  BY <1>2, <1>4, <1>7, AheadStays DEF w
<1>9. Reversible'
  <2>1. author[w.file] # w.ts
    BY <1>1, <1>7 DEF Ahead
  <2>2. ASSUME NEW f \in Files, author[f] # 0, f \notin raced, before[f] # None
        PROVE  f \in listed[author[f]] /\ saved'[author[f]][f] = before[f]
    <3>1. f \in listed[author[f]] /\ saved[author[f]][f] = before[f]
      BY <2>2 DEF IInv, Reversible
    <3>2. author[f] \in Times
      BY <2>2, BoundsAssumption DEF IInv, Past, TypeOK, Times
    <3>3. QED
      BY <1>3, <2>1, <3>1, <3>2
  <2>3. QED
    BY <1>2, <2>2 DEF Reversible
<1>10. Past'
  BY <1>2 DEF IInv, Past
<1>11. \A t \in Times : t # v.ts => saved'[t] = saved[t] /\ listed'[t] = listed[t]
  BY <1>2, <1>3, <1>4
<1>12. QED
  BY <1>2, <1>4, <1>6, <1>7, <1>8, <1>9, <1>10, <1>11, Works DEF w

LEMMA ListKeeps ==
    ASSUME IInv, TypeOK', NEW p \in Procs, List(p)
    PROVE  IInv'
<1> DEFINE w == proc[p]
           v == AfterList(w)
<1>1. /\ w \in Proc /\ Shape(w) /\ Recorded(w) /\ w.pc = "list" /\ w.file \in Files
      /\ w.ts \in Times /\ w.orig \in File
  BY AtFile DEF List, Working
<1>2. Goes(p, v) /\ listed' = [listed EXCEPT ![w.ts] = @ \cup {w.file}]
      /\ UNCHANGED <<saved, runs, author, before, raced>>
  BY DEF List, Ghosts
<1>3. /\ w.file \in listed'[w.ts]
      /\ \A t \in Times : listed[t] \subseteq listed'[t] /\ (t # w.ts => listed'[t] = listed[t])
  BY <1>1, <1>2 DEF IInv, TypeOK
<1>4. /\ v \in Proc /\ v.job = w.job /\ v.ts = w.ts /\ v.todo = w.todo
      /\ w.job = "backup" => v.pc = "next"
      /\ w.job # "backup" => /\ v.pc = IF w.file = Settings THEN "sidecar" ELSE "write"
                             /\ v.file = w.file /\ v.orig = w.orig
  BY <1>1, AfterListTyped
<1> HIDE DEF w
<1> HIDE DEF v
<1>5. proc'[p] = v
  BY <1>2, <1>4, Moved DEF IInv
<1>6. saved[w.ts][w.file] = w.orig
  BY <1>1 DEF Recorded
<1>7. w.pc \in Working /\ w.job \in {"apply", "backup"}
  BY <1>1 DEF Working, Shape
<1>8. v.pc \in {"next", "sidecar", "write"}
      /\ (v.pc # "next" => v.file = w.file /\ v.orig = w.orig /\ v.job = "apply")
  BY <1>4, <1>7
<1>9. Recorded(proc[p])'
  BY <1>2, <1>3, <1>4, <1>5, <1>6, <1>8 DEF Recorded
<1>10. v.pc \in Working => v.file = w.file /\ v.orig = w.orig
  BY <1>8 DEF Working
<1>11. \A q \in Procs : Ahead(proc[q])'
  BY <1>2, <1>4, <1>7, <1>10, AheadStays DEF w
<1>12. Reversible'
  <2>1. \A f \in Files : author[f] # 0 => author[f] \in Times
    BY BoundsAssumption DEF IInv, Past, TypeOK, Times
  <2>2. QED
    BY <1>2, <1>3, <2>1 DEF IInv, Reversible
<1>13. Past'
  BY <1>2 DEF IInv, Past
<1>14. \A t \in Times : t # v.ts => saved'[t] = saved[t] /\ listed'[t] = listed[t]
  BY <1>2, <1>3, <1>4
<1>15. v.pc \notin {"idle", "copy"} /\ v.pc # "list"
       /\ (v.pc \in {"sidecar", "write"} => v.job = "apply")
  BY <1>8
<1>16. QED
  BY <1>2, <1>4, <1>7, <1>9, <1>10, <1>11, <1>12, <1>13, <1>14, <1>15, Works DEF w

LEMMA WriteKeeps ==
    ASSUME IInv, TypeOK', NEW p \in Procs, Write(p)
    PROVE  IInv'
<1> DEFINE w == proc[p]
           v == [w EXCEPT !.pc = "next", !.file = None, !.orig = None]
<1>1. /\ w \in Proc /\ Shape(w) /\ Recorded(w) /\ Ahead(w) /\ w.pc = "write" /\ w.file \in Files
      /\ w.ts \in Times /\ w.ts # 0 /\ w.orig \in File
  BY AtFile DEF Write, Working
<1>2. /\ Goes(p, v) /\ UNCHANGED <<saved, listed, runs>>
      /\ author' = [author EXCEPT ![w.file] = w.ts]
      /\ before' = [before EXCEPT ![w.file] = doc[w.file]]
      /\ raced' = IF doc[w.file] = w.orig THEN raced \ {w.file} ELSE raced \cup {w.file}
  BY DEF Write, Backups
<1> HIDE DEF w
<1>3. v \in Proc /\ v.pc = "next" /\ v.job = w.job /\ v.ts = w.ts /\ v.todo = w.todo
  BY <1>1 DEF Proc, File
<1> HIDE DEF v
<1>4. proc'[p] = v /\ \A q \in Procs : q # p => proc'[q] = proc[q]
  BY <1>2, <1>3, Moved DEF IInv
<1>5. /\ author'[w.file] = w.ts /\ before'[w.file] = doc[w.file]
      /\ \A g \in Files : g # w.file => /\ author'[g] = author[g] /\ before'[g] = before[g]
                                        /\ (g \in raced' <=> g \in raced)
      /\ w.file \notin raced' => doc[w.file] = w.orig
  BY <1>1, <1>2 DEF IInv, TypeOK
<1>6. w.pc \in Working /\ w.job = "apply" /\ w.file \notin w.todo /\ Acting(w)
  BY <1>1 DEF Working, Shape, Acting
<1>7. Recorded(proc[p])'
  BY <1>3, <1>4 DEF Recorded
<1>8. ASSUME NEW q \in Procs
      PROVE  Ahead(proc[q])'
  <2>1. CASE q = p
    <3>1. \A g \in v.todo : author[g] # v.ts /\ g \in Files /\ g # w.file
      BY <1>1, <1>3, <1>6 DEF Ahead, Proc
    <3>2. \A g \in v.todo : author'[g] # v.ts
      BY <1>5, <3>1
    <3>3. QED
      BY <1>3, <1>4, <2>1, <3>2 DEF Ahead, Working
  <2>2. CASE q # p
    <3>1. Ahead(proc[q]) /\ proc'[q] = proc[q] /\ proc[q] \in Proc /\ Shape(proc[q])
      BY <1>4, <2>2, ProcAt DEF IInv, Written, Shaped
    <3>2. Acting(proc[q]) => proc[q].ts # w.ts
      BY <1>6, <2>2 DEF IInv, OwnTimes, w
    <3>3. proc[q].pc \in Working => Acting(proc[q]) /\ proc[q].file \in Files
      BY <3>1, WorkingActs DEF Shape
    <3>4. \A g \in Files : author'[g] = author[g] \/ author'[g] = w.ts
      BY <1>5
    <3>5. proc[q].todo \subseteq Files
      BY <3>1 DEF Proc
    <3>6. (Acting(proc[q]) => \A g \in proc[q].todo : author'[g] # proc[q].ts)
          /\ (proc[q].pc \in Working => author'[proc[q].file] # proc[q].ts)
      BY <3>1, <3>2, <3>3, <3>4, <3>5 DEF Ahead
    <3>7. QED
      BY <3>1, <3>6 DEF Ahead, Acting
  <2>3. QED
    BY <2>1, <2>2
<1>9. Reversible'
  <2>1. ASSUME w.file \notin raced', before'[w.file] # None
        PROVE  w.file \in listed[w.ts] /\ saved[w.ts][w.file] = before'[w.file]
    BY <1>1, <1>5, <2>1 DEF Recorded
  <2>2. QED
    BY <1>2, <1>5, <2>1 DEF IInv, Reversible
<1>10. Past'
  <2>1. w.ts <= runs
    BY <1>1, <1>6 DEF Shape, IInv, TypeOK
  <2>2. QED
    BY <1>2, <1>5, <2>1 DEF IInv, Past
<1>11. v.pc \notin Working
  BY <1>3 DEF Working
<1>12. QED
  BY <1>2, <1>3, <1>6, <1>7, <1>8, <1>9, <1>10, <1>11, Works DEF w, Working

LEMMA StepInv ==
    ASSUME IInv, [Next]_vars
    PROVE  IInv'
<1>1. TypeOK'
  BY StepTyped
<1>2. CASE UNCHANGED vars
  BY <1>1, <1>2, Quiet DEF vars, Backups
<1>3. CASE Inspect
  BY <1>1, <1>3, Quiet DEF Inspect, Backups, Ghosts
<1>4. ASSUME NEW f \in Files, NEW c, UserWrites(f, c)
      PROVE  IInv'
  BY <1>1, <1>4, UserKeeps
<1>5. ASSUME NEW p \in Procs, ApplyBegin(p) \/ RestoreBegin(p) \/ Done(p) \/ Crash(p)
      PROVE  IInv'
  BY <1>1, <1>5, ApplyKeeps, RestoreKeeps, EndsKeep
<1>6. ASSUME NEW p \in Procs, Copy(p) \/ List(p) \/ Sidecar(p) \/ Write(p)
      PROVE  IInv'
  BY <1>1, <1>6, CopyKeeps, ListKeeps, SidecarKeeps, WriteKeeps
<1>7. ASSUME NEW p \in Procs, NEW f \in Files, TakeNext(p, f) \/ RestoreOne(p, f)
      PROVE  IInv'
  BY <1>1, <1>7, TakeKeeps, RestoreOneKeeps
<1>8. ASSUME NEW p \in Procs, NEW files \in SUBSET Files, BackupBegin(p, files)
      PROVE  IInv'
  BY <1>1, <1>8, BackupKeeps
<1>9. QED
  BY <1>2, <1>3, <1>4, <1>5, <1>6, <1>7, <1>8, BoundsAssumption DEF Next

LEMMA Begun == Init => IInv
<1> SUFFICES ASSUME Init
             PROVE  IInv
  OBVIOUS
<1>1. TypeOK
  <2>1. doc \in [Files -> File] /\ Nothing \in [Files -> File]
    BY DEF Init, File, Nothing
  <2>2. proc \in [Procs -> Proc]
    BY IdleTyped DEF Init
  <2>3. QED
    BY <2>1, <2>2 DEF Init, TypeOK, File
<1>2. \A p \in Procs : proc[p] = Idle
  BY DEF Init
<1>3. Shaped /\ Written /\ OwnTimes
  BY <1>2, IdleFits, IdleTyped DEF Fits, Shaped, Written, OwnTimes, Acting
<1>4. Past /\ Reversible
  BY BoundsAssumption DEF Init, Past, Reversible
<1>5. QED
  BY <1>1, <1>3, <1>4 DEF IInv

LEMMA Always == Spec => []IInv
  BY Begun, StepInv, PTL DEF Spec

\* Every variable keeps to its values, whatever commands run side by side and wherever
\* they are killed (context/applySafe.ts).
THEOREM TypeCorrect == Spec => []TypeOK
<1>1. IInv => TypeOK
  BY DEF IInv
<1>2. QED
  BY <1>1, Always, PTL

\* What an apply has overwritten is in its backup set and in the manifest at every moment,
\* unless it changed under the plan ("Every touched file is backed up", applySafe.ts:5).
THEOREM BackedUp == Spec => []Reversible
<1>1. IInv => Reversible
  BY DEF IInv
<1>2. QED
  BY <1>1, Always, PTL

-----------------------------------------------------------------------------
(* The key of the user *)

LEMMA FindsBare == KeysFound(Findings)
  BY DEF KeysFound, Findings, Missing, Bare

\* Where no inspection is made and one command moves, that command alone counts.
LEMMA KeyMoves ==
    ASSUME TypeOK, KeyInv, NEW p \in Procs, NEW v \in Proc, Goes(p, v), Keyed(v),
           bucket' # None => KeysFound(bucket')
    PROVE  KeyInv'
<1>1. proc'[p] = v /\ \A q \in Procs : q # p => proc'[q] = proc[q]
  BY Moved
<1>2. \A q \in Procs : Keyed(proc'[q])
  BY <1>1 DEF KeyInv
<1>3. QED
  BY <1>2 DEF KeyInv, Keyed, KeysFound, Bare

LEMMA KeyApply ==
    ASSUME TypeOK, KeyInv, NEW p \in Procs, ApplyBegin(p)
    PROVE  KeyInv'
<1> DEFINE found == IF bucket = None THEN Findings ELSE bucket
           todo == {f \in Files : Planned(f, found)}
           plan == [f \in Files |-> IF f \in todo THEN doc[f] ELSE None]
           v == [Idle EXCEPT !.pc = "next", !.job = "apply", !.ts = runs + 1, !.todo = todo,
                             !.plan = plan]
<1>1. Goes(p, v) /\ bucket' = found
  BY DEF ApplyBegin
<1>2. KeysFound(found)
  BY FindsBare DEF KeyInv
<1>3. \A f \in todo \ {Settings} : f \in Files /\ plan[f] = doc[f] /\ doc[f] = found[f] /\ doc[f] # None
  BY DEF Planned, Unchanged
<1>4. todo \subseteq Files /\ plan \in [Files -> File] /\ runs + 1 \in Nat
  BY DEF TypeOK, File
<1> HIDE DEF todo, plan, found
<1>5. \A f \in todo \ {Settings} : Bare(plan[f])
  BY <1>2, <1>3 DEF KeysFound
<1>6. v \in Proc /\ v.pc = "next" /\ v.todo = todo /\ v.plan = plan
  BY <1>4, IdleTyped DEF Proc, Idle
<1> HIDE DEF v
<1>7. Keyed(v)
  BY <1>5, <1>6 DEF Keyed, Working
<1>8. bucket' # None => KeysFound(bucket')
  BY <1>1, <1>2
<1>9. QED
  BY <1>1, <1>6, <1>7, <1>8, KeyMoves

LEMMA KeyTake ==
    ASSUME TypeOK, KeyInv, NEW p \in Procs, NEW f \in Files, TakeNext(p, f)
    PROVE  KeyInv'
<1> DEFINE w == proc[p]
           orig == IF w.job = "backup" \/ f = Settings THEN doc[f] ELSE w.plan[f]
           v == IF Skipped(p, f) THEN [w EXCEPT !.todo = @ \ {f}] ELSE Taken(w, f, orig)
<1>1. w \in Proc /\ Keyed(w) /\ w.pc = "next" /\ f \in w.todo
  BY ProcAt DEF KeyInv, TakeNext
<1>2. v \in Proc /\ Goes(p, v) /\ bucket' = bucket
  BY NextFile DEF TakeNext
<1>3. w.job = "apply" /\ f # Settings => orig = w.plan[f]
  OBVIOUS
<1> HIDE DEF w, orig
<1>4. Keyed(v)
  <2>1. /\ v.job = w.job /\ v.plan = w.plan /\ v.todo = w.todo \ {f}
        /\ v.pc = "next" \/ (v.file = f /\ v.orig = orig)
    BY <1>1 DEF Proc, Taken
  <2> HIDE DEF v
  <2>2. QED
    BY <1>1, <1>3, <2>1 DEF Keyed, Working
<1> HIDE DEF v
<1>5. QED
  BY <1>2, <1>4, KeyMoves DEF KeyInv

\* The steps that leave a command with what it had, or with less.
LEMMA KeyLess ==
    ASSUME TypeOK, KeyInv, NEW p \in Procs, NEW v \in Proc, Goes(p, v), UNCHANGED bucket,
           \/ v.job \in {"restore", "backup"} \/ v = Idle
           \/ /\ v.job = proc[p].job /\ v.todo = proc[p].todo /\ v.plan = proc[p].plan
              /\ \/ v.pc = "next"
                 \/ proc[p].pc \in Working /\ v.file = proc[p].file /\ v.orig = proc[p].orig
    PROVE  KeyInv'
<1>1. Keyed(v)
  BY IdleTyped DEF KeyInv, Keyed, Working
<1>2. QED
  BY <1>1, KeyMoves DEF KeyInv

LEMMA KeySteps ==
    ASSUME IInv, KeyInv, [Next]_vars
    PROVE  KeyInv'
<1>1. TypeOK
  BY DEF IInv
<1>2. ASSUME UNCHANGED proc, UNCHANGED bucket \/ bucket' = Findings
      PROVE  KeyInv'
  BY <1>2, FindsBare DEF KeyInv, KeysFound, Bare, Keyed
<1>3. CASE UNCHANGED vars
  BY <1>2, <1>3 DEF vars
<1>4. CASE Inspect
  BY <1>2, <1>4 DEF Inspect
<1>5. ASSUME NEW f \in Files, NEW c, UserWrites(f, c)
      PROVE  KeyInv'
  BY <1>2, <1>5 DEF UserWrites
<1>6. ASSUME NEW p \in Procs, RestoreBegin(p)
      PROVE  KeyInv'
  <2> DEFINE v == [Idle EXCEPT !.pc = "next", !.job = "restore", !.ts = Entries.ts,
                               !.todo = Entries.files]
  <2>1. Goes(p, v) /\ UNCHANGED bucket
    BY <1>6 DEF RestoreBegin
  <2>2. v \in Proc /\ v.job = "restore"
    BY <1>1, IdleTyped, EntriesTyped DEF Proc
  <2> HIDE DEF v
  <2>3. QED
    BY <1>1, <2>1, <2>2, KeyLess
<1>7. ASSUME NEW p \in Procs, NEW files \in SUBSET Files, BackupBegin(p, files)
      PROVE  KeyInv'
  <2> DEFINE v == [Idle EXCEPT !.pc = "next", !.job = "backup", !.ts = runs + 1, !.todo = files]
  <2>1. Goes(p, v) /\ UNCHANGED bucket
    BY <1>7 DEF BackupBegin
  <2>2. v \in Proc /\ v.job = "backup"
    <3>1. runs + 1 \in Nat
      BY <1>1 DEF TypeOK
    <3>2. QED
      BY <3>1, IdleTyped DEF Proc
  <2> HIDE DEF v
  <2>3. QED
    BY <1>1, <2>1, <2>2, KeyLess
<1>8. ASSUME NEW p \in Procs, Done(p) \/ Crash(p)
      PROVE  KeyInv'
  BY <1>1, <1>8, IdleTyped, KeyLess DEF Done, Crash
<1>9. ASSUME NEW p \in Procs, NEW v \in Proc, Goes(p, v), UNCHANGED bucket,
             proc[p].pc \in Working, v.job = proc[p].job, v.todo = proc[p].todo,
             v.plan = proc[p].plan,
             v.pc = "next" \/ (v.file = proc[p].file /\ v.orig = proc[p].orig)
      PROVE  KeyInv'
  BY <1>1, <1>9, KeyLess
<1>10. ASSUME NEW p \in Procs, Copy(p) \/ Sidecar(p) \/ Write(p)
       PROVE  KeyInv'
  <2> DEFINE w == proc[p]
             a == [w EXCEPT !.pc = "list"]
             b == [w EXCEPT !.pc = "write"]
             c == [w EXCEPT !.pc = "next", !.file = None, !.orig = None]
  <2>1. w \in Proc /\ w.pc \in Working /\ UNCHANGED bucket
    BY <1>1, <1>10, ProcAt DEF Copy, Sidecar, Write, Working
  <2>2. Goes(p, a) \/ Goes(p, b) \/ Goes(p, c)
    BY <1>10 DEF Copy, Sidecar, Write
  <2>3. \A v \in {a, b, c} : /\ v \in Proc /\ v.job = w.job /\ v.todo = w.todo /\ v.plan = w.plan
                             /\ v.pc = "next" \/ (v.file = w.file /\ v.orig = w.orig)
    <3> HIDE DEF w
    <3>1. QED
      BY <2>1 DEF Proc, File
  <2> HIDE DEF a, b, c
  <2>4. QED
    BY <1>9, <2>1, <2>2, <2>3
<1>11. ASSUME NEW p \in Procs, List(p)
       PROVE  KeyInv'
  <2> DEFINE v == AfterList(proc[p])
  <2>1. Goes(p, v) /\ UNCHANGED bucket /\ proc[p].pc \in Working
    BY <1>11 DEF List, Working
  <2>2. /\ v \in Proc /\ v.job = proc[p].job /\ v.todo = proc[p].todo /\ v.plan = proc[p].plan
        /\ v.pc = "next" \/ (v.file = proc[p].file /\ v.orig = proc[p].orig)
    BY <1>1, ProcAt, AfterListTyped
  <2> HIDE DEF v
  <2>3. QED
    BY <1>9, <2>1, <2>2
<1>12. ASSUME NEW p \in Procs, NEW f \in Files, RestoreOne(p, f)
       PROVE  KeyInv'
  <2> DEFINE w == proc[p]
             v == [w EXCEPT !.todo = @ \ {f}]
  <2>1. Goes(p, v) /\ UNCHANGED bucket /\ w.job = "restore" /\ w \in Proc
    BY <1>1, <1>12, ProcAt DEF RestoreOne
  <2> HIDE DEF w
  <2>2. v \in Proc /\ v.job = "restore"
    BY <2>1 DEF Proc
  <2> HIDE DEF v
  <2>3. QED
    BY <1>1, <2>1, <2>2, KeyLess
<1>13. ASSUME NEW p \in Procs, ApplyBegin(p) \/ \E f \in Files : TakeNext(p, f)
       PROVE  KeyInv'
  BY <1>1, <1>13, KeyApply, KeyTake
<1>14. QED
  BY <1>3, <1>4, <1>5, <1>6, <1>7, <1>8, <1>10, <1>11, <1>12, <1>13, BoundsAssumption DEF Next

\* What a step does to one context file, where it was there and is there.
OwnKept(f) == doc[f] # None /\ doc'[f] # None =>
                  (doc[f].key = "own" /\ doc'[f].key = "ours" /\ author'[f] # 0 => f \in raced')

LEMMA StepOwn ==
    ASSUME IInv, KeyInv, [Next]_vars, NEW f \in Files \ {Settings}
    PROVE  OwnKept(f)
<1>1. CASE UNCHANGED doc
  BY <1>1 DEF OwnKept
<1>2. ASSUME NEW g \in Files, NEW c, doc' = [doc EXCEPT ![g] = c], author' = [author EXCEPT ![g] = 0]
      PROVE  OwnKept(f)
  BY <1>2 DEF OwnKept, IInv, TypeOK
<1>3. ASSUME NEW p \in Procs, Write(p)
      PROVE  OwnKept(f)
  <2> DEFINE w == proc[p]
  <2>1. w.job = "apply" /\ w.pc \in Working /\ w.file \in Files
    BY <1>3, AtFile DEF Write, Working, Shape
  <2>2. w.file = f => Bare(w.orig)
    BY <2>1 DEF KeyInv, Keyed
  <2>3. /\ w.file # f => doc'[f] = doc[f]
        /\ w.file = f /\ doc[f] # w.orig => f \in raced'
    BY <1>3, <2>1 DEF Write, IInv, TypeOK
  <2> HIDE DEF w
  <2>4. QED
    BY <2>2, <2>3 DEF OwnKept, Bare
<1>4. CASE (\E g \in Files, c \in Content : UserWrites(g, c)) \/ UserWrites(Settings, None)
  BY <1>2, <1>4, BoundsAssumption DEF UserWrites
<1>5. CASE \E p \in Procs, g \in Files : RestoreOne(p, g)
  BY <1>2, <1>5 DEF RestoreOne
<1>6. CASE \/ Inspect \/ UNCHANGED vars
           \/ \E p \in Procs :
                  \/ ApplyBegin(p) \/ RestoreBegin(p)
                  \/ \E files \in SUBSET Files \ {{}} : BackupBegin(p, files)
                  \/ \E g \in Files : TakeNext(p, g)
                  \/ Copy(p) \/ List(p) \/ Sidecar(p) \/ Done(p) \/ Crash(p)
  <2>1. UNCHANGED doc
    BY <1>6 DEF vars, Inspect, ApplyBegin, RestoreBegin, BackupBegin, TakeNext, Copy, List, Sidecar,
                Done, Crash
  <2>2. QED
    BY <1>1, <2>1
<1>7. QED
  BY <1>3, <1>4, <1>5, <1>6 DEF Next

\* A key that the user has set since the inspection is not replaced (patchPlan.ts:41),
\* unless it was set after the plan was made.
THEOREM OwnKeys == Spec => OwnKeyKept
<1>1. Init => KeyInv
  BY IdleTyped DEF Init, KeyInv, Keyed, Working
<1>2. IInv /\ KeyInv /\ [Next]_vars => KeyInv'
  BY KeySteps
<1>3. IInv /\ KeyInv /\ [Next]_vars =>
          [\A f \in Files \ {Settings} : doc[f] # None /\ doc'[f] # None =>
           (doc[f].key = "own" /\ doc'[f].key = "ours" /\ author'[f] # 0 => f \in raced')]_vars
  BY StepOwn DEF OwnKept
<1>4. QED
  BY <1>1, <1>2, <1>3, Always, PTL DEF Spec, OwnKeyKept

-----------------------------------------------------------------------------
(* Restores *)

LEMMA Others ==
    ASSUME IInv, BackInv, base.calm, NEW p \in Procs, proc[p].pc # "idle"
    PROVE  \A q \in Procs : q # p => proc[q] = Idle
  BY DEF BackInv, Alone, IInv, Shaped, Shape

\* The set of a command that moves is its own, so all that matters is what it leaves itself.
LEMMA TracesMove ==
    ASSUME IInv, BackInv, NEW p \in Procs, NEW v \in Proc, Goes(p, v), UNCHANGED runs,
           base'.ts \in Nat, base.ts <= base'.ts, base'.ts <= runs,
           \/ UNCHANGED <<saved, listed>>
           \/ /\ Acting(proc[p])
              /\ \A t \in Times : t # proc[p].ts => saved'[t] = saved[t] /\ listed'[t] = listed[t],
           v.job = "apply" /\ base'.ts < v.ts => Unmade(v.ts)' /\ v.pc \notin {"list", "write"}
    PROVE  Traces'
<1>1. proc'[p] = v /\ \A q \in Procs : q # p => proc'[q] = proc[q]
  BY Moved DEF IInv
<1>2. Acting(proc[p]) => proc[p].ts \in Times /\ proc[p].ts <= runs
  BY BoundsAssumption DEF IInv, TypeOK, Shaped, Shape, Past, Times
<1>3. runs \in Nat /\ base.ts \in Nat /\ \A t \in Times : t \in Nat
  BY BoundsAssumption DEF IInv, TypeOK, Times
<1>4. \A t \in Times : t > runs' => Unmade(t)'
  BY <1>2, <1>3 DEF BackInv, Traces, Unmade
<1>5. ASSUME NEW q \in Procs, proc'[q].job = "apply", base'.ts < proc'[q].ts
      PROVE  Unmade(proc[q].ts)' /\ proc'[q].pc \notin {"list", "write"}
  <2>1. CASE q = p
    BY <1>1, <1>5, <2>1 DEF Unmade
  <2>2. CASE q # p
    <3>1. proc'[q] = proc[q] /\ proc[q] \in Proc /\ Shape(proc[q])
      BY <1>1, <2>2, ProcAt DEF IInv, Shaped
    <3>2. base.ts < proc[q].ts
      BY <1>3, <1>5, <3>1 DEF Proc
    <3>3. Unmade(proc[q].ts) /\ proc[q].pc \notin {"list", "write"}
      BY <1>5, <3>1, <3>2 DEF BackInv, Traces
    <3>4. Acting(proc[q])
      BY <1>5, <3>1, IdleTyped, NoneAssumption DEF Acting, Shape
    <3>5. proc[q].ts \in Times
      BY <3>1, <3>4, BoundsAssumption DEF Shape, IInv, TypeOK, Past, Times
    <3>6. Acting(proc[p]) => proc[p].ts # proc[q].ts
      BY <2>2, <3>4 DEF IInv, OwnTimes
    <3>7. QED
      BY <3>1, <3>3, <3>5, <3>6 DEF Unmade
  <2>3. QED
    BY <2>1, <2>2
<1>6. base'.ts <= runs'
  OBVIOUS
<1>7. QED
  BY <1>4, <1>5, <1>6 DEF Traces

LEMMA AloneMoves ==
    ASSUME IInv, NEW p \in Procs, NEW v \in Proc, Goes(p, v),
           base'.calm => /\ \A q \in Procs : q # p => proc[q] = Idle
                         /\ v.job # "backup" /\ (v.job = "apply" => base'.ts <= v.ts)
    PROVE  base'.calm => Alone'
<1>1. proc'[p] = v /\ \A q \in Procs : q # p => proc'[q] = proc[q]
  BY Moved DEF IInv
<1>2. QED
  BY <1>1, IdleTyped, NoneAssumption DEF Alone

LEMMA TouchSays ==
    ASSUME IInv, BackInv, NEW p \in Procs, proc[p].pc \in Working, Touch(proc[p])
    PROVE  /\ base'.ts \in Nat /\ base.ts <= base'.ts /\ base'.ts <= runs
           /\ proc[p].job = "apply" => proc[p].ts <= base'.ts
           /\ base'.calm => /\ \A q \in Procs : q # p => proc[q] = Idle
                            /\ proc[p].job = "apply" /\ base'.ts = proc[p].ts
                            /\ \/ base' = base
                               \/ /\ base.ts < base'.ts /\ base'.doc = doc
                                  /\ \A f \in proc[p].todo : doc[f] = proc[p].plan[f]
                                  /\ doc[proc[p].file] = proc[p].orig
<1> DEFINE w == proc[p]
           b == /\ \A q \in Procs : proc[q] = w \/ proc[q] = Idle
                /\ \A f \in w.todo \cup {w.file} :
                       doc[f] = IF f = w.file THEN w.orig ELSE w.plan[f]
<1>1. /\ w \in Proc /\ Shape(w) /\ Acting(w) /\ w.ts \in Times /\ w.pc # "idle"
      /\ w.job \in {"apply", "backup"} /\ w.file \notin w.todo /\ w.ts \in 1 .. runs
  BY AtFile DEF Shape, Acting, Working
<1>2. w.ts \in Nat /\ base.ts \in Nat /\ base.ts <= runs /\ runs \in Nat /\ w.ts <= runs
  BY <1>1 DEF IInv, TypeOK, BackInv, Traces
<1>3. CASE w.job # "apply" \/ base.ts = w.ts
  <2>1. base' = base
    BY <1>3 DEF Touch
  <2>2. base.calm => w.job # "backup" /\ \A q \in Procs : q # p => proc[q] = Idle
    BY <1>1, Others DEF BackInv, Alone
  <2> HIDE DEF w
  <2>3. QED
    BY <1>1, <1>2, <1>3, <2>1, <2>2 DEF w
<1>4. CASE w.job = "apply" /\ base.ts > w.ts
  <2>1. base' = [base EXCEPT !.calm = FALSE]
    BY <1>2, <1>4 DEF Touch
  <2>2. base'.ts = base.ts /\ base'.calm = FALSE
    BY <2>1 DEF IInv, TypeOK
  <2>3. QED
    BY <1>2, <1>4, <2>2
<1>5. CASE w.job = "apply" /\ base.ts < w.ts
  <2>1. base' = [ts |-> w.ts, doc |-> doc, calm |-> b]
    BY <1>2, <1>5 DEF Touch
  <2>2. \A q \in Procs : q # p => proc[q] # w
    BY <1>1 DEF IInv, OwnTimes
  <2>3. b => /\ \A q \in Procs : q # p => proc[q] = Idle
             /\ \A f \in w.todo : doc[f] = w.plan[f]
             /\ doc[w.file] = w.orig
    BY <1>1, <2>2
  <2> HIDE DEF b
  <2>4. QED
    BY <1>2, <1>5, <2>1, <2>3
<1>6. QED
  BY <1>1, <1>2, <1>3, <1>4, <1>5

\* A copy, and the note beside the settings: the first trace of an apply is one of them.
LEMMA TouchedBack ==
    ASSUME IInv, BackInv, NEW p \in Procs, proc[p].pc \in {"copy", "sidecar"}, Touch(proc[p]),
           NEW v \in Proc, Goes(p, v), v.pc \in {"list", "write"}, v.job = proc[p].job,
           v.ts = proc[p].ts, v.todo = proc[p].todo, v.plan = proc[p].plan,
           v.file = proc[p].file, v.orig = proc[p].orig, UNCHANGED <<doc, runs, listed>>,
           \A t \in Times : t # proc[p].ts => saved'[t] = saved[t],
           \A g \in Files : \/ saved'[proc[p].ts][g] = saved[proc[p].ts][g]
                            \/ g = proc[p].file /\ saved'[proc[p].ts][g] = proc[p].orig
    PROVE  BackInv'
<1> DEFINE w == proc[p]
<1>1. proc'[p] = v /\ \A q \in Procs : q # p => proc'[q] = proc[q]
  BY Moved DEF IInv
<1>2. w.pc \in Working
  BY DEF Working
<1>3. /\ Acting(w) /\ w.ts \in Times /\ w.ts \in Nat /\ w.job # "restore" /\ w.file \in Files
      /\ w.file \notin w.todo /\ w.todo \subseteq Files
  BY <1>2, AtFile, BoundsAssumption DEF Shape, Proc, Acting
<1>4. /\ base'.ts \in Nat /\ base.ts <= base'.ts /\ base'.ts <= runs
      /\ w.job = "apply" => w.ts <= base'.ts
      /\ base'.calm => /\ \A q \in Procs : q # p => proc[q] = Idle
                       /\ w.job = "apply" /\ base'.ts = w.ts
                       /\ \/ base' = base
                          \/ /\ base.ts < base'.ts /\ base'.doc = doc
                             /\ \A f \in w.todo : doc[f] = w.plan[f]
                             /\ doc[w.file] = w.orig
  BY <1>2, TouchSays
<1>5. Traces'
  <2>1. ~(v.job = "apply" /\ base'.ts < v.ts)
    BY <1>3, <1>4
  <2>2. \A t \in Times : t # w.ts => saved'[t] = saved[t] /\ listed'[t] = listed[t]
    OBVIOUS
  <2>3. QED
    BY <1>3, <1>4, <2>1, <2>2, TracesMove
<1>6. base'.calm => Alone'
  <2>1. base'.calm => /\ \A q \in Procs : q # p => proc[q] = Idle
                      /\ v.job # "backup" /\ (v.job = "apply" => base'.ts <= v.ts)
    BY <1>3, <1>4
  <2>2. QED
    BY <2>1, AloneMoves
<1>7. ASSUME Live'
      PROVE  Found'
  <2>1. base'.calm /\ base'.ts = w.ts /\ w.job = "apply" /\ \A q \in Procs : q # p => proc[q] = Idle
    BY <1>4, <1>7 DEF Live
  <2>2. \A q \in Procs : q # p => proc'[q].job = None
    BY <1>1, <2>1, IdleTyped
  <2>3. CASE base' = base
    <3>1. Live
      <4>1. AtWork(p)
        BY <2>1, <2>3 DEF AtWork
      <4>2. \A t \in Times : saved[t] # Nothing => t <= base.ts
        BY <1>3, <1>7, <2>1, <2>3 DEF Live
      <4>3. QED
        BY <1>3, <2>1, <2>3, <4>1, <4>2 DEF Live
    <3>2. Found /\ AtWork(p)
      BY <2>1, <2>3, <3>1 DEF BackInv, AtWork
    <3>3. w.orig = base.doc[w.file] /\ doc[w.file] = base.doc[w.file]
      BY <1>2, <3>2 DEF Found
    <3>4. \A g \in Files : Kept(g) => Kept(g)'
      BY <2>1, <2>3, <3>3 DEF Kept
    <3>5. listed[base.ts] \subseteq Files
      BY <1>3, <2>1, <2>3 DEF IInv, TypeOK
    <3>6. \A f \in Files : base'.doc[f] = None \/ doc'[f] = base'.doc[f] \/ Kept(f)'
      BY <2>3, <3>2, <3>4 DEF Found
    <3>7. \A f \in listed'[base'.ts] : base'.doc[f] = None \/ Kept(f)'
      BY <2>3, <3>2, <3>4, <3>5 DEF Found
    <3>8. \A f \in v.todo : doc[f] = base.doc[f] /\ v.plan[f] = base.doc[f]
      BY <3>2 DEF Found
    <3>9. QED
      BY <1>1, <1>3, <2>1, <2>2, <2>3, <3>3, <3>6, <3>7, <3>8, NoneAssumption DEF Found, AtWork
  <2>4. CASE base' # base
    <3>1. /\ base.ts < base'.ts /\ base'.doc = doc /\ doc[w.file] = w.orig
          /\ \A f \in w.todo : doc[f] = w.plan[f]
      BY <1>4, <2>1, <2>4
    <3>2. listed'[base'.ts] = {}
      BY <2>1, <3>1 DEF BackInv, Traces, Unmade
    <3>3. QED
      BY <1>1, <1>3, <2>1, <2>2, <3>1, <3>2, NoneAssumption DEF Found, AtWork
  <2>5. QED
    BY <2>3, <2>4
<1>8. QED
  BY <1>5, <1>6, <1>7 DEF BackInv

LEMMA CopyBack ==
    ASSUME IInv, BackInv, NEW p \in Procs, Copy(p) \/ Sidecar(p)
    PROVE  BackInv'
<1> DEFINE w == proc[p]
           a == [w EXCEPT !.pc = "list"]
           b == [w EXCEPT !.pc = "write"]
<1>1. /\ w \in Proc /\ w.pc \in {"copy", "sidecar"} /\ w.ts \in Times /\ w.file \in Files
      /\ Touch(w) /\ UNCHANGED <<doc, runs, listed>>
  BY AtFile DEF Copy, Sidecar, Working
<1>2. \/ Goes(p, a) /\ saved' = [saved EXCEPT ![w.ts] = [@ EXCEPT ![w.file] = w.orig]]
      \/ Goes(p, b) /\ saved' = saved
  BY DEF Copy, Sidecar
<1>3. TypeOK
  BY DEF IInv
<1> HIDE DEF w
<1>4. \A v \in {a, b} : /\ v \in Proc /\ v.pc \in {"list", "write"} /\ v.job = w.job /\ v.ts = w.ts
                        /\ v.todo = w.todo /\ v.plan = w.plan /\ v.file = w.file /\ v.orig = w.orig
  BY <1>1 DEF Proc
<1>5. /\ \A t \in Times : t # w.ts => saved'[t] = saved[t]
      /\ \A g \in Files : saved'[w.ts][g] = saved[w.ts][g] \/ (g = w.file /\ saved'[w.ts][g] = w.orig)
  BY <1>1, <1>2, <1>3 DEF TypeOK
<1> HIDE DEF a, b
<1>6. PICK v \in {a, b} : Goes(p, v)
  BY <1>2
<1>7. QED
  BY <1>1, <1>4, <1>5, <1>6, TouchedBack DEF w

\* Steps of one command that leave the last apply, and who is at it, as they are.
LEMMA BackMoves ==
    ASSUME IInv, BackInv, NEW p \in Procs, proc[p].pc # "idle", NEW v \in Proc, Goes(p, v),
           UNCHANGED <<runs, saved, base>>,
           \/ UNCHANGED listed /\ v.pc \notin {"list", "write"}
           \/ /\ Acting(proc[p]) /\ (proc[p].job = "apply" => proc[p].ts <= base.ts)
              /\ \A t \in Times : t # proc[p].ts => listed'[t] = listed[t],
           v = Idle \/ (v.job = proc[p].job /\ v.ts = proc[p].ts),
           Live /\ Found => Found'
    PROVE  BackInv'
<1>1. proc'[p] = v /\ \A q \in Procs : q # p => proc'[q] = proc[q]
  BY Moved DEF IInv
<1>2. base.ts \in Nat /\ base.ts <= runs /\ base.calm \in BOOLEAN
  BY DEF IInv, TypeOK, BackInv, Traces
<1>3. v.ts \in Nat /\ (v = Idle => v.job = None)
  BY IdleTyped DEF Proc
<1>4. ASSUME base.calm
      PROVE  /\ \A q \in Procs : q # p => proc[q] = Idle
             /\ v.job # "backup" /\ (v.job = "apply" => base.ts <= v.ts)
  <2>1. \A q \in Procs : q # p => proc[q] = Idle
    BY <1>4, Others
  <2>2. proc[p].job # "backup" /\ (proc[p].job = "apply" => base.ts <= proc[p].ts)
    BY <1>4 DEF BackInv, Alone
  <2>3. QED
    BY <1>3, <2>1, <2>2, NoneAssumption
<1>5. base'.calm => Alone'
  BY <1>4, AloneMoves
<1>6. ASSUME v.job = "apply", base.ts < v.ts
      PROVE  Unmade(v.ts)' /\ v.pc \notin {"list", "write"}
  <2>1. v.job = proc[p].job /\ v.ts = proc[p].ts
    BY <1>3, <1>6, NoneAssumption
  <2>2. Unmade(v.ts)
    BY <1>6, <2>1 DEF BackInv, Traces
  <2>3. UNCHANGED listed /\ v.pc \notin {"list", "write"}
    BY <1>2, <1>3, <1>6, <2>1
  <2>4. QED
    BY <2>2, <2>3 DEF Unmade
<1>7. Traces'
  <2>1. base'.ts = base.ts /\ base.ts <= base.ts
    BY <1>2
  <2>2. \/ UNCHANGED <<saved, listed>>
        \/ /\ Acting(proc[p])
           /\ \A t \in Times : t # proc[p].ts => saved'[t] = saved[t] /\ listed'[t] = listed[t]
    OBVIOUS
  <2>3. v.job = "apply" /\ base'.ts < v.ts => Unmade(v.ts)' /\ v.pc \notin {"list", "write"}
    BY <1>6, <2>1
  <2>4. QED
    BY <1>2, <2>1, <2>2, <2>3, TracesMove
<1>8. Live' => Live
  <2>1. \A q \in Procs : AtWork(q)' => AtWork(q)
    BY <1>1, <1>3, NoneAssumption DEF AtWork
  <2>2. QED
    BY <2>1 DEF Live
<1>9. QED
  BY <1>5, <1>7, <1>8 DEF BackInv

LEMMA EndsBack ==
    ASSUME IInv, BackInv, NEW p \in Procs, Done(p) \/ Crash(p)
    PROVE  BackInv'
<1>1. Goes(p, Idle) /\ proc[p].pc # "idle" /\ UNCHANGED <<runs, saved, base, listed, doc>>
  BY DEF Done, Crash, Backups
<1>2. proc'[p] = Idle /\ \A q \in Procs : q # p => proc'[q] = proc[q]
  BY <1>1, IdleTyped, Moved DEF IInv
<1>3. Live /\ Found => Found'
  BY <1>1, <1>2, IdleTyped, NoneAssumption DEF Found, AtWork, Kept
<1>4. QED
  BY <1>1, <1>3, IdleTyped, BackMoves

LEMMA TakeBack ==
    ASSUME IInv, BackInv, NEW p \in Procs, NEW f \in Files, TakeNext(p, f)
    PROVE  BackInv'
<1> DEFINE w == proc[p]
           orig == IF w.job = "backup" \/ f = Settings THEN doc[f] ELSE w.plan[f]
           v == IF Skipped(p, f) THEN [w EXCEPT !.todo = @ \ {f}] ELSE Taken(w, f, orig)
<1>1. w \in Proc /\ w.pc = "next" /\ w.job # "restore" /\ f \in w.todo
      /\ UNCHANGED <<runs, saved, base, listed, doc>>
  BY ProcAt DEF TakeNext, Backups, IInv
<1>2. v \in Proc /\ Goes(p, v)
  BY NextFile DEF IInv
<1>3. orig = doc[f] \/ orig = w.plan[f]
  OBVIOUS
<1> HIDE DEF w, orig
<1>4. /\ v.job = w.job /\ v.plan = w.plan /\ v.todo = w.todo \ {f} /\ v.ts = w.ts
      /\ v.pc \in {"next", "copy", "sidecar"}
      /\ v.pc = "next" \/ (v.file = f /\ v.orig = orig)
  BY <1>1 DEF Proc, Taken
<1> HIDE DEF v
<1>5. proc'[p] = v /\ \A q \in Procs : q # p => proc'[q] = proc[q]
  BY <1>2, Moved DEF IInv
<1>6. ASSUME Found
      PROVE  Found'
  <2>1. \A q \in Procs : AtWork(q)' => AtWork(q)
    BY <1>1, <1>4, <1>5 DEF AtWork, w
  <2>2. AtWork(p) => doc[f] = base.doc[f] /\ orig = base.doc[f]
    BY <1>1, <1>3, <1>6 DEF Found, w
  <2>3. ASSUME NEW q \in Procs, AtWork(q)'
        PROVE  /\ \A g \in proc'[q].todo : doc[g] = base.doc[g] /\ proc'[q].plan[g] = base.doc[g]
               /\ proc'[q].pc \in Working => doc[proc'[q].file] = base.doc[proc'[q].file]
                                             /\ proc'[q].orig = base.doc[proc'[q].file]
    <3>1. AtWork(q)
      BY <2>1, <2>3
    <3>2. CASE q = p
      BY <1>4, <1>5, <1>6, <2>2, <3>1, <3>2 DEF Found, Working, w
    <3>3. CASE q # p
      BY <1>5, <1>6, <3>1, <3>3 DEF Found
    <3>4. QED
      BY <3>2, <3>3
  <2>4. \A q \in Procs : proc'[q].job = "restore" => proc'[q] = proc[q]
    BY <1>1, <1>4, <1>5
  <2>5. QED
    BY <1>1, <1>6, <2>3, <2>4 DEF Found, Kept
<1>7. proc[p].pc # "idle" /\ v.pc \notin {"list", "write"}
  BY <1>1, <1>4 DEF w
<1>8. QED
  BY <1>1, <1>2, <1>4, <1>6, <1>7, BackMoves DEF w

LEMMA ListBack ==
    ASSUME IInv, BackInv, NEW p \in Procs, List(p)
    PROVE  BackInv'
<1> DEFINE w == proc[p]
           v == AfterList(w)
<1>1. /\ w \in Proc /\ Shape(w) /\ Recorded(w) /\ w.pc = "list" /\ w.file \in Files
      /\ w.ts \in Times /\ Acting(w)
  BY AtFile DEF List, Working
<1>2. Goes(p, v) /\ listed' = [listed EXCEPT ![w.ts] = @ \cup {w.file}]
      /\ UNCHANGED <<saved, runs, doc, base>>
  BY DEF List
<1>3. /\ listed'[w.ts] = listed[w.ts] \cup {w.file}
      /\ \A t \in Times : t # w.ts => listed'[t] = listed[t]
  BY <1>1, <1>2 DEF IInv, TypeOK
<1>4. /\ v \in Proc /\ v.job = w.job /\ v.ts = w.ts /\ v.todo = w.todo /\ v.plan = w.plan
      /\ w.job # "backup" => v.file = w.file /\ v.orig = w.orig
  BY <1>1, AfterListTyped
<1>5. w.job = "apply" => w.ts <= base.ts
  BY <1>1, BoundsAssumption DEF BackInv, Traces, IInv, TypeOK, Times
<1>6. w.pc \in Working /\ w.job \in {"apply", "backup"} /\ w.pc # "idle"
  BY <1>1 DEF Working, Shape
<1> HIDE DEF w, v
<1>7. proc'[p] = v /\ \A q \in Procs : q # p => proc'[q] = proc[q]
  BY <1>2, <1>4, Moved DEF IInv
<1>8. ASSUME Live, Found
      PROVE  Found'
  <2>1. base.calm /\ base.ts \in Times
    BY <1>8 DEF Live
  <2>2. w.job = "apply" /\ w.ts = base.ts
    BY <1>1, <1>5, <1>6, <2>1, BoundsAssumption DEF BackInv, Alone, Times, w
  <2>3. AtWork(p)
    BY <2>2 DEF AtWork, w
  <2>4. saved[base.ts][w.file] = base.doc[w.file]
    BY <1>1, <1>6, <1>8, <2>2, <2>3 DEF Found, Recorded, w
  <2>5. listed'[base.ts] = listed[base.ts] \cup {w.file}
    BY <1>3, <2>2
  <2>6. \A g \in Files : Kept(g) => Kept(g)'
    BY <1>2, <2>5 DEF Kept
  <2>7. \A g \in listed'[base.ts] : base.doc[g] = None \/ Kept(g)'
    BY <1>2, <1>8, <2>4, <2>5 DEF Found, Kept
  <2>8. \A q \in Procs : q # p => proc'[q].job = None
    BY <1>6, <1>7, <2>1, Others, IdleTyped DEF w
  <2>9. /\ \A g \in v.todo : doc[g] = base.doc[g] /\ v.plan[g] = base.doc[g]
        /\ doc[v.file] = base.doc[v.file] /\ v.orig = base.doc[v.file]
    BY <1>4, <1>6, <1>8, <2>2, <2>3 DEF Found, w
  <2>10. QED
    BY <1>2, <1>4, <1>7, <1>8, <2>2, <2>6, <2>7, <2>8, <2>9, NoneAssumption DEF Found, AtWork
<1>9. QED
  BY <1>1, <1>2, <1>3, <1>4, <1>5, <1>6, <1>8, BackMoves DEF w

LEMMA WriteBack ==
    ASSUME IInv, BackInv, NEW p \in Procs, Write(p)
    PROVE  BackInv'
<1> DEFINE w == proc[p]
           v == [w EXCEPT !.pc = "next", !.file = None, !.orig = None]
           c == IF w.orig = None THEN Created ELSE SetKey(w.orig)
<1>1. /\ w \in Proc /\ Shape(w) /\ Recorded(w) /\ w.pc = "write" /\ w.file \in Files
      /\ w.ts \in Times
  BY AtFile DEF Write, Working
<1>2. Goes(p, v) /\ doc' = [doc EXCEPT ![w.file] = c] /\ UNCHANGED <<saved, listed, runs, base>>
  BY DEF Write, Backups
<1>3. w.pc \in Working /\ w.job = "apply" /\ w.file \notin w.todo /\ w.pc # "idle"
  BY <1>1 DEF Working, Shape
<1>4. w.ts <= base.ts
  BY <1>1, <1>3, BoundsAssumption DEF BackInv, Traces, IInv, TypeOK, Times
<1> HIDE DEF w, c
<1>5. v \in Proc /\ v.pc = "next" /\ v.job = w.job /\ v.ts = w.ts /\ v.todo = w.todo /\ v.plan = w.plan
  BY <1>1 DEF Proc, File
<1> HIDE DEF v
<1>6. proc'[p] = v /\ \A q \in Procs : q # p => proc'[q] = proc[q]
  BY <1>2, <1>5, Moved DEF IInv
<1>7. \A g \in Files : g # w.file => doc'[g] = doc[g]
  BY <1>2 DEF IInv, TypeOK
<1>8. ASSUME Live, Found
      PROVE  Found'
  <2>1. base.calm /\ base.ts \in Times
    BY <1>8 DEF Live
  <2>2. w.ts = base.ts
    BY <1>1, <1>3, <1>4, <2>1, BoundsAssumption DEF BackInv, Alone, Times, w
  <2>3. AtWork(p)
    BY <1>3, <2>2 DEF AtWork, w
  <2>4. base.doc[w.file] = None \/ Kept(w.file)
    BY <1>1, <1>3, <1>8, <2>2, <2>3 DEF Found, Recorded, Kept, w
  <2>5. \A g \in Files : Kept(g)' <=> Kept(g)
    BY <1>2 DEF Kept
  <2>6. \A g \in Files : base'.doc[g] = None \/ doc'[g] = base'.doc[g] \/ Kept(g)'
    BY <1>2, <1>7, <1>8, <2>4, <2>5 DEF Found
  <2>7. \A g \in listed'[base'.ts] : base'.doc[g] = None \/ Kept(g)'
    BY <1>2, <1>8 DEF Found, Kept
  <2>8. \A q \in Procs : q # p => proc'[q].job = None
    BY <1>3, <1>6, <2>1, Others, IdleTyped DEF w
  <2>9. \A g \in v.todo : doc'[g] = base.doc[g] /\ v.plan[g] = base.doc[g]
    <3>1. \A g \in w.todo : g \in Files /\ g # w.file
      BY <1>1, <1>3 DEF Proc
    <3>2. QED
      BY <1>5, <1>7, <1>8, <2>3, <3>1 DEF Found, w
  <2>10. QED
    BY <1>2, <1>3, <1>5, <1>6, <2>6, <2>7, <2>8, <2>9, NoneAssumption DEF Found, AtWork, Working
<1>9. QED
  BY <1>2, <1>3, <1>5, <1>8, BackMoves DEF w

LEMMA RestoreOneBack ==
    ASSUME IInv, BackInv, NEW p \in Procs, NEW f \in Files, RestoreOne(p, f)
    PROVE  BackInv'
<1> DEFINE w == proc[p]
           v == [w EXCEPT !.todo = @ \ {f}]
<1>1. /\ w \in Proc /\ w.pc = "next" /\ w.job = "restore" /\ f \in w.todo
      /\ Goes(p, v) /\ doc' = [doc EXCEPT ![f] = saved[w.ts][f]]
      /\ UNCHANGED <<saved, listed, runs, base>>
  BY ProcAt DEF RestoreOne, Backups, IInv
<1> HIDE DEF w
<1>2. /\ v \in Proc /\ v.pc = "next" /\ v.job = w.job /\ v.ts = w.ts /\ v.todo = w.todo \ {f}
  BY <1>1 DEF Proc
<1> HIDE DEF v
<1>3. proc'[p] = v /\ \A q \in Procs : q # p => proc'[q] = proc[q]
  BY <1>1, <1>2, Moved DEF IInv
<1>4. doc'[f] = saved[w.ts][f] /\ \A g \in Files : g # f => doc'[g] = doc[g]
  BY <1>1 DEF IInv, TypeOK
<1>5. ASSUME Live, Found
      PROVE  Found'
  <2>1. w.ts = base.ts /\ f \in listed[base.ts]
        /\ \A g \in Files \ w.todo : base.doc[g] = None \/ doc[g] = base.doc[g]
    BY <1>1, <1>5 DEF Found, w
  <2>2. base.doc[f] = None \/ doc'[f] = base.doc[f]
    BY <1>4, <1>5, <2>1 DEF Found, Kept
  <2>3. \A q \in Procs : q # p => proc'[q].job = None
    BY <1>1, <1>3, <1>5, Others, IdleTyped DEF Live, w
  <2>4. \A g \in Files : base'.doc[g] = None \/ doc'[g] = base'.doc[g] \/ Kept(g)'
    BY <1>1, <1>4, <1>5, <2>2 DEF Found, Kept
  <2>5. \A g \in listed'[base'.ts] : base'.doc[g] = None \/ Kept(g)'
    BY <1>1, <1>5 DEF Found, Kept
  <2>6. \A g \in Files \ v.todo : base.doc[g] = None \/ doc'[g] = base.doc[g]
    BY <1>2, <1>4, <2>1, <2>2
  <2>7. v.todo \subseteq listed[base.ts]
    BY <1>1, <1>2, <1>5 DEF Found, w
  <2>8. QED
    BY <1>1, <1>2, <1>3, <2>1, <2>3, <2>4, <2>5, <2>6, <2>7, NoneAssumption DEF Found, AtWork
<1>6. proc[p].pc # "idle" /\ v.pc \notin {"list", "write"}
  BY <1>1, <1>2 DEF w
<1>7. QED
  BY <1>1, <1>2, <1>5, <1>6, BackMoves DEF w

\* A command that begins is the only one, as far as the restore is concerned.
LEMMA BeginsBack ==
    ASSUME IInv, BackInv, NEW p \in Procs, NEW v \in Proc, Goes(p, v), v.pc = "next",
           UNCHANGED <<doc, saved, listed>>, Disturbed \/ (StaysCalm /\ v.job # "backup"),
           \/ runs' = runs + 1 /\ v.ts = runs + 1 /\ runs < MaxRuns
           \/ runs' = runs /\ v.job = "restore",
           v.job \in {"apply", "backup", "restore"},
           Live /\ Found /\ v.job = "restore" /\ saved[base.ts] # Nothing =>
               /\ v.ts = base.ts /\ v.todo = listed[base.ts]
    PROVE  BackInv'
<1>1. proc'[p] = v /\ \A q \in Procs : q # p => proc'[q] = proc[q]
  BY Moved DEF IInv
<1>2. base.ts \in Nat /\ base.ts <= runs /\ runs \in Nat /\ runs <= MaxRuns
  BY DEF IInv, TypeOK, BackInv, Traces, Past
<1>3. /\ base'.ts = base.ts /\ base'.doc = base.doc
      /\ base'.calm => base.calm /\ v.job # "backup" /\ \A q \in Procs : proc[q] = Idle
  BY DEF Disturbed, StaysCalm, IInv, TypeOK
<1>4. Traces'
  <2>1. \A t \in Times : t > runs' => Unmade(t)'
    BY <1>2, BoundsAssumption DEF BackInv, Traces, Unmade, Times
  <2>2. v.job = "apply" => Unmade(v.ts) /\ v.pc \notin {"list", "write"}
    BY <1>2, BoundsAssumption DEF BackInv, Traces, Times
  <2>3. \A q \in Procs : proc'[q].job = "apply" /\ base'.ts < proc'[q].ts =>
            Unmade(proc'[q].ts) /\ proc'[q].pc \notin {"list", "write"}
    BY <1>1, <1>3, <2>2 DEF BackInv, Traces
  <2>4. base'.ts <= runs'
    BY <1>2, <1>3
  <2>5. QED
    BY <2>1, <2>3, <2>4 DEF Traces, Unmade
<1>5. base'.calm => Alone'
  BY <1>2, <1>3, AloneMoves
<1>6. ASSUME Live'
      PROVE  Found'
  <2>1. base.calm /\ base.ts \in Times /\ \A q \in Procs : proc[q] = Idle
    BY <1>3, <1>6 DEF Live
  <2>2. \A q \in Procs : q # p => proc'[q].job = None
    BY <1>1, <2>1, IdleTyped
  <2>3. ~AtWork(p)'
    BY <1>1, <1>2, <1>3 DEF AtWork
  <2>4. \A q \in Procs : ~AtWork(q)'
    BY <2>2, <2>3, NoneAssumption DEF AtWork
  <2>5. saved[base.ts] # Nothing
    BY <1>3, <1>6, <2>4 DEF Live
  <2>6. Live
    BY <1>3, <1>6, <2>1, <2>5 DEF Live
  <2>7. Found
    BY <2>6 DEF BackInv
  <2>8. \A f \in Files : Kept(f)' <=> Kept(f)
    BY <1>3 DEF Kept
  <2>9. \A f \in Files : base'.doc[f] = None \/ doc'[f] = base'.doc[f] \/ Kept(f)'
    BY <1>3, <2>7, <2>8 DEF Found
  <2>10. \A f \in listed'[base'.ts] : base'.doc[f] = None \/ Kept(f)'
    BY <1>3, <2>7 DEF Found, Kept
  <2>11. ASSUME v.job = "restore"
         PROVE  /\ v.ts = base.ts /\ v.todo \subseteq listed[base.ts]
                /\ \A f \in Files \ v.todo : base.doc[f] = None \/ doc[f] = base.doc[f]
    BY <2>5, <2>6, <2>7, <2>11 DEF Found, Kept
  <2>12. QED
    BY <1>1, <1>3, <2>2, <2>4, <2>9, <2>10, <2>11, NoneAssumption DEF Found
<1>7. QED
  BY <1>4, <1>5, <1>6 DEF BackInv

LEMMA ApplyBack ==
    ASSUME IInv, BackInv, NEW p \in Procs, ApplyBegin(p)
    PROVE  BackInv'
<1> DEFINE found == IF bucket = None THEN Findings ELSE bucket
           todo == {f \in Files : Planned(f, found)}
           plan == [f \in Files |-> IF f \in todo THEN doc[f] ELSE None]
           v == [Idle EXCEPT !.pc = "next", !.job = "apply", !.ts = runs + 1, !.todo = todo,
                             !.plan = plan]
<1>1. /\ Goes(p, v) /\ runs < MaxRuns /\ runs' = runs + 1 /\ StaysCalm
      /\ UNCHANGED <<doc, saved, listed>>
  BY DEF ApplyBegin, Backups
<1>2. todo \subseteq Files /\ plan \in [Files -> File] /\ runs + 1 \in Nat
  BY DEF IInv, TypeOK, File
<1> HIDE DEF todo, plan
<1>3. v \in Proc /\ v.pc = "next" /\ v.job = "apply" /\ v.ts = runs + 1
  BY <1>2, IdleTyped DEF Proc
<1> HIDE DEF v
<1>4. QED
  BY <1>1, <1>3, BeginsBack

LEMMA BackupBack ==
    ASSUME IInv, BackInv, NEW p \in Procs, NEW files \in SUBSET Files, BackupBegin(p, files)
    PROVE  BackInv'
<1> DEFINE v == [Idle EXCEPT !.pc = "next", !.job = "backup", !.ts = runs + 1, !.todo = files]
<1>1. /\ Goes(p, v) /\ runs < MaxRuns /\ runs' = runs + 1 /\ Disturbed
      /\ UNCHANGED <<doc, saved, listed>>
  BY DEF BackupBegin, Backups
<1>2. runs + 1 \in Nat
  BY DEF IInv, TypeOK
<1>3. v \in Proc /\ v.pc = "next" /\ v.job = "backup" /\ v.ts = runs + 1
  BY <1>2, IdleTyped DEF Proc
<1> HIDE DEF v
<1>4. QED
  BY <1>1, <1>3, BeginsBack

LEMMA RestoreBack ==
    ASSUME IInv, BackInv, NEW p \in Procs, RestoreBegin(p)
    PROVE  BackInv'
<1> DEFINE v == [Idle EXCEPT !.pc = "next", !.job = "restore", !.ts = Entries.ts,
                             !.todo = Entries.files]
<1>1. Goes(p, v) /\ StaysCalm /\ UNCHANGED <<doc, saved, listed, runs>>
  BY DEF RestoreBegin, Backups
<1>2. /\ v \in Proc /\ v.pc = "next" /\ v.job = "restore"
      /\ v.ts = Entries.ts /\ v.todo = Entries.files
  BY IdleTyped, EntriesTyped DEF Proc, IInv
<1> HIDE DEF v
<1>3. ASSUME Live, saved[base.ts] # Nothing
      PROVE  v.ts = base.ts /\ v.todo = listed[base.ts]
  <2>1. base.ts \in Sets /\ \A t \in Sets : t <= base.ts
    BY <1>3 DEF Live, Sets
  <2>2. Latest \in Sets /\ Latest \in Times /\ base.ts <= Latest
    BY <2>1, LatestSet DEF Sets
  <2>3. Latest = base.ts
    BY <2>1, <2>2, BoundsAssumption DEF Sets, Times
  <2>4. QED
    BY <1>2, <2>1, <2>3 DEF Entries
<1>4. QED
  BY <1>1, <1>2, <1>3, BeginsBack

LEMMA StillBack ==
    ASSUME BackInv, UNCHANGED <<doc, saved, listed, proc, runs, base>>
    PROVE  BackInv'
  BY DEF BackInv, Traces, Unmade, Alone, Live, AtWork, Found, Kept

LEMMA UserBack ==
    ASSUME IInv, BackInv, NEW f \in Files, NEW c, UserWrites(f, c)
    PROVE  BackInv'
<1>1. base'.ts = base.ts /\ ~base'.calm /\ UNCHANGED <<saved, listed, proc, runs>>
  BY DEF UserWrites, Disturbed, Backups, IInv, TypeOK
<1>2. Traces'
  BY <1>1 DEF BackInv, Traces, Unmade
<1>3. QED
  BY <1>1, <1>2 DEF BackInv, Live

LEMMA BackSteps ==
    ASSUME IInv, BackInv, [Next]_vars
    PROVE  BackInv'
<1>1. CASE UNCHANGED vars \/ Inspect
  BY <1>1, StillBack DEF vars, Inspect, Backups
<1>2. ASSUME NEW f \in Files, NEW c, UserWrites(f, c)
      PROVE  BackInv'
  BY <1>2, UserBack
<1>3. ASSUME NEW p \in Procs, ApplyBegin(p) \/ RestoreBegin(p) \/ Done(p) \/ Crash(p)
      PROVE  BackInv'
  BY <1>3, ApplyBack, RestoreBack, EndsBack
<1>4. ASSUME NEW p \in Procs, Copy(p) \/ List(p) \/ Sidecar(p) \/ Write(p)
      PROVE  BackInv'
  BY <1>4, CopyBack, ListBack, WriteBack
<1>5. ASSUME NEW p \in Procs, NEW f \in Files, TakeNext(p, f) \/ RestoreOne(p, f)
      PROVE  BackInv'
  BY <1>5, TakeBack, RestoreOneBack
<1>6. ASSUME NEW p \in Procs, NEW files \in SUBSET Files, BackupBegin(p, files)
      PROVE  BackInv'
  BY <1>6, BackupBack
<1>7. QED
  BY <1>1, <1>2, <1>3, <1>4, <1>5, <1>6, BoundsAssumption DEF Next

LEMMA BegunBack == Init => BackInv
<1> SUFFICES ASSUME Init
             PROVE  BackInv
  OBVIOUS
<1>1. \A p \in Procs : proc[p] = Idle /\ proc[p].pc = "idle" /\ proc[p].job = None
  BY IdleTyped DEF Init
<1>2. base.ts = 0 /\ runs = 0 /\ \A t \in Times : Unmade(t)
  BY DEF Init, Unmade
<1>3. Traces /\ Alone
  BY <1>1, <1>2, NoneAssumption DEF Traces, Alone, Init
<1>4. ~Live
  BY <1>2, BoundsAssumption DEF Live, Times
<1>5. QED
  BY <1>3, <1>4 DEF BackInv

\* A restore that has ended, even one begun anew after it was killed, has given back all
\* that the last apply found, killed or not, if nothing else happened to the files since and
\* no --backup ran beside it (applySafe.ts:234).
THEOREM RestoresAll == Spec => []GivenBack
<1>1. IInv /\ BackInv => GivenBack
  <2> SUFFICES ASSUME IInv, BackInv, NEW p \in Procs, proc[p].job = "restore",
                      proc[p].todo = {}, base.calm, Sets # {}, base.ts = Latest
               PROVE  \A f \in Files : base.doc[f] # None => doc[f] = base.doc[f]
    BY DEF GivenBack
  <2>1. Live
    BY LatestSet DEF Live, Sets
  <2>2. Found
    BY <2>1 DEF BackInv
  <2>3. QED
    BY <2>2 DEF Found
<1>2. IInv /\ BackInv /\ [Next]_vars => BackInv'
  BY BackSteps
<1>3. QED
  BY <1>1, <1>2, BegunBack, Always, PTL DEF Spec
=============================================================================
