-------------------------- MODULE RecordsRepairProofs --------------------------
(***************************************************************************)
(* Proofs about RecordsRepair: types, and that no row is ever lost by a    *)
(* repair that nothing came too late for, however many repairs run, crash  *)
(* and fail.                                                               *)
(*                                                                         *)
(* A removal is safe only because of what happened several steps before,   *)
(* so the invariant follows each repair through its pass: every row of its *)
(* source in a ledger it is through with has a copy in one of the homes of *)
(* the pass, what it holds in memory covers the ledger it is at, and the   *)
(* directories it is going to prune are still empty.  A merge has two      *)
(* homes, since the canonical bucket it copies to may be archived by       *)
(* another repair meanwhile.                                               *)
(*                                                                         *)
(* The second half is about what a repair leaves behind: nothing twice,    *)
(* and a healthy store.                                                    *)
(***************************************************************************)
EXTENDS RecordsRepair, TLAPS

Busy(w) == w.pc \in {"read", "append", "remove"}
Movable(pass) == IF pass = "merge" THEN {Other(p) : p \in Projects} ELSE Dirs \ {Archive}
Dest(pass, src) == IF pass = "merge" THEN Canonical(src[1]) ELSE Archive
Homes(pass, src) == IF pass = "merge" THEN {Canonical(src[1]), Archive} ELSE {Archive}

\* What the phase of a repair says of its other fields.
Shape(w) ==
    /\ w.pc = "next" \/ Busy(w) => w.todo \subseteq Movable(w.pass) /\ w.pass # "recover"
    /\ Busy(w) => w.src \in w.todo
    /\ Busy(w) /\ w.pass # "prune" => w.dst = Dest(w.pass, w.src)
    /\ w.pc \in {"read", "append"} => w.ledger \in 1 .. Ledgers /\ w.pass # "prune"
    /\ w.pc = "remove" => w.ledger = Ledgers + 1

Has(B, x, r) == B[x].count[r] > 0

Copied(w, B) ==
    Busy(w) /\ w.pass # "prune" =>
        \A r \in Rows : Has(B, w.src, r) /\ LedgerOf[r] < w.ledger =>
            \E h \in Homes(w.pass, w.src) : Has(B, h, r)
Holds(w, B) ==
    w.pc = "append" =>
        \A r \in Rows : Has(B, w.src, r) /\ LedgerOf[r] = w.ledger => w.held[r] > 0
StillEmpty(w, B) ==
    w.pass = "prune" /\ w.pc \in {"next", "remove"} =>
        \A x \in w.todo : \A r \in Rows : ~Has(B, x, r)
Sound(w, B) == Copied(w, B) /\ Holds(w, B) /\ StillEmpty(w, B)

Shaped == \A d \in Doctors : Shape(doctor[d])
NoGhosts == \A x \in Dirs : ~bucket[x].there => bucket[x].count = NoRows
Kept == \A r \in recorded : \E x \in Dirs : Has(bucket, x, r)

Typed == TypeOK /\ Shaped
IInv == /\ Typed /\ NoGhosts
        /\ "late" \notin mishaps => Kept /\ \A d \in Doctors : Sound(doctor[d], bucket)

\* The same repair but for what it knows of the others.
Same(v, w) == /\ v.pc = w.pc /\ v.pass = w.pass /\ v.todo = w.todo /\ v.src = w.src
              /\ v.dst = w.dst /\ v.ledger = w.ledger /\ v.held = w.held

-----------------------------------------------------------------------------
(* Directories *)

LEMMA Spellings ==
    /\ Archive \in Dirs
    /\ \A p \in Projects : Canonical(p) \in Dirs \ {Archive} /\ Other(p) \in Dirs \ {Archive}
    /\ \A p \in Projects : Other(p)[1] = p /\ Canonical(p)[1] = p
    /\ \A p, q \in Projects : Canonical(p) # Other(q)
BY DEF Dirs, Archive, Canonical, Other

LEMMA MovableDirs ==
    ASSUME NEW pass, NEW x \in Movable(pass)
    PROVE  /\ x \in Dirs \ {Archive} /\ Dest(pass, x) \in Dirs /\ Dest(pass, x) # x
           /\ Dest(pass, x) \in Homes(pass, x) /\ Homes(pass, x) \subseteq Dirs
           /\ Archive \in Homes(pass, x) /\ x \notin Homes(pass, x)
           /\ \A p \in Projects : x = Canonical(p) => Homes(pass, x) = {Archive}
BY Spellings DEF Movable, Dest, Homes

LEMMA NoneIn ==
    ASSUME NEW c \in [Rows -> Nat]
    PROVE  c = NoRows <=> \A r \in Rows : ~(c[r] > 0)
BY DEF NoRows

-----------------------------------------------------------------------------
(* Repairs that look on *)

\* A store that grows leaves a repair sound if no row came too late for it.
LEMMA Grown ==
    ASSUME NEW B \in [Dirs -> Bucket], NEW C \in [Dirs -> Bucket],
           NEW w \in Doctor, NEW v \in Doctor, Shape(w), Same(v, w), Sound(w, B),
           \A x \in Dirs : \A r \in Rows : Has(B, x, r) => Has(C, x, r),
           \A x \in Dirs : \A r \in Rows : Has(C, x, r) =>
               \/ Has(B, x, r)
               \/ ~( \/ w.src = x /\ (LedgerOf[r] < w.ledger
                                       \/ (LedgerOf[r] = w.ledger /\ w.pc = "append"))
                     \/ w.pass = "prune" /\ x \in w.todo)
    PROVE  Sound(v, C)
<1> USE DEF Busy
<1>1. Busy(w) => w.src \in Dirs /\ Homes(w.pass, w.src) \subseteq Dirs
  BY MovableDirs DEF Shape
<1>2. Copied(v, C)
  BY <1>1 DEF Sound, Copied, Same
<1>3. Holds(v, C)
  BY <1>1 DEF Sound, Holds, Same
<1>4. StillEmpty(v, C)
  BY DEF Sound, StillEmpty, Same, Doctor
<1>5. QED
  BY <1>2, <1>3, <1>4 DEF Sound

\* So does a store that shrinks in one directory, if what goes from a canonical one is
\* archived.
LEMMA Shrunk ==
    ASSUME NEW B \in [Dirs -> Bucket], NEW C \in [Dirs -> Bucket],
           NEW w \in Doctor, NEW v \in Doctor, Shape(w), Same(v, w), Sound(w, B),
           NEW x \in Dirs \ {Archive},
           \A y \in Dirs : \A r \in Rows : Has(C, y, r) => Has(B, y, r),
           \A y \in Dirs \ {x} : \A r \in Rows : Has(B, y, r) => Has(C, y, r),
           \A p \in Projects : x = Canonical(p) =>
               \A r \in Rows : Has(B, x, r) => Has(B, Archive, r)
    PROVE  Sound(v, C)
<1> USE DEF Busy
<1>1. Busy(w) => w.src \in Movable(w.pass)
  BY DEF Shape
<1>2. Copied(v, C)
  <2> SUFFICES ASSUME Busy(w), w.pass # "prune", NEW r \in Rows, Has(C, w.src, r),
                      LedgerOf[r] < w.ledger
               PROVE  \E h \in Homes(w.pass, w.src) : Has(C, h, r)
    BY DEF Copied, Same
  <2>1. w.src \in Dirs /\ Homes(w.pass, w.src) \subseteq Dirs /\ Archive \in Homes(w.pass, w.src)
    BY <1>1, MovableDirs
  <2>2. PICK h \in Homes(w.pass, w.src) : Has(B, h, r)
    BY <2>1 DEF Sound, Copied
  <2>3. CASE h # x
    BY <2>1, <2>2, <2>3
  <2>4. CASE h = x
    <3>1. \E p \in Projects : x = Canonical(p)
      BY <1>1, <2>4, Spellings DEF Homes, Movable
    <3>2. QED
      BY <2>1, <2>2, <2>4, <3>1
  <2>5. QED
    BY <2>3, <2>4
<1>3. Holds(v, C)
  BY <1>1, MovableDirs DEF Sound, Holds, Same
<1>4. StillEmpty(v, C)
  BY DEF Sound, StillEmpty, Same, Doctor
<1>5. QED
  BY <1>2, <1>3, <1>4 DEF Sound

-----------------------------------------------------------------------------
(* Steps *)

LEMMA IdleTyped ==
    /\ Idle \in Doctor /\ Idle.pc = "idle" /\ Gone \in Bucket /\ NoRows \in [Rows -> Nat]
    /\ Gone.count = NoRows
BY DEF Idle, Doctor, Gone, Bucket, NoRows, Labels

\* A repair at a place where Sound and Shape ask nothing of it.
LEMMA AtRest ==
    ASSUME NEW w \in Doctor, NEW B, w.pc \in {"idle", "diagnose", "done"}
    PROVE  Shape(w) /\ Sound(w, B)
BY DEF Shape, Sound, Copied, Holds, StillEmpty, Busy

LEMMA SameShape ==
    ASSUME NEW v, NEW w, Same(v, w), Shape(w)
    PROVE  Shape(v)
BY DEF Same, Shape, Busy

LEMMA DisturbedTyped ==
    ASSUME TypeOK, NEW D \in SUBSET Doctors, doctor' = Disturbed(D)
    PROVE  doctor' \in [Doctors -> Doctor] /\ \A e \in Doctors : Same(doctor'[e], doctor[e])
<1>1. ASSUME NEW e \in Doctors
      PROVE  doctor'[e] \in Doctor /\ Same(doctor'[e], doctor[e])
  <2>1. doctor[e] \in Doctor
    BY DEF TypeOK
  <2>2. doctor'[e] \in {doctor[e], [doctor[e] EXCEPT !.quiet = FALSE]}
    BY DEF Disturbed
  <2>3. [doctor[e] EXCEPT !.quiet = FALSE] \in Doctor
        /\ Same([doctor[e] EXCEPT !.quiet = FALSE], doctor[e])
    BY <2>1 DEF Doctor, Same
  <2>4. QED
    BY <2>1, <2>2, <2>3 DEF Same
<1>2. QED
  BY <1>1 DEF Disturbed

LEMMA RepairTyped ==
    ASSUME TypeOK, NEW d \in Doctors, NEW w \in Doctor, Changes(d, w) \/ Goes(d, w)
    PROVE  /\ doctor' \in [Doctors -> Doctor] /\ doctor'[d] = w
           /\ \A e \in Doctors \ {d} : Same(doctor'[e], doctor[e])
<1>1. CASE Changes(d, w)
  <2> DEFINE f == Disturbed(Others(d))
  <2>1. ASSUME NEW e \in Doctors
        PROVE  f[e] \in Doctor /\ (e # d => Same(f[e], doctor[e]))
    <3>1. doctor[e] \in Doctor
      BY DEF TypeOK
    <3>2. f[e] \in {doctor[e], [doctor[e] EXCEPT !.quiet = FALSE]}
      BY DEF Disturbed
    <3>3. [doctor[e] EXCEPT !.quiet = FALSE] \in Doctor
          /\ Same([doctor[e] EXCEPT !.quiet = FALSE], doctor[e])
      BY <3>1 DEF Doctor, Same
    <3>4. QED
      BY <3>1, <3>2, <3>3 DEF Same
  <2>2. f \in [Doctors -> Doctor]
    BY <2>1 DEF Disturbed
  <2>3. doctor' = [f EXCEPT ![d] = w]
    BY <1>1 DEF Changes
  <2> HIDE DEF f
  <2>4. QED
    BY <2>1, <2>2, <2>3
<1>2. CASE Goes(d, w)
  BY <1>2 DEF TypeOK, Goes, Same
<1>3. QED
  BY <1>1, <1>2

\* What is left to show of a step of repair d: the store it leaves, where it is itself,
\* that nothing is lost and that the others are still sound.
LEMMA RepairStep ==
    ASSUME IInv, NEW d \in Doctors, NEW w \in Doctor, Changes(d, w) \/ Goes(d, w), Shape(w),
           bucket' \in [Dirs -> Bucket], NoGhosts', healing' = healing, runs' \in Nat,
           recorded' = recorded, mishaps' \subseteq Mishaps, mishaps \subseteq mishaps',
           "late" \notin mishaps' /\ Kept /\ (\A e \in Doctors : Sound(doctor[e], bucket)) =>
               /\ Kept' /\ Sound(w, bucket')
               /\ \A e \in Doctors \ {d} : Sound(doctor'[e], bucket')
    PROVE  IInv'
<1>1. /\ doctor' \in [Doctors -> Doctor] /\ doctor'[d] = w
      /\ \A e \in Doctors \ {d} : Same(doctor'[e], doctor[e])
  BY RepairTyped DEF IInv, Typed
<1>2. ASSUME NEW e \in Doctors
      PROVE  Shape(doctor'[e])
  BY <1>1, SameShape DEF IInv, Typed, Shaped
<1>3. \A e \in Doctors : doctor'[e].pc \in {"read", "append"} =>
          /\ doctor'[e].src \in Dirs /\ doctor'[e].dst \in Dirs
          /\ doctor'[e].ledger \in 1 .. Ledgers
  BY <1>2, MovableDirs DEF Shape, Busy
<1>4. Typed'
  BY <1>1, <1>2, <1>3 DEF IInv, Typed, TypeOK, Shaped
<1>5. "late" \notin mishaps' => Kept' /\ \A e \in Doctors : Sound(doctor'[e], bucket')
  BY <1>1 DEF IInv
<1>6. QED
  BY <1>4, <1>5 DEF IInv

\* When no rows move, only the repair that steps has anything to show.
LEMMA RowsStay ==
    ASSUME IInv, NEW d \in Doctors, NEW w \in Doctor, Changes(d, w) \/ Goes(d, w), Shape(w),
           bucket' \in [Dirs -> Bucket], \A x \in Dirs : bucket'[x].count = bucket[x].count,
           \A x \in Dirs : bucket[x].there => bucket'[x].there,
           healing' = healing, runs' \in Nat,
           recorded' = recorded, mishaps' \subseteq Mishaps, mishaps \subseteq mishaps',
           Kept /\ Sound(doctor[d], bucket) => Sound(w, bucket')
    PROVE  IInv'
<1>1. \A e \in Doctors \ {d} : Same(doctor'[e], doctor[e])
      /\ doctor'[e] \in Doctor /\ doctor[e] \in Doctor /\ Shape(doctor[e])
  BY RepairTyped DEF IInv, Typed, TypeOK, Shaped
<1>2. bucket \in [Dirs -> Bucket]
  BY DEF IInv, Typed, TypeOK
<1>3. NoGhosts'
  BY DEF IInv, NoGhosts
<1>4. ASSUME Kept, \A e \in Doctors : Sound(doctor[e], bucket)
      PROVE  /\ Kept' /\ Sound(w, bucket')
             /\ \A e \in Doctors \ {d} : Sound(doctor'[e], bucket')
  <2>1. \A x \in Dirs : \A r \in Rows : Has(bucket', x, r) <=> Has(bucket, x, r)
    BY DEF Has
  <2>2. Kept'
    BY <1>4, <2>1 DEF Kept, Has, IInv, Typed, TypeOK
  <2>3. \A e \in Doctors \ {d} : Sound(doctor'[e], bucket')
    BY <1>1, <1>2, <1>4, <2>1, Grown
  <2>4. QED
    BY <1>4, <2>2, <2>3
<1>5. QED
  BY <1>3, <1>4, RepairStep

-----------------------------------------------------------------------------
(* Commands *)

LEMMA PlusTyped ==
    ASSUME NEW b \in Bucket, NEW rows \in [Rows -> Nat]
    PROVE  /\ Plus(b, rows) \in Bucket /\ Plus(b, rows).there = b.there
           /\ \A r \in Rows : Plus(b, rows).count[r] = b.count[r] + rows[r]
BY DEF Plus, Bucket

LEMMA RecordStep ==
    ASSUME IInv, NEW r \in Rows, Record(r)
    PROVE  IInv'
<1> DEFINE d == Canonical(ProjectOf[r])
<1>1. TypeOK /\ bucket \in [Dirs -> Bucket]
  BY DEF IInv, Typed, TypeOK
<1>2. d \in Dirs /\ ProjectOf[r] \in Projects
  BY RowsAssumption, Spellings
<1> DEFINE row == [q \in Rows |-> IF q = r THEN 1 ELSE 0]
<1>3. bucket' = [bucket EXCEPT ![d] = [Plus(bucket[d], row) EXCEPT !.there = TRUE]]
  BY DEF Record
<1>4. /\ doctor' \in [Doctors -> Doctor]
      /\ \A e \in Doctors : Same(doctor'[e], doctor[e])
  BY <1>1, DisturbedTyped DEF Record
<1> HIDE DEF d
<1>5. /\ bucket' \in [Dirs -> Bucket]
      /\ \A x \in Dirs \ {d} : bucket'[x] = bucket[x]
      /\ bucket'[d].there /\ Has(bucket', d, r)
      /\ \A q \in Rows \ {r} : bucket'[d].count[q] = bucket[d].count[q]
  <2>1. row \in [Rows -> Nat] /\ row[r] = 1 /\ \A q \in Rows \ {r} : row[q] = 0
    OBVIOUS
  <2>2. bucket[d] \in Bucket
    BY <1>1, <1>2
  <2> HIDE DEF row
  <2>3. /\ Plus(bucket[d], row) \in Bucket
        /\ \A q \in Rows : Plus(bucket[d], row).count[q] = bucket[d].count[q] + row[q]
    BY <2>1, <2>2, PlusTyped
  <2> DEFINE b == Plus(bucket[d], row)
             c == [b EXCEPT !.there = TRUE]
  <2>4. bucket' = [bucket EXCEPT ![d] = c] /\ b \in Bucket
    BY <1>3, <2>3
  <2>5. \A q \in Rows : b.count[q] = bucket[d].count[q] + row[q]
    BY <2>3
  <2> HIDE DEF b
  <2>6. c \in Bucket /\ c.there /\ c.count = b.count
    BY <2>4 DEF Bucket
  <2> HIDE DEF c
  <2>7. bucket' \in [Dirs -> Bucket] /\ bucket'[d] = c
        /\ \A x \in Dirs \ {d} : bucket'[x] = bucket[x]
    BY <1>1, <1>2, <2>4, <2>6
  <2>8. \A q \in Rows : bucket[d].count[q] \in Nat
    BY <2>2 DEF Bucket
  <2>9. QED
    BY <2>1, <2>5, <2>6, <2>7, <2>8 DEF Has
<1>6. Typed'
  <2>1. healing' \subseteq Projects /\ recorded' \subseteq Rows /\ mishaps' \subseteq Mishaps
        /\ runs' \in Nat
    BY <1>1, <1>2 DEF Record, TypeOK, Mishaps
  <2>2. \A e \in Doctors : Shape(doctor'[e])
    BY <1>4, SameShape DEF IInv, Typed, Shaped
  <2>3. \A e \in Doctors : doctor'[e].pc \in {"read", "append"} =>
          /\ doctor'[e].src \in Dirs /\ doctor'[e].dst \in Dirs
          /\ doctor'[e].ledger \in 1 .. Ledgers
    BY <1>1, <1>4 DEF TypeOK, Same
  <2>4. QED
    BY <1>4, <1>5, <2>1, <2>2, <2>3 DEF Typed, TypeOK, Shaped
<1>7. NoGhosts'
  BY <1>5 DEF IInv, NoGhosts
<1>8. ASSUME "late" \notin mishaps'
      PROVE  Kept' /\ \A e \in Doctors : Sound(doctor'[e], bucket')
  <2>1. /\ "late" \notin mishaps
        /\ \A e \in Doctors : ~RowTooLate(e, d, r)
    BY <1>8 DEF Record, d
  <2>2. Kept /\ \A e \in Doctors : Sound(doctor[e], bucket)
    BY <2>1 DEF IInv
  <2>3. \A x \in Dirs : \A q \in Rows : Has(bucket, x, q) => Has(bucket', x, q)
    BY <1>5 DEF Has
  <2>4. \A x \in Dirs : \A q \in Rows : Has(bucket', x, q) =>
            Has(bucket, x, q) \/ (x = d /\ q = r)
    BY <1>5 DEF Has
  <2>5. Kept'
    BY <1>1, <1>2, <1>5, <2>2, <2>3 DEF Kept, Record, TypeOK, Has
  <2>6. ASSUME NEW e \in Doctors
        PROVE  Sound(doctor'[e], bucket')
    <3>1. doctor[e] \in Doctor /\ doctor'[e] \in Doctor /\ Shape(doctor[e])
      BY <1>1, <1>4 DEF TypeOK, IInv, Typed, Shaped
    <3>2. QED
      BY <1>1, <1>4, <1>5, <2>1, <2>2, <2>3, <2>4, <3>1, Grown DEF RowTooLate
  <2>7. QED
    BY <2>5, <2>6
<1>9. QED
  BY <1>6, <1>7, <1>8 DEF IInv

LEMMA HealStep ==
    ASSUME IInv, NEW p \in Projects, Heal(p)
    PROVE  IInv'
<1>1. TypeOK /\ bucket \in [Dirs -> Bucket]
  BY DEF IInv, Typed, TypeOK
<1>2. /\ doctor' \in [Doctors -> Doctor]
      /\ \A e \in Doctors : Same(doctor'[e], doctor[e])
  BY <1>1, DisturbedTyped DEF Heal
<1>3. /\ bucket' \in [Dirs -> Bucket]
      /\ \A x \in Dirs : bucket'[x].count = bucket[x].count /\ bucket'[x].there = bucket[x].there
  BY <1>1, Spellings DEF Heal, Bucket, Labels, Labelled
<1>4. Typed'
  <2>1. healing' \subseteq Projects /\ recorded' \subseteq Rows /\ mishaps' \subseteq Mishaps
        /\ runs' \in Nat
    BY <1>1 DEF Heal, TypeOK, Mishaps
  <2>2. \A e \in Doctors : Shape(doctor'[e])
    BY <1>2, SameShape DEF IInv, Typed, Shaped
  <2>3. \A e \in Doctors : doctor'[e].pc \in {"read", "append"} =>
          /\ doctor'[e].src \in Dirs /\ doctor'[e].dst \in Dirs
          /\ doctor'[e].ledger \in 1 .. Ledgers
    BY <1>1, <1>2 DEF TypeOK, Same
  <2>4. QED
    BY <1>2, <1>3, <2>1, <2>2, <2>3 DEF Typed, TypeOK, Shaped
<1>5. NoGhosts'
  BY <1>3 DEF IInv, NoGhosts
<1>6. ASSUME "late" \notin mishaps'
      PROVE  Kept' /\ \A e \in Doctors : Sound(doctor'[e], bucket')
  <2>1. Kept /\ \A e \in Doctors : Sound(doctor[e], bucket)
    BY <1>6 DEF IInv, Heal
  <2>2. \A x \in Dirs : \A q \in Rows : Has(bucket', x, q) <=> Has(bucket, x, q)
    BY <1>3 DEF Has
  <2>3. Kept'
    BY <1>1, <2>1, <2>2 DEF Kept, Heal, TypeOK
  <2>4. ASSUME NEW e \in Doctors
        PROVE  Sound(doctor'[e], bucket')
    <3>1. doctor[e] \in Doctor /\ doctor'[e] \in Doctor /\ Shape(doctor[e])
      BY <1>1, <1>2 DEF TypeOK, IInv, Typed, Shaped
    <3>2. QED
      BY <1>1, <1>2, <1>3, <2>1, <2>2, <3>1, Grown
  <2>5. QED
    BY <2>3, <2>4
<1>7. QED
  BY <1>4, <1>5, <1>6 DEF IInv

LEMMA HealFailsStep ==
    ASSUME IInv, NEW p \in Projects, HealFails(p)
    PROVE  IInv'
<1>1. Typed' /\ NoGhosts'
  BY DEF HealFails, IInv, Typed, TypeOK, Shaped, NoGhosts
<1>2. "late" \notin mishaps' => Kept' /\ \A e \in Doctors : Sound(doctor'[e], bucket')
  BY DEF HealFails, IInv, Kept
<1>3. QED
  BY <1>1, <1>2 DEF IInv

-----------------------------------------------------------------------------
(* Steps of a repair that move no rows *)

LEMMA PassTyped ==
    ASSUME NEW d \in Doctors, doctor[d] \in Doctor, NEW pass \in {"recover", "archive", "prune"}
    PROVE  Pass(d, pass) \in Doctor /\ Pass(d, pass).pc = "diagnose"
BY DEF Pass, Doctor

LEMMA StartStep ==
    ASSUME IInv, NEW d \in Doctors, NEW here \in SUBSET Projects, Start(d, here)
    PROVE  IInv'
<1> DEFINE w == [Idle EXCEPT !.pc = "diagnose", !.quiet = TRUE]
<1>1. w \in Doctor /\ w.pc = "diagnose"
  BY IdleTyped DEF Doctor
<1>2. /\ bucket' \in [Dirs -> Bucket]
      /\ \A x \in Dirs : bucket'[x].count = bucket[x].count /\ bucket'[x].there = bucket[x].there
  BY DEF Start, IInv, Typed, TypeOK, Bucket, Labels, Labelled
<1>3. Changes(d, w) /\ healing' = healing /\ recorded' = recorded /\ runs' \in Nat
      /\ mishaps' \subseteq Mishaps /\ mishaps \subseteq mishaps'
  BY DEF Start, IInv, Typed, TypeOK, Mishaps
<1> HIDE DEF w
<1>4. QED
  BY <1>1, <1>2, <1>3, AtRest, RowsStay

LEMMA DiagnoseMergeStep ==
    ASSUME IInv, NEW d \in Doctors, DiagnoseMerge(d)
    PROVE  IInv'
<1> DEFINE w == [doctor[d] EXCEPT !.pc = "next", !.todo = Duplicates]
<1>1. Duplicates \subseteq Movable("merge") /\ Duplicates \subseteq Dirs
  BY Spellings DEF Duplicates, Movable
<1>2. doctor[d] \in Doctor
  BY DEF IInv, Typed, TypeOK
<1>3. w \in Doctor /\ w.pc = "next" /\ w.pass = "merge" /\ w.todo = Duplicates
  BY <1>1, <1>2 DEF DiagnoseMerge, At, Doctor
<1>4. Goes(d, w) /\ healing' = healing /\ recorded' = recorded /\ runs' \in Nat
      /\ mishaps' \subseteq Mishaps /\ mishaps' = mishaps /\ bucket' = bucket
      /\ bucket' \in [Dirs -> Bucket]
  BY DEF DiagnoseMerge, Goes, Commands, IInv, Typed, TypeOK
<1> HIDE DEF w
<1>5. Shape(w) /\ Sound(w, bucket')
  BY <1>1, <1>3 DEF Shape, Sound, Copied, Holds, StillEmpty, Busy
<1>6. QED
  BY <1>3, <1>4, <1>5, RowsStay

LEMMA RecoverStep ==
    ASSUME IInv, NEW d \in Doctors, NEW known \in SUBSET Projects, Recover(d, known)
    PROVE  IInv'
<1> DEFINE w == Pass(d, "archive")
<1>1. w \in Doctor /\ w.pc = "diagnose"
  BY PassTyped DEF IInv, Typed, TypeOK
<1>2. /\ bucket' \in [Dirs -> Bucket]
      /\ \A x \in Dirs : bucket'[x].count = bucket[x].count
      /\ \A x \in Dirs : bucket[x].there => bucket'[x].there
  BY DEF Recover, IInv, Typed, TypeOK, Bucket, Labels
<1>3. Changes(d, w) /\ healing' = healing /\ recorded' = recorded /\ runs' \in Nat
      /\ mishaps' \subseteq Mishaps /\ mishaps \subseteq mishaps'
  BY DEF Recover, Commands, IInv, Typed, TypeOK, Mishaps
<1> HIDE DEF w
<1>4. QED
  BY <1>1, <1>2, <1>3, AtRest, RowsStay

LEMMA DiagnoseArchiveStep ==
    ASSUME IInv, NEW d \in Doctors, DiagnoseArchive(d)
    PROVE  IInv'
<1> DEFINE w == [doctor[d] EXCEPT !.pc = "next", !.todo = Orphans]
<1>1. Orphans \subseteq Dirs \ {Archive}
  BY DEF Orphans, Orphan
<1>2. doctor[d] \in Doctor
  BY DEF IInv, Typed, TypeOK
<1>3. w \in Doctor /\ w.pc = "next" /\ w.pass = "archive" /\ w.todo = Orphans
  BY <1>1, <1>2 DEF DiagnoseArchive, At, Doctor
<1>4. /\ bucket' \in [Dirs -> Bucket]
      /\ \A x \in Dirs : bucket'[x].count = bucket[x].count
      /\ \A x \in Dirs : bucket[x].there => bucket'[x].there
  <2>1. ASSUME NEW x \in Dirs
        PROVE  /\ bucket'[x] \in Bucket /\ bucket'[x].count = bucket[x].count
               /\ bucket[x].there => bucket'[x].there
    <3>1. bucket[x] \in Bucket
      BY DEF IInv, Typed, TypeOK
    <3>2. bucket'[x] = [there |-> bucket[x].there \/ (x = Archive /\ Orphans # {}),
                        count |-> bucket[x].count,
                        label |-> IF bucket[x].label = "junk" /\ ~Orphan(x) THEN "none"
                                  ELSE bucket[x].label]
      BY <3>1 DEF DiagnoseArchive, Bucket
    <3>3. (bucket[x].there \/ (x = Archive /\ Orphans # {})) \in BOOLEAN
      BY Zenon
    <3>4. QED
      BY <3>1, <3>2, <3>3 DEF Bucket, Labels
  <2>2. QED
    BY <2>1 DEF DiagnoseArchive
<1>5. healing' = healing /\ recorded' = recorded /\ runs' \in Nat
      /\ mishaps' \subseteq Mishaps /\ mishaps' = mishaps
  BY DEF DiagnoseArchive, Commands, IInv, Typed, TypeOK
<1>6. Changes(d, Pass(d, "prune")) \/ Changes(d, w)
  BY DEF DiagnoseArchive
<1>7. Pass(d, "prune") \in Doctor /\ Pass(d, "prune").pc = "diagnose"
  BY <1>2, PassTyped
<1> HIDE DEF w
<1>8. Shape(w) /\ Sound(w, bucket')
  BY <1>1, <1>3 DEF Shape, Sound, Copied, Holds, StillEmpty, Busy, Movable
<1>9. QED
  BY <1>3, <1>4, <1>5, <1>6, <1>7, <1>8, AtRest, RowsStay

LEMMA DiagnosePruneStep ==
    ASSUME IInv, NEW d \in Doctors, DiagnosePrune(d)
    PROVE  IInv'
<1> DEFINE w == [doctor[d] EXCEPT !.pc = "next", !.todo = EmptyBuckets \ {Archive}]
<1>1. EmptyBuckets \ {Archive} \subseteq Dirs \ {Archive}
      /\ \A x \in EmptyBuckets : \A r \in Rows : ~Has(bucket, x, r)
  BY DEF EmptyBuckets, Empty, NoRows, Has
<1>2. doctor[d] \in Doctor
  BY DEF IInv, Typed, TypeOK
<1>3. w \in Doctor /\ w.pc = "next" /\ w.pass = "prune" /\ w.todo = EmptyBuckets \ {Archive}
  BY <1>1, <1>2 DEF DiagnosePrune, At, Doctor
<1>4. Goes(d, w) /\ healing' = healing /\ recorded' = recorded /\ runs' \in Nat
      /\ mishaps' \subseteq Mishaps /\ mishaps' = mishaps /\ bucket' = bucket
      /\ bucket' \in [Dirs -> Bucket]
  BY DEF DiagnosePrune, Goes, Commands, IInv, Typed, TypeOK
<1> HIDE DEF w
<1>5. Shape(w) /\ Sound(w, bucket')
  BY <1>1, <1>3, <1>4 DEF Shape, Sound, Copied, Holds, StillEmpty, Busy, Movable
<1>6. QED
  BY <1>3, <1>4, <1>5, RowsStay

LEMMA MoveNextStep ==
    ASSUME IInv, NEW d \in Doctors, NEW src \in Dirs, MoveNext(d, src)
    PROVE  IInv'
<1> DEFINE dst == IF doctor[d].pass = "merge" THEN Canonical(src[1]) ELSE Archive
           w == [doctor[d] EXCEPT !.pc = "read", !.src = src, !.dst = dst, !.ledger = 1]
<1>1. doctor[d] \in Doctor /\ Shape(doctor[d])
  BY DEF IInv, Typed, TypeOK, Shaped
<1>2. /\ src \in doctor[d].todo /\ src \in Movable(doctor[d].pass)
      /\ dst = Dest(doctor[d].pass, src) /\ dst \in Dirs /\ 1 \in 1 .. Ledgers
      /\ doctor[d].pass \in {"merge", "archive"}
  BY <1>1, MovableDirs, RowsAssumption DEF MoveNext, Shape, Dest
<1>3. /\ bucket' \in [Dirs -> Bucket]
      /\ \A x \in Dirs : bucket'[x].count = bucket[x].count
      /\ \A x \in Dirs : bucket[x].there => bucket'[x].there
  <2>1. bucket \in [Dirs -> Bucket]
    BY DEF IInv, Typed, TypeOK
  <2>2. bucket' = [bucket EXCEPT ![dst].there = TRUE] \/ bucket' = bucket
    BY DEF MoveNext
  <2>3. dst \in Dirs
    BY <1>2
  <2> HIDE DEF dst
  <2> DEFINE made == [bucket[dst] EXCEPT !.there = TRUE]
  <2>4. made \in Bucket /\ made.count = bucket[dst].count /\ made.there
    BY <2>1, <2>3 DEF Bucket
  <2>5. bucket' = [bucket EXCEPT ![dst] = made] \/ bucket' = bucket
    BY <2>2
  <2> HIDE DEF made
  <2>6. QED
    BY <2>1, <2>3, <2>4, <2>5
<1>4. Changes(d, w) /\ healing' = healing /\ recorded' = recorded /\ runs' \in Nat
      /\ mishaps' \subseteq Mishaps /\ mishaps' = mishaps
  BY DEF MoveNext, Commands, IInv, Typed, TypeOK
<1> HIDE DEF dst
<1>5. /\ w \in Doctor /\ w.pc = "read" /\ w.pass = doctor[d].pass /\ w.todo = doctor[d].todo
      /\ w.src = src /\ w.dst = dst /\ w.ledger = 1
  BY <1>1, <1>2 DEF Doctor
<1> HIDE DEF w
<1>6. Shape(w)
  BY <1>1, <1>2, <1>5 DEF Shape, Busy, MoveNext
<1>7. Sound(w, bucket')
  BY <1>2, <1>5, RowsAssumption DEF Sound, Copied, Holds, StillEmpty
<1>8. QED
  BY <1>3, <1>4, <1>5, <1>6, <1>7, RowsStay

LEMMA PruneNextStep ==
    ASSUME IInv, NEW d \in Doctors, NEW src \in Dirs, PruneNext(d, src)
    PROVE  IInv'
<1> DEFINE w == [doctor[d] EXCEPT !.pc = "remove", !.src = src, !.ledger = Ledgers + 1]
<1>1. doctor[d] \in Doctor /\ Shape(doctor[d]) /\ Ledgers + 1 \in Nat
      /\ doctor[d].pass = "prune" /\ doctor[d].pc = "next" /\ src \in doctor[d].todo
  BY RowsAssumption DEF IInv, Typed, TypeOK, Shaped, PruneNext, At
<1>2. /\ w \in Doctor /\ w.pc = "remove" /\ w.pass = "prune" /\ w.todo = doctor[d].todo
      /\ w.src = src /\ w.ledger = Ledgers + 1
  BY <1>1 DEF Doctor
<1>3. Goes(d, w) /\ healing' = healing /\ recorded' = recorded /\ runs' \in Nat
      /\ mishaps' \subseteq Mishaps /\ mishaps' = mishaps /\ bucket' = bucket
      /\ bucket' \in [Dirs -> Bucket]
  BY DEF PruneNext, Goes, Commands, IInv, Typed, TypeOK
<1> HIDE DEF w
<1>4. Shape(w)
  BY <1>1, <1>2 DEF Shape, Busy
<1>5. Sound(doctor[d], bucket) => Sound(w, bucket')
  BY <1>1, <1>2, <1>3 DEF Sound, Copied, Holds, StillEmpty
<1>6. QED
  BY <1>2, <1>3, <1>4, <1>5, RowsStay

LEMMA PassDoneStep ==
    ASSUME IInv, NEW d \in Doctors, PassDone(d)
    PROVE  IInv'
<1> DEFINE w == [doctor[d] EXCEPT !.pc = "done"]
<1>1. doctor[d] \in Doctor /\ Shape(doctor[d]) /\ doctor[d].pc = "next"
      /\ doctor[d].pass \in {"merge", "archive", "prune"}
  BY DEF IInv, Typed, TypeOK, Shaped, PassDone, Shape, Doctor
<1>2. \E v \in {Pass(d, "recover"), Pass(d, "prune"), w} : Changes(d, v)
  BY <1>1 DEF PassDone
<1>3. ASSUME NEW v \in {Pass(d, "recover"), Pass(d, "prune"), w}
      PROVE  v \in Doctor /\ v.pc \in {"diagnose", "done"}
  <2>1. w \in Doctor /\ w.pc = "done"
    BY <1>1 DEF Doctor
  <2>2. QED
    BY <1>1, <2>1, PassTyped
<1>4. /\ bucket' \in [Dirs -> Bucket]
      /\ \A x \in Dirs : bucket'[x].count = bucket[x].count
      /\ \A x \in Dirs : bucket[x].there => bucket'[x].there
  BY DEF PassDone, IInv, Typed, TypeOK, Bucket, Labels
<1>5. healing' = healing /\ recorded' = recorded /\ runs' \in Nat
      /\ mishaps' \subseteq Mishaps /\ mishaps' = mishaps
  BY DEF PassDone, Commands, IInv, Typed, TypeOK
<1> HIDE DEF w
<1>6. QED
  BY <1>2, <1>3, <1>4, <1>5, AtRest, RowsStay

LEMMA EndStep ==
    ASSUME IInv, NEW d \in Doctors, End(d) \/ Crash(d)
    PROVE  IInv'
<1>1. Goes(d, Idle) /\ healing' = healing /\ recorded' = recorded /\ runs' \in Nat
      /\ mishaps' \subseteq Mishaps /\ mishaps \subseteq mishaps' /\ bucket' = bucket
      /\ bucket' \in [Dirs -> Bucket]
  BY DEF End, Crash, Goes, Commands, IInv, Typed, TypeOK, Mishaps
<1>2. QED
  BY <1>1, IdleTyped, AtRest, RowsStay

-----------------------------------------------------------------------------
(* Steps of a repair that copy and remove *)

LEMMA NextLedgerTyped ==
    ASSUME NEW w \in Doctor, w.ledger \in 1 .. Ledgers
    PROVE  /\ NextLedger(w) \in Doctor /\ NextLedger(w).pc \in {"read", "remove"}
           /\ NextLedger(w).pass = w.pass /\ NextLedger(w).todo = w.todo
           /\ NextLedger(w).src = w.src /\ NextLedger(w).dst = w.dst
           /\ NextLedger(w).ledger = w.ledger + 1
           /\ NextLedger(w).pc = "read" => NextLedger(w).ledger \in 1 .. Ledgers
           /\ NextLedger(w).pc = "remove" => NextLedger(w).ledger = Ledgers + 1
<1>1. Ledgers \in Nat /\ Ledgers + 1 \in Nat /\ w.ledger + 1 \in Nat
  BY RowsAssumption
<1>r. NoRows \in [Rows -> Nat]
  BY DEF NoRows
<1>2. CASE w.ledger < Ledgers
  <2> DEFINE n == [w EXCEPT !.pc = "read", !.ledger = w.ledger + 1, !.held = NoRows]
  <2>1. NextLedger(w) = n
    BY <1>2 DEF NextLedger
  <2>2. /\ n \in Doctor /\ n.pc = "read" /\ n.pass = w.pass /\ n.todo = w.todo
        /\ n.src = w.src /\ n.dst = w.dst /\ n.ledger = w.ledger + 1
    BY <1>1, <1>r DEF Doctor
  <2> HIDE DEF n
  <2>3. QED
    BY <1>1, <1>2, <2>1, <2>2
<1>3. CASE ~(w.ledger < Ledgers)
  <2> DEFINE n == [w EXCEPT !.pc = "remove", !.ledger = Ledgers + 1, !.held = NoRows]
  <2>1. NextLedger(w) = n
    BY <1>3 DEF NextLedger
  <2>2. /\ n \in Doctor /\ n.pc = "remove" /\ n.pass = w.pass /\ n.todo = w.todo
        /\ n.src = w.src /\ n.dst = w.dst /\ n.ledger = Ledgers + 1
    BY <1>1, <1>r DEF Doctor
  <2> HIDE DEF n
  <2>3. QED
    BY <1>1, <1>3, <2>1, <2>2
<1>4. QED
  BY <1>2, <1>3

\* Going on to the next ledger is sound when this one is copied.
LEMMA NextLedgerSound ==
    ASSUME NEW w \in Doctor, NEW B, Shape(w), w.pc \in {"read", "append"}, Copied(w, B),
           \A r \in Rows : Has(B, w.src, r) /\ LedgerOf[r] = w.ledger =>
               \E h \in Homes(w.pass, w.src) : Has(B, h, r)
    PROVE  Shape(NextLedger(w)) /\ Sound(NextLedger(w), B)
<1> DEFINE v == NextLedger(w)
<1>1. w.ledger \in 1 .. Ledgers /\ w.pass # "prune" /\ LedgerOf \in [Rows -> 1 .. Ledgers]
  BY RowsAssumption DEF Shape
<1>2. /\ v \in Doctor /\ v.pc \in {"read", "remove"} /\ v.pass = w.pass /\ v.todo = w.todo
      /\ v.src = w.src /\ v.dst = w.dst /\ v.ledger = w.ledger + 1
      /\ v.pc = "read" => v.ledger \in 1 .. Ledgers
      /\ v.pc = "remove" => v.ledger = Ledgers + 1
  BY <1>1, NextLedgerTyped
<1> HIDE DEF v
<1>3. Shape(v)
  BY <1>1, <1>2 DEF Shape, Busy
<1>4. Copied(v, B)
  BY <1>1, <1>2 DEF Copied, Busy
<1>5. Holds(v, B) /\ StillEmpty(v, B)
  BY <1>1, <1>2 DEF Holds, StillEmpty
<1>6. QED
  BY <1>3, <1>4, <1>5 DEF v, Sound

LEMMA NextLedgerShape ==
    ASSUME NEW w \in Doctor, Shape(w), w.pc \in {"read", "append"}
    PROVE  Shape(NextLedger(w)) /\ NextLedger(w) \in Doctor
<1>1. w.ledger \in 1 .. Ledgers
  BY DEF Shape
<1>2. QED
  BY <1>1, NextLedgerTyped DEF Shape, Busy

LEMMA ReadStep ==
    ASSUME IInv, NEW d \in Doctors, Read(d)
    PROVE  IInv'
<1> DEFINE w == doctor[d]
           text == Content(bucket[w.src], w.ledger)
           a == [w EXCEPT !.pc = "append", !.held = text]
<1>1. w \in Doctor /\ Shape(w) /\ w.pc = "read" /\ w.src \in Dirs
      /\ bucket[w.src] \in Bucket
  BY DEF IInv, Typed, TypeOK, Shaped, Read
<1>2. text \in [Rows -> Nat]
      /\ \A r \in Rows : LedgerOf[r] = w.ledger => text[r] = bucket[w.src].count[r]
  BY <1>1 DEF Content, Bucket
<1>3. healing' = healing /\ recorded' = recorded /\ runs' \in Nat
      /\ mishaps' \subseteq Mishaps /\ mishaps' = mishaps /\ bucket' = bucket
      /\ bucket' \in [Dirs -> Bucket]
  BY DEF Read, Goes, Commands, IInv, Typed, TypeOK
<1>4. Goes(d, IF text = NoRows THEN NextLedger(w) ELSE a)
  BY DEF Read
<1> HIDE DEF text, w
<1>5. CASE text = NoRows
  <2>1. \A r \in Rows : ~(Has(bucket, w.src, r) /\ LedgerOf[r] = w.ledger)
    BY <1>2, <1>5 DEF Has, NoRows
  <2>2. Shape(NextLedger(w)) /\ NextLedger(w) \in Doctor
    BY <1>1, NextLedgerShape
  <2>3. Sound(w, bucket) => Sound(NextLedger(w), bucket')
    BY <1>1, <1>3, <2>1, NextLedgerSound DEF Sound
  <2>4. QED
    BY <1>3, <1>4, <1>5, <2>2, <2>3, RowsStay DEF w
<1>6. CASE text # NoRows
  <2>1. /\ a \in Doctor /\ a.pc = "append" /\ a.held = text /\ a.pass = w.pass
        /\ a.todo = w.todo /\ a.src = w.src /\ a.dst = w.dst /\ a.ledger = w.ledger
    BY <1>1, <1>2 DEF Doctor
  <2> HIDE DEF a
  <2>2. Shape(a)
    BY <1>1, <2>1 DEF Shape, Busy
  <2>3. Sound(w, bucket) => Sound(a, bucket')
    BY <1>1, <1>2, <1>3, <2>1 DEF Sound, Copied, Holds, StillEmpty, Busy, Has
  <2>4. QED
    BY <1>3, <1>4, <1>6, <2>1, <2>2, <2>3, RowsStay DEF w
<1>7. QED
  BY <1>5, <1>6

\* What an append of any rows to the destination does to the store and to the others.
LEMMA Appending ==
    ASSUME IInv, NEW d \in Doctors, doctor[d].pc = "append", NEW rows \in [Rows -> Nat],
           bucket' = With(d, rows), NEW w \in Doctor, Changes(d, w),
           Appended(d, rows) \subseteq mishaps', mishaps \subseteq mishaps',
           rows # NoRows => bucket[doctor[d].dst].there
    PROVE  /\ bucket' \in [Dirs -> Bucket] /\ NoGhosts'
           /\ \A x \in Dirs : \A r \in Rows : Has(bucket, x, r) => Has(bucket', x, r)
           /\ \A r \in Rows : rows[r] > 0 => Has(bucket', doctor[d].dst, r)
           /\ \A x \in Dirs \ {doctor[d].dst} : bucket'[x] = bucket[x]
           /\ "late" \notin mishaps' =>
                  \A e \in Doctors \ {d} : Sound(doctor'[e], bucket')
<1> DEFINE dst == doctor[d].dst
<1>1. dst \in Dirs /\ bucket \in [Dirs -> Bucket] /\ bucket[dst] \in Bucket
  BY DEF IInv, Typed, TypeOK
<1>2. bucket' = [bucket EXCEPT ![dst] = Plus(bucket[dst], rows)]
  BY DEF With
<1> HIDE DEF dst
<1>3. /\ Plus(bucket[dst], rows) \in Bucket /\ Plus(bucket[dst], rows).there = bucket[dst].there
      /\ \A r \in Rows : Plus(bucket[dst], rows).count[r] = bucket[dst].count[r] + rows[r]
  BY <1>1, PlusTyped
<1>4. /\ bucket' \in [Dirs -> Bucket]
      /\ \A x \in Dirs \ {dst} : bucket'[x] = bucket[x]
      /\ bucket'[dst].there = bucket[dst].there
      /\ \A r \in Rows : bucket'[dst].count[r] = bucket[dst].count[r] + rows[r]
      /\ \A r \in Rows : bucket[dst].count[r] \in Nat
  BY <1>1, <1>2, <1>3 DEF Bucket
<1>5. \A x \in Dirs : \A r \in Rows : Has(bucket, x, r) => Has(bucket', x, r)
  BY <1>4 DEF Has
<1>6. \A r \in Rows : rows[r] > 0 => Has(bucket', dst, r)
  BY <1>4 DEF Has
<1>7. NoGhosts'
  <2>1. CASE bucket[dst].there
    BY <1>4, <2>1 DEF IInv, NoGhosts
  <2>2. CASE rows = NoRows
    <3>1. bucket'[dst].count = bucket[dst].count
      BY <1>1, <1>2, <1>3, <1>4, <2>2 DEF Plus, NoRows, Bucket
    <3>2. QED
      BY <1>4, <3>1 DEF IInv, NoGhosts
  <2>3. QED
    BY <2>1, <2>2 DEF dst
<1>8. ASSUME "late" \notin mishaps', NEW e \in Doctors \ {d}
      PROVE  Sound(doctor'[e], bucket')
  <2>1. \A r \in Rows : rows[r] > 0 => ~RowTooLate(e, dst, r)
    BY <1>8 DEF Appended, Others, dst
  <2>2. Sound(doctor[e], bucket)
    BY <1>8 DEF IInv
  <2>3. \A x \in Dirs : \A r \in Rows : Has(bucket', x, r) =>
            Has(bucket, x, r) \/ (x = dst /\ rows[r] > 0)
    BY <1>4 DEF Has
  <2>4. /\ doctor[e] \in Doctor /\ doctor'[e] \in Doctor
        /\ Shape(doctor[e]) /\ Same(doctor'[e], doctor[e])
    BY RepairTyped DEF IInv, Typed, TypeOK, Shaped
  <2>5. QED
    BY <1>1, <1>4, <1>5, <2>1, <2>2, <2>3, <2>4, Grown DEF RowTooLate
<1>9. QED
  BY <1>4, <1>5, <1>6, <1>7, <1>8 DEF dst

LEMMA AppendReadStep ==
    ASSUME IInv, NEW d \in Doctors, AppendRead(d)
    PROVE  IInv'
<1> DEFINE w == doctor[d]
           u == [w EXCEPT !.appended = TRUE]
<1>1. /\ w \in Doctor /\ Shape(w) /\ w.pc = "append" /\ w.src \in Dirs /\ w.dst \in Dirs
      /\ w.held \in [Rows -> Nat] /\ bucket[w.dst].there /\ bucket \in [Dirs -> Bucket]
  BY DEF IInv, Typed, TypeOK, Shaped, AppendRead, Doctor
<1>2. /\ bucket' = With(d, w.held) /\ Changes(d, NextLedger(u))
      /\ Appended(d, w.held) \subseteq mishaps' /\ mishaps \subseteq mishaps'
      /\ healing' = healing /\ recorded' = recorded /\ runs' \in Nat
      /\ mishaps' \subseteq Mishaps
  BY DEF AppendRead, Commands, IInv, Typed, TypeOK, Appended, Mishaps
<1>3. u \in Doctor /\ Same(u, w)
  BY <1>1 DEF Doctor, Same
<1> HIDE DEF u
<1>4. Shape(u) /\ u.pc = "append" /\ NextLedger(u) \in Doctor /\ Shape(NextLedger(u))
  BY <1>1, <1>3, SameShape, NextLedgerShape DEF Same
<1>5. /\ bucket' \in [Dirs -> Bucket] /\ NoGhosts'
      /\ \A x \in Dirs : \A r \in Rows : Has(bucket, x, r) => Has(bucket', x, r)
      /\ \A r \in Rows : w.held[r] > 0 => Has(bucket', w.dst, r)
      /\ \A x \in Dirs \ {w.dst} : bucket'[x] = bucket[x]
      /\ "late" \notin mishaps' => \A e \in Doctors \ {d} : Sound(doctor'[e], bucket')
  BY <1>1, <1>2, <1>4, Appending
<1>6. ASSUME Kept
      PROVE  Kept'
  BY <1>2, <1>5, <1>6 DEF Kept, IInv, Typed, TypeOK
<1>7. ASSUME Sound(w, bucket)
      PROVE  Sound(NextLedger(u), bucket')
  <2>1. /\ w.src \in Movable(w.pass) /\ w.dst \in Homes(w.pass, w.src) /\ w.dst # w.src
        /\ w.pass # "prune" /\ Homes(w.pass, w.src) \subseteq Dirs
    BY <1>1, MovableDirs DEF Shape, Busy
  <2>2. \A r \in Rows : Has(bucket', w.src, r) <=> Has(bucket, w.src, r)
    BY <1>1, <1>5, <2>1 DEF Has
  <2>3. Copied(u, bucket')
    BY <1>1, <1>3, <1>5, <1>7, <2>1, <2>2 DEF Sound, Copied, Same, Busy
  <2>4. \A r \in Rows : Has(bucket', u.src, r) /\ LedgerOf[r] = u.ledger =>
               \E h \in Homes(u.pass, u.src) : Has(bucket', h, r)
    BY <1>1, <1>3, <1>5, <1>7, <2>1, <2>2 DEF Sound, Holds, Same
  <2>5. QED
    BY <1>3, <1>4, <2>3, <2>4, NextLedgerSound
<1> HIDE DEF w
<1>8. QED
  BY <1>2, <1>4, <1>5, <1>6, <1>7, RepairStep DEF w

LEMMA AppendFailsStep ==
    ASSUME IInv, NEW d \in Doctors, AppendFails(d)
    PROVE  IInv'
<1>1. /\ doctor[d] \in Doctor /\ doctor[d].pc = "append" /\ doctor[d].held \in [Rows -> Nat]
      /\ Changes(d, Idle) /\ healing' = healing /\ recorded' = recorded /\ runs' \in Nat
  BY DEF AppendFails, Commands, IInv, Typed, TypeOK, Doctor
<1>2. PICK part \in SUBSET (IF bucket[doctor[d].dst].there THEN Rows ELSE {}) :
        LET rows == [r \in Rows |-> IF r \in part THEN doctor[d].held[r] ELSE 0] IN
        /\ bucket' = With(d, rows)
        /\ mishaps' = mishaps \cup Appended(d, rows)
             \cup {m \in {"crash"} : doctor[d].appended \/ rows # NoRows}
  BY DEF AppendFails
<1> DEFINE rows == [r \in Rows |-> IF r \in part THEN doctor[d].held[r] ELSE 0]
<1>3. rows \in [Rows -> Nat]
  BY <1>1
<1>4. rows # NoRows => bucket[doctor[d].dst].there
  BY <1>2 DEF NoRows
<1>5. /\ bucket' = With(d, rows) /\ Appended(d, rows) \subseteq mishaps'
      /\ mishaps \subseteq mishaps' /\ mishaps' \subseteq Mishaps
  BY <1>2 DEF IInv, Typed, TypeOK, Appended, Mishaps
<1> HIDE DEF rows
<1>6. /\ bucket' \in [Dirs -> Bucket] /\ NoGhosts'
      /\ \A x \in Dirs : \A r \in Rows : Has(bucket, x, r) => Has(bucket', x, r)
      /\ "late" \notin mishaps' => \A e \in Doctors \ {d} : Sound(doctor'[e], bucket')
  BY <1>1, <1>3, <1>4, <1>5, IdleTyped, Appending
<1>7. Kept => Kept'
  BY <1>1, <1>6 DEF Kept, IInv, Typed, TypeOK
<1>8. QED
  BY <1>1, <1>5, <1>6, <1>7, IdleTyped, AtRest, RepairStep

\* What any removal, complete or not, does to the store.
LEMMA Removing ==
    ASSUME IInv, NEW d \in Doctors, doctor[d].pc = "remove", NEW v \in Doctor, Changes(d, v),
           NEW b \in Bucket, bucket' = [bucket EXCEPT ![doctor[d].src] = b],
           \A r \in Rows : b.count[r] > 0 => Has(bucket, doctor[d].src, r),
           ~b.there => b.count = NoRows,
           v.pass = doctor[d].pass, v.pc = "next", v.todo \subseteq doctor[d].todo,
           healing' = healing, recorded' = recorded, runs' \in Nat,
           mishaps \subseteq mishaps', mishaps' \subseteq Mishaps
    PROVE  IInv'
<1> DEFINE w == doctor[d]
           x == w.src
<1>1. /\ w \in Doctor /\ Shape(w) /\ w.pc = "remove" /\ bucket \in [Dirs -> Bucket]
      /\ x \in w.todo /\ w.todo \subseteq Movable(w.pass) /\ w.pass # "recover"
      /\ w.ledger = Ledgers + 1
  BY DEF IInv, Typed, TypeOK, Shaped, Shape, Busy
<1>2. /\ x \in Dirs \ {Archive} /\ Homes(w.pass, x) \subseteq Dirs /\ x \notin Homes(w.pass, x)
      /\ \A p \in Projects : x = Canonical(p) => Homes(w.pass, x) = {Archive}
  BY <1>1, MovableDirs
<1> HIDE DEF w, x
<1>3. /\ bucket' \in [Dirs -> Bucket] /\ bucket'[x] = b
      /\ \A y \in Dirs \ {x} : bucket'[y] = bucket[y]
  BY <1>1, <1>2 DEF w, x
<1>4. NoGhosts'
  BY <1>3 DEF IInv, NoGhosts
<1>5. Shape(v)
  BY <1>1 DEF Shape, Busy, w
<1>6. /\ \A y \in Dirs : \A r \in Rows : Has(bucket', y, r) => Has(bucket, y, r)
      /\ \A y \in Dirs \ {x} : \A r \in Rows : Has(bucket, y, r) => Has(bucket', y, r)
  BY <1>3 DEF Has, w, x
<1>7. ASSUME Kept, \A e \in Doctors : Sound(doctor[e], bucket)
      PROVE  /\ Kept' /\ Sound(v, bucket')
             /\ \A e \in Doctors \ {d} : Sound(doctor'[e], bucket')
  <2>1. Sound(w, bucket)
    BY <1>7 DEF w
  <2>2. \A r \in Rows : Has(bucket, x, r) => \E h \in Homes(w.pass, x) : Has(bucket, h, r)
    <3>1. CASE w.pass = "prune"
      BY <1>1, <2>1, <3>1 DEF Sound, StillEmpty
    <3>2. CASE w.pass # "prune"
      <4>1. \A r \in Rows : LedgerOf[r] < w.ledger
        BY <1>1, RowsAssumption
      <4>2. QED
        BY <1>1, <2>1, <3>2, <4>1 DEF Sound, Copied, Busy, x
    <3>3. QED
      BY <3>1, <3>2
  <2>3. Kept'
    <3> SUFFICES ASSUME NEW r \in recorded
                 PROVE  \E y \in Dirs : Has(bucket', y, r)
      BY DEF Kept
    <3>1. r \in Rows
      BY DEF IInv, Typed, TypeOK
    <3>2. PICK y \in Dirs : Has(bucket, y, r)
      BY <1>7 DEF Kept
    <3>3. CASE y # x
      BY <1>6, <3>1, <3>2, <3>3
    <3>4. CASE y = x
      BY <1>2, <1>6, <2>2, <3>1, <3>2, <3>4
    <3>5. QED
      BY <3>3, <3>4
  <2>4. Sound(v, bucket')
    <3>1. Copied(v, bucket') /\ Holds(v, bucket')
      BY DEF Copied, Holds, Busy
    <3>2. StillEmpty(v, bucket')
      BY <1>1, <1>6, <2>1, MovableDirs DEF Sound, StillEmpty, w
    <3>3. QED
      BY <3>1, <3>2 DEF Sound
  <2>5. \A p \in Projects : x = Canonical(p) =>
            \A r \in Rows : Has(bucket, x, r) => Has(bucket, Archive, r)
    BY <1>2, <2>2
  <2>6. ASSUME NEW e \in Doctors \ {d}
        PROVE  Sound(doctor'[e], bucket')
    <3>1. /\ doctor[e] \in Doctor /\ doctor'[e] \in Doctor
          /\ Shape(doctor[e]) /\ Same(doctor'[e], doctor[e])
      BY RepairTyped DEF IInv, Typed, TypeOK, Shaped
    <3>2. QED
      BY <1>1, <1>2, <1>3, <1>6, <1>7, <2>5, <3>1, Shrunk
  <2>7. QED
    BY <2>3, <2>4, <2>6
<1>8. QED
  BY <1>3, <1>4, <1>5, <1>7, RepairStep

LEMMA MovedTyped ==
    ASSUME NEW d \in Doctors, doctor[d] \in Doctor
    PROVE  /\ Moved(d) \in Doctor /\ Moved(d).pass = doctor[d].pass /\ Moved(d).pc = "next"
           /\ Moved(d).todo \subseteq doctor[d].todo
BY DEF Moved, Doctor

LEMMA RemoveBucketStep ==
    ASSUME IInv, NEW d \in Doctors, RemoveBucket(d)
    PROVE  IInv'
<1>1. doctor[d] \in Doctor /\ doctor[d].pc = "remove" /\ Changes(d, Moved(d))
      /\ bucket' = [bucket EXCEPT ![doctor[d].src] = Gone]
      /\ healing' = healing /\ recorded' = recorded /\ runs' \in Nat
      /\ mishaps' \subseteq Mishaps /\ mishaps' = mishaps
  BY DEF RemoveBucket, Commands, IInv, Typed, TypeOK
<1>2. \A r \in Rows : ~(Gone.count[r] > 0)
  BY IdleTyped DEF NoRows
<1>3. QED
  BY <1>1, <1>2, IdleTyped, MovedTyped, Removing

LEMMA RemoveFailsStep ==
    ASSUME IInv, NEW d \in Doctors, RemoveFails(d)
    PROVE  IInv'
<1> DEFINE src == doctor[d].src
           v == [Moved(d) EXCEPT !.quiet = FALSE]
<1>1. doctor[d] \in Doctor /\ doctor[d].pc = "remove" /\ Changes(d, v)
      /\ healing' = healing /\ recorded' = recorded /\ runs' \in Nat
      /\ mishaps' \subseteq Mishaps /\ mishaps \subseteq mishaps'
  BY DEF RemoveFails, Commands, IInv, Typed, TypeOK, Mishaps
<1>2. /\ v \in Doctor /\ v.pass = doctor[d].pass /\ v.pc = "next"
      /\ v.todo \subseteq doctor[d].todo
  BY <1>1, MovedTyped DEF Doctor
<1>3. src \in Dirs /\ bucket[src] \in Bucket
  BY <1>1, MovableDirs DEF IInv, Typed, TypeOK, Shaped, Shape, Busy
<1>4. PICK kept \in SUBSET (1 .. Ledgers), label \in {bucket[src].label, "none"} :
        bucket' = [bucket EXCEPT ![src] = [there |-> TRUE, label |-> label,
           count |-> [r \in Rows |-> IF LedgerOf[r] \in kept THEN bucket[src].count[r] ELSE 0]]]
  BY DEF RemoveFails
<1> DEFINE b == [there |-> TRUE, label |-> label,
           count |-> [r \in Rows |-> IF LedgerOf[r] \in kept THEN bucket[src].count[r] ELSE 0]]
<1>5. b \in Bucket /\ b.there /\ \A r \in Rows : b.count[r] > 0 => Has(bucket, src, r)
  BY <1>3 DEF Bucket, Labels, Has
<1> HIDE DEF b, v
<1>6. QED
  BY <1>1, <1>2, <1>4, <1>5, Removing DEF b

-----------------------------------------------------------------------------
(* The theorems *)

LEMMA InitInv == Init => IInv
<1> SUFFICES ASSUME Init PROVE IInv
  OBVIOUS
<1>1. doctor = [d \in Doctors |-> Idle] /\ healing = {} /\ runs = 0 /\ mishaps = {}
      /\ recorded \subseteq Rows
  BY DEF Init
<1>2. ASSUME NEW d \in Doctors
      PROVE  doctor[d] \in Doctor /\ doctor[d].pc = "idle"
             /\ Shape(doctor[d]) /\ Sound(doctor[d], bucket)
  BY <1>1, IdleTyped, AtRest
<1>3. PICK away \in SUBSET recorded, made \in SUBSET (Dirs \ {Archive}),
          label \in [Dirs \ {Archive} -> Labels] :
          LET in(d, r) == r \in recorded /\ d = IF r \in away THEN Other(ProjectOf[r])
                                                ELSE Canonical(ProjectOf[r])
          IN  /\ \A r \in recorded : \E d \in made : in(d, r)
              /\ \A d \in Dirs \ {Archive} : d \notin made => label[d] = "none"
              /\ bucket = [d \in Dirs |-> IF d \in made
                    THEN [there |-> TRUE, label |-> label[d],
                          count |-> [r \in Rows |-> IF in(d, r) THEN 1 ELSE 0]]
                    ELSE Gone]
  BY Zenon DEF Init
<1> DEFINE in(d, r) == r \in recorded /\ d = IF r \in away THEN Other(ProjectOf[r])
                                                ELSE Canonical(ProjectOf[r])
           full(d) == [there |-> TRUE, label |-> label[d],
                       count |-> [r \in Rows |-> IF in(d, r) THEN 1 ELSE 0]]
<1>4. \A d \in made : full(d) \in Bucket /\ full(d).there
  BY DEF Bucket
<1>5. bucket = [d \in Dirs |-> IF d \in made THEN full(d) ELSE Gone]
  BY <1>3
<1>6. bucket \in [Dirs -> Bucket] /\ NoGhosts
  BY <1>4, <1>5, IdleTyped DEF NoGhosts
<1>7. Kept
  <2> SUFFICES ASSUME NEW r \in recorded
               PROVE  \E x \in Dirs : Has(bucket, x, r)
    BY DEF Kept
  <2>1. PICK d \in made : in(d, r)
    BY <1>3
  <2>2. r \in Rows /\ d \in Dirs
    BY <1>1
  <2>3. full(d).count[r] = 1
    BY <2>1, <2>2
  <2> HIDE DEF full, in
  <2>4. QED
    BY <1>5, <2>2, <2>3 DEF Has
<1>8. QED
  BY <1>1, <1>2, <1>6, <1>7 DEF IInv, Typed, TypeOK, Shaped

LEMMA StepInv == IInv /\ [Next]_vars => IInv'
<1> SUFFICES ASSUME IInv, [Next]_vars PROVE IInv'
  OBVIOUS
<1>1. ASSUME NEW r \in Rows, Record(r) PROVE IInv'
  BY <1>1, RecordStep
<1>2. ASSUME NEW p \in Projects, Heal(p) \/ HealFails(p) PROVE IInv'
  BY <1>2, HealStep, HealFailsStep
<1>3. ASSUME NEW d \in Doctors, NEW here \in SUBSET Projects, Start(d, here) PROVE IInv'
  BY <1>3, StartStep
<1>4. ASSUME NEW d \in Doctors, Crash(d) PROVE IInv'
  BY <1>4, EndStep
<1>5. ASSUME NEW d \in Doctors, Step(d) PROVE IInv'
  <2>1. CASE DiagnoseMerge(d) \/ DiagnoseArchive(d) \/ DiagnosePrune(d)
    BY <2>1, DiagnoseMergeStep, DiagnoseArchiveStep, DiagnosePruneStep
  <2>2. CASE \E known \in SUBSET Projects : Recover(d, known)
    BY <2>2, RecoverStep
  <2>3. CASE \E src \in Dirs : MoveNext(d, src) \/ PruneNext(d, src)
    BY <2>3, MoveNextStep, PruneNextStep
  <2>4. CASE Read(d) \/ AppendRead(d) \/ AppendFails(d)
    BY <2>4, ReadStep, AppendReadStep, AppendFailsStep
  <2>5. CASE RemoveBucket(d) \/ RemoveFails(d)
    BY <2>5, RemoveBucketStep, RemoveFailsStep
  <2>6. CASE PassDone(d) \/ End(d)
    BY <2>6, PassDoneStep, EndStep
  <2>7. QED
    BY <1>5, <2>1, <2>2, <2>3, <2>4, <2>5, <2>6 DEF Step
<1>6. CASE UNCHANGED vars
  <2>1. Typed' /\ NoGhosts'
    BY <1>6 DEF vars, IInv, Typed, TypeOK, Shaped, NoGhosts
  <2>2. "late" \notin mishaps' => Kept' /\ \A d \in Doctors : Sound(doctor'[d], bucket')
    BY <1>6 DEF vars, IInv, Kept
  <2>3. QED
    BY <2>1, <2>2 DEF IInv
<1>7. QED
  <2>1. \A here \in {{}} \cup {{p} : p \in Projects} : here \in SUBSET Projects
    OBVIOUS
  <2>2. QED
    BY <1>1, <1>2, <1>3, <1>4, <1>5, <1>6, <2>1 DEF Next

THEOREM Invariance == Spec => []IInv
  BY InitInv, StepInv, PTL DEF Spec

\* The buckets and the repairs are well formed, for any number of doctors, projects and
\* ledgers; in particular a repair never reads a ledger that does not exist.
THEOREM TypeCorrect == Spec => []TypeOK
<1>1. IInv => TypeOK
  BY DEF IInv, Typed
<1>2. QED
  BY <1>1, Invariance, PTL

\* "Merged, not dropped" (ADR 0014): as long as nothing came too late for a repair, every
\* row that was recorded is in some bucket, whatever crashes, fails and runs side by side.
THEOREM NothingIsLost == Spec => []NeverLost
<1>1. IInv => NeverLost
  <2> SUFFICES ASSUME IInv, "late" \notin mishaps, NEW r \in recorded
               PROVE  \E x \in Dirs : bucket[x].there /\ bucket[x].count[r] > 0
    BY DEF NeverLost
  <2>1. PICK x \in Dirs : bucket[x].count[r] > 0
    BY DEF IInv, Kept, Has
  <2>2. r \in Rows
    BY DEF IInv, Typed, TypeOK
  <2>3. bucket[x].there
    BY <2>1, <2>2 DEF IInv, NoGhosts, NoRows
  <2>4. QED
    BY <2>1, <2>3
<1>2. QED
  BY <1>1, Invariance, PTL

-----------------------------------------------------------------------------
(* Names *)

\* What is left for the archive has no name.
Nameless(w, B) ==
    w.pass = "archive" /\ (w.pc = "next" \/ Busy(w)) => \A x \in w.todo : B[x].label # "clean"
NInv == "late" \notin mishaps => \A d \in Doctors : Nameless(doctor[d], bucket)

\* A repair that looks on has to be told of new names only.
LEMMA NamelessStays ==
    ASSUME IInv, NInv, mishaps \subseteq mishaps', "late" \notin mishaps', NEW e \in Doctors,
           Same(doctor'[e], doctor[e]),
           \A x \in Dirs \ {Archive} : bucket'[x].label = "clean" =>
               bucket[x].label = "clean" \/ ~LabelTooLate(e, x)
    PROVE  Nameless(doctor'[e], bucket')
<1>1. Shape(doctor[e]) /\ Nameless(doctor[e], bucket)
  BY DEF IInv, NInv, Typed, Shaped
<1>2. ASSUME doctor[e].pass = "archive", doctor[e].pc = "next" \/ Busy(doctor[e])
      PROVE  \A x \in doctor[e].todo : bucket'[x].label # "clean"
  <2>1. doctor[e].todo \subseteq Dirs \ {Archive}
    BY <1>1, <1>2 DEF Shape, Movable
  <2>2. QED
    BY <1>1, <1>2, <2>1 DEF Nameless, LabelTooLate
<1>3. QED
  BY <1>2 DEF Nameless, Same, Busy

LEMMA NamelessStep ==
    ASSUME IInv, NInv, NEW d \in Doctors, NEW w \in Doctor, Changes(d, w) \/ Goes(d, w),
           mishaps \subseteq mishaps', Nameless(doctor[d], bucket) => Nameless(w, bucket'),
           \A e \in Doctors \ {d} : \A x \in Dirs \ {Archive} :
               bucket'[x].label = "clean" /\ "late" \notin mishaps' =>
                   bucket[x].label = "clean" \/ ~LabelTooLate(e, x)
    PROVE  NInv'
<1>1. doctor'[d] = w /\ \A e \in Doctors \ {d} : Same(doctor'[e], doctor[e])
  BY RepairTyped DEF IInv, Typed
<1>2. ASSUME "late" \notin mishaps', NEW e \in Doctors \ {d}
      PROVE  Nameless(doctor'[e], bucket')
  BY <1>1, <1>2, NamelessStays
<1>3. "late" \notin mishaps' => Nameless(w, bucket')
  BY DEF NInv
<1>4. QED
  BY <1>1, <1>2, <1>3 DEF NInv

LEMMA NamesOfCommands ==
    ASSUME IInv, NInv, \/ \E r \in Rows : Record(r)
                       \/ \E p \in Projects : Heal(p) \/ HealFails(p)
    PROVE  NInv'
<1>1. ASSUME NEW r \in Rows, Record(r)
      PROVE  NInv'
  <2>1. \A e \in Doctors : Same(doctor'[e], doctor[e])
    BY <1>1, DisturbedTyped DEF Record, IInv, Typed
  <2>2. \A x \in Dirs : bucket'[x].label = bucket[x].label
    <3> DEFINE row == [q \in Rows |-> IF q = r THEN 1 ELSE 0]
    <3>1. bucket \in [Dirs -> Bucket] /\ row \in [Rows -> Nat]
      BY DEF IInv, Typed, TypeOK
    <3>2. \A b \in Bucket : [Plus(b, row) EXCEPT !.there = TRUE].label = b.label
      BY <3>1 DEF Plus, Bucket
    <3>3. bucket' = [bucket EXCEPT ![Canonical(ProjectOf[r])] =
                        [Plus(bucket[Canonical(ProjectOf[r])], row) EXCEPT !.there = TRUE]]
      BY <1>1 DEF Record
    <3> HIDE DEF row
    <3>4. QED
      BY <3>1, <3>2, <3>3
  <2>3. mishaps \subseteq mishaps'
    BY <1>1 DEF Record
  <2>4. QED
    BY <2>1, <2>2, <2>3, NamelessStays DEF NInv
<1>2. ASSUME NEW p \in Projects, Heal(p)
      PROVE  NInv'
  <2>1. \A e \in Doctors : Same(doctor'[e], doctor[e])
    BY <1>2, DisturbedTyped DEF Heal, IInv, Typed
  <2>2. \A x \in Dirs \ {Canonical(p)} : bucket'[x].label = bucket[x].label
    BY <1>2 DEF Heal, IInv, Typed, TypeOK
  <2>3. mishaps \subseteq mishaps'
        /\ ("late" \notin mishaps' => \A e \in Doctors : ~LabelTooLate(e, Canonical(p)))
    BY <1>2 DEF Heal
  <2>4. QED
    BY <2>1, <2>2, <2>3, NamelessStays DEF NInv
<1>3. ASSUME NEW p \in Projects, HealFails(p)
      PROVE  NInv'
  BY <1>3 DEF HealFails, NInv
<1>4. QED
  BY <1>1, <1>2, <1>3

\* The steps that may give a name.
LEMMA NamesGiven ==
    ASSUME IInv, NInv, NEW d \in Doctors,
           \/ \E here \in SUBSET Projects : Start(d, here)
           \/ \E known \in SUBSET Projects : Recover(d, known)
           \/ PassDone(d)
    PROVE  NInv'
<1>1. doctor[d] \in Doctor /\ bucket \in [Dirs -> Bucket]
  BY DEF IInv, Typed, TypeOK
<1>2. ASSUME NEW w \in Doctor, w.pc \in {"diagnose", "done"}
      PROVE  Nameless(w, bucket')
  BY <1>2 DEF Nameless, Busy
<1>3. ASSUME NEW here \in SUBSET Projects, Start(d, here)
      PROVE  NInv'
  <2> DEFINE w == [Idle EXCEPT !.pc = "diagnose", !.quiet = TRUE]
             healed == {Canonical(p) : p \in here}
  <2>1. w \in Doctor /\ w.pc = "diagnose" /\ Changes(d, w) /\ mishaps \subseteq mishaps'
    BY <1>3, IdleTyped DEF Doctor, Start
  <2>2. \A x \in Dirs : x \notin healed => bucket'[x].label = bucket[x].label
    BY <1>3 DEF Start
  <2>3. "late" \notin mishaps' =>
            \A e \in Doctors \ {d} : \A x \in healed : ~LabelTooLate(e, x)
    BY <1>3 DEF Start, Others
  <2> HIDE DEF w, healed
  <2>4. QED
    BY <1>2, <2>1, <2>2, <2>3, NamelessStep
<1>4. ASSUME NEW known \in SUBSET Projects, Recover(d, known)
      PROVE  NInv'
  <2> DEFINE w == Pass(d, "archive")
             given == {Canonical(p) : p \in {q \in known : \E o \in Orphans : o[1] = q}}
  <2>1. w \in Doctor /\ w.pc = "diagnose" /\ Changes(d, w) /\ mishaps \subseteq mishaps'
    BY <1>1, <1>4, PassTyped DEF Recover
  <2>2. \A x \in Dirs : x \notin given => bucket'[x].label = bucket[x].label
    BY <1>4 DEF Recover
  <2>3. "late" \notin mishaps' =>
            \A e \in Doctors \ {d} : \A x \in given : ~LabelTooLate(e, x)
    BY <1>4 DEF Recover, Others
  <2> HIDE DEF w, given
  <2>4. QED
    BY <1>2, <2>1, <2>2, <2>3, NamelessStep
<1>5. CASE PassDone(d)
  <2> DEFINE w == [doctor[d] EXCEPT !.pc = "done"]
  <2>1. doctor[d].pass \in {"merge", "archive", "prune"}
    BY <1>5 DEF IInv, Typed, TypeOK, Shaped, PassDone, Shape, Doctor
  <2>2. \E v \in {Pass(d, "recover"), Pass(d, "prune"), w} : Changes(d, v)
    BY <1>5, <2>1 DEF PassDone
  <2>3. ASSUME NEW v \in {Pass(d, "recover"), Pass(d, "prune"), w}
        PROVE  v \in Doctor /\ v.pc \in {"diagnose", "done"}
    <3>1. w \in Doctor /\ w.pc = "done"
      BY <1>1 DEF Doctor
    <3>2. QED
      BY <1>1, <3>1, PassTyped
  <2>4. mishaps' = mishaps /\ \A x \in Dirs \ {Archive} : bucket'[x] = bucket[x]
    BY <1>1, <1>5 DEF PassDone
  <2> HIDE DEF w
  <2>5. QED
    BY <1>2, <2>2, <2>3, <2>4, NamelessStep
<1>6. QED
  BY <1>3, <1>4, <1>5

\* The steps that give none: it is enough to look at the repair itself.
LEMMA NoNamesGiven ==
    ASSUME IInv, NInv, NEW d \in Doctors, NEW w \in Doctor, Changes(d, w) \/ Goes(d, w),
           mishaps \subseteq mishaps',
           \A x \in Dirs : bucket'[x].label = "clean" => bucket[x].label = "clean",
           \/ w.pass # "archive" \/ w.pc \in {"idle", "diagnose"}
           \/ /\ doctor[d].pass = "archive" /\ (doctor[d].pc = "next" \/ Busy(doctor[d]))
              /\ w.todo \subseteq doctor[d].todo
           \/ \A x \in w.todo : bucket'[x].label # "clean"
    PROVE  NInv'
<1>1. w.todo \subseteq Dirs
  BY DEF Doctor
<1>2. Nameless(doctor[d], bucket) => Nameless(w, bucket')
  BY <1>1 DEF Nameless, Busy
<1>3. QED
  BY <1>2, NamelessStep

LEMMA NamesInDiagnosis ==
    ASSUME IInv, NInv, NEW d \in Doctors,
           DiagnoseMerge(d) \/ DiagnoseArchive(d) \/ DiagnosePrune(d)
    PROVE  NInv'
<1>1. doctor[d] \in Doctor /\ bucket \in [Dirs -> Bucket] /\ mishaps' = mishaps
  BY DEF IInv, Typed, TypeOK, DiagnoseMerge, DiagnoseArchive, DiagnosePrune
<1>2. ASSUME NEW todo \in SUBSET Dirs
      PROVE  LET w == [doctor[d] EXCEPT !.pc = "next", !.todo = todo] IN
             w \in Doctor /\ w.pass = doctor[d].pass /\ w.todo = todo
  BY <1>1 DEF Doctor
<1>3. CASE DiagnoseMerge(d)
  <2> DEFINE w == [doctor[d] EXCEPT !.pc = "next", !.todo = Duplicates]
  <2>1. Duplicates \in SUBSET Dirs
    BY Spellings DEF Duplicates
  <2>2. w \in Doctor /\ w.pass # "archive" /\ Goes(d, w) /\ bucket' = bucket
    BY <1>2, <1>3, <2>1 DEF DiagnoseMerge, At, Goes
  <2> HIDE DEF w
  <2>3. QED
    BY <1>1, <2>2, NoNamesGiven
<1>4. CASE DiagnosePrune(d)
  <2> DEFINE w == [doctor[d] EXCEPT !.pc = "next", !.todo = EmptyBuckets \ {Archive}]
  <2>1. w \in Doctor /\ w.pass # "archive" /\ Goes(d, w) /\ bucket' = bucket
    BY <1>2, <1>4 DEF DiagnosePrune, At, Goes, EmptyBuckets
  <2> HIDE DEF w
  <2>2. QED
    BY <1>1, <2>1, NoNamesGiven
<1>5. CASE DiagnoseArchive(d)
  <2> DEFINE w == [doctor[d] EXCEPT !.pc = "next", !.todo = Orphans]
  <2>1. w \in Doctor /\ w.todo = Orphans
    BY <1>2 DEF Orphans
  <2>2. \A x \in Dirs : bucket'[x].label = "clean" => bucket[x].label = "clean"
    <3> SUFFICES ASSUME NEW x \in Dirs, bucket[x].label # "clean"
                 PROVE  bucket'[x].label # "clean"
      OBVIOUS
    <3>1. bucket[x] \in Bucket
      BY <1>1
    <3>2. bucket'[x].label \in {bucket[x].label, "none"}
      BY <1>5, <3>1 DEF DiagnoseArchive, Bucket
    <3>3. QED
      BY <3>2
  <2>3. \A x \in Orphans : x \in Dirs /\ bucket[x].label # "clean"
    BY DEF Orphans, Orphan
  <2>4. Pass(d, "prune") \in Doctor /\ Pass(d, "prune").pc = "diagnose"
    BY <1>1, PassTyped
  <2>5. Changes(d, Pass(d, "prune")) \/ Changes(d, w)
    BY <1>5 DEF DiagnoseArchive
  <2> HIDE DEF w
  <2>6. QED
    BY <1>1, <2>1, <2>2, <2>3, <2>4, <2>5, NoNamesGiven
<1>6. QED
  BY <1>3, <1>4, <1>5

LEMMA NamesInMoves ==
    ASSUME IInv, NInv, NEW d \in Doctors,
           \/ \E src \in Dirs : MoveNext(d, src) \/ PruneNext(d, src)
           \/ Read(d) \/ AppendRead(d) \/ AppendFails(d)
    PROVE  NInv'
<1>1. doctor[d] \in Doctor /\ bucket \in [Dirs -> Bucket] /\ Shape(doctor[d])
  BY DEF IInv, Typed, TypeOK, Shaped
<1>2. ASSUME NEW rows \in [Rows -> Nat], bucket' = With(d, rows), doctor[d].dst \in Dirs
      PROVE  \A x \in Dirs : bucket'[x].label = bucket[x].label
  <2>1. Plus(bucket[doctor[d].dst], rows).label = bucket[doctor[d].dst].label
    BY <1>1, <1>2 DEF Plus, Bucket
  <2>2. QED
    BY <1>1, <1>2, <2>1 DEF With
<1>3. ASSUME NEW src \in Dirs, MoveNext(d, src)
      PROVE  NInv'
  <2> DEFINE dst == IF doctor[d].pass = "merge" THEN Canonical(src[1]) ELSE Archive
             w == [doctor[d] EXCEPT !.pc = "read", !.src = src, !.dst = dst, !.ledger = 1]
  <2>1. dst \in Dirs /\ dst = Dest(doctor[d].pass, src)
    BY <1>1, <1>3, MovableDirs DEF MoveNext, Shape, Dest
  <2>2. Changes(d, w) /\ mishaps' = mishaps
    BY <1>3 DEF MoveNext
  <2>3. \A x \in Dirs : bucket'[x].label = bucket[x].label
    BY <1>1, <1>3 DEF MoveNext, Bucket
  <2> HIDE DEF dst
  <2>4. w \in Doctor /\ w.pass = doctor[d].pass /\ w.todo = doctor[d].todo
    BY <1>1, <2>1 DEF Doctor
  <2> HIDE DEF w
  <2>5. doctor[d].pc = "next"
    BY <1>3 DEF MoveNext
  <2>6. QED
    BY <2>2, <2>3, <2>4, <2>5, NoNamesGiven
<1>4. ASSUME NEW src \in Dirs, PruneNext(d, src)
      PROVE  NInv'
  <2> DEFINE w == [doctor[d] EXCEPT !.pc = "remove", !.src = src, !.ledger = Ledgers + 1]
  <2>1. Ledgers + 1 \in Nat
    BY RowsAssumption
  <2>2. w \in Doctor /\ w.pass = "prune" /\ Goes(d, w) /\ bucket' = bucket /\ mishaps' = mishaps
    BY <1>1, <1>4, <2>1 DEF PruneNext, At, Goes, Doctor
  <2> HIDE DEF w
  <2>3. QED
    BY <2>2, NoNamesGiven
<1>5. CASE Read(d)
  <2> DEFINE w == doctor[d]
             text == Content(bucket[w.src], w.ledger)
             a == [w EXCEPT !.pc = "append", !.held = text]
  <2>1. /\ Goes(d, IF text = NoRows THEN NextLedger(w) ELSE a) /\ bucket' = bucket
        /\ mishaps' = mishaps /\ w.pc = "read" /\ w.src \in Dirs
    BY <1>5 DEF Read, Goes, IInv, Typed, TypeOK
  <2>2. text \in [Rows -> Nat]
    BY <1>1, <2>1 DEF Content, Bucket
  <2> HIDE DEF text
  <2>3. a \in Doctor /\ a.pass = w.pass /\ a.todo = w.todo
    BY <1>1, <2>2 DEF Doctor
  <2>4. NextLedger(w) \in Doctor /\ NextLedger(w).pass = w.pass /\ NextLedger(w).todo = w.todo
    BY <1>1, <2>1, NextLedgerTyped DEF Shape
  <2> HIDE DEF a
  <2>5. QED
    BY <2>1, <2>3, <2>4, NoNamesGiven DEF Busy
<1>6. CASE AppendRead(d)
  <2> DEFINE u == [doctor[d] EXCEPT !.appended = TRUE]
  <2>1. /\ bucket' = With(d, doctor[d].held) /\ Changes(d, NextLedger(u))
        /\ doctor[d].held \in [Rows -> Nat] /\ mishaps \subseteq mishaps'
        /\ doctor[d].pc = "append" /\ doctor[d].dst \in Dirs
    BY <1>1, <1>6 DEF AppendRead, Doctor, IInv, Typed, TypeOK
  <2>2. /\ u \in Doctor /\ u.pass = doctor[d].pass /\ u.todo = doctor[d].todo
        /\ u.ledger = doctor[d].ledger
    BY <1>1 DEF Doctor
  <2> HIDE DEF u
  <2>3. NextLedger(u) \in Doctor /\ NextLedger(u).pass = u.pass /\ NextLedger(u).todo = u.todo
    BY <1>1, <2>1, <2>2, NextLedgerTyped DEF Shape
  <2>4. \A x \in Dirs : bucket'[x].label = bucket[x].label
    BY <1>2, <2>1
  <2>5. QED
    BY <2>1, <2>2, <2>3, <2>4, NoNamesGiven DEF Busy
<1>7. CASE AppendFails(d)
  <2>1. Changes(d, Idle) /\ mishaps \subseteq mishaps' /\ doctor[d].dst \in Dirs
        /\ doctor[d].held \in [Rows -> Nat]
    BY <1>1, <1>7 DEF AppendFails, Doctor, IInv, Typed, TypeOK
  <2>2. PICK part : bucket' = With(d, [r \in Rows |-> IF r \in part THEN doctor[d].held[r] ELSE 0])
    BY <1>7 DEF AppendFails
  <2> DEFINE rows == [r \in Rows |-> IF r \in part THEN doctor[d].held[r] ELSE 0]
  <2>3. rows \in [Rows -> Nat] /\ bucket' = With(d, rows)
    BY <2>1, <2>2
  <2> HIDE DEF rows
  <2>4. \A x \in Dirs : bucket'[x].label = bucket[x].label
    BY <1>2, <2>1, <2>3
  <2>5. QED
    BY <2>1, <2>4, IdleTyped, NoNamesGiven
<1>8. QED
  BY <1>3, <1>4, <1>5, <1>6, <1>7

LEMMA NamesInRemovals ==
    ASSUME IInv, NInv, NEW d \in Doctors,
           RemoveBucket(d) \/ RemoveFails(d) \/ End(d) \/ Crash(d)
    PROVE  NInv'
<1>1. doctor[d] \in Doctor /\ bucket \in [Dirs -> Bucket] /\ Shape(doctor[d])
  BY DEF IInv, Typed, TypeOK, Shaped
<1>2. doctor[d].pc = "remove" => Busy(doctor[d]) /\ doctor[d].src \in Dirs
  BY <1>1, MovableDirs DEF Shape, Busy
<1>3. CASE RemoveBucket(d)
  <2>1. /\ doctor[d].pc = "remove" /\ Changes(d, Moved(d)) /\ mishaps' = mishaps
        /\ \A x \in Dirs : bucket'[x].label = "clean" => bucket[x].label = "clean"
    BY <1>1, <1>3 DEF RemoveBucket, Gone
  <2>2. QED
    BY <1>1, <1>2, <2>1, MovedTyped, NoNamesGiven
<1>4. CASE RemoveFails(d)
  <2> DEFINE v == [Moved(d) EXCEPT !.quiet = FALSE]
  <2>1. doctor[d].pc = "remove" /\ Changes(d, v) /\ mishaps \subseteq mishaps'
    BY <1>4 DEF RemoveFails
  <2>2. v \in Doctor /\ v.pass = doctor[d].pass /\ v.todo \subseteq doctor[d].todo
    BY <1>1, MovedTyped DEF Doctor
  <2>3. \A x \in Dirs : bucket'[x].label = "clean" => bucket[x].label = "clean"
    <3> DEFINE src == doctor[d].src
    <3>1. PICK left : /\ bucket' = [bucket EXCEPT ![src] = left]
                      /\ left.label \in {bucket[src].label, "none"}
      BY <1>4 DEF RemoveFails
    <3>2. QED
      BY <1>1, <3>1
  <2> HIDE DEF v
  <2>4. QED
    BY <1>2, <2>1, <2>2, <2>3, NoNamesGiven
<1>5. CASE End(d) \/ Crash(d)
  <2>1. Goes(d, Idle) /\ bucket' = bucket /\ mishaps \subseteq mishaps'
    BY <1>5 DEF End, Crash, Goes
  <2>2. QED
    BY <2>1, IdleTyped, NoNamesGiven
<1>6. QED
  BY <1>3, <1>4, <1>5

LEMMA NamesInv ==
    ASSUME IInv, NInv, [Next]_vars
    PROVE  NInv'
<1>1. ASSUME NEW d \in Doctors, Step(d)
      PROVE  NInv'
  BY <1>1, NamesGiven, NamesInDiagnosis, NamesInMoves, NamesInRemovals DEF Step
<1>2. ASSUME NEW d \in Doctors, NEW here \in SUBSET Projects, Start(d, here)
      PROVE  NInv'
  BY <1>2, NamesGiven
<1>3. ASSUME NEW d \in Doctors, Crash(d)
      PROVE  NInv'
  BY <1>3, NamesInRemovals
<1>4. CASE UNCHANGED vars
  BY <1>4 DEF vars, NInv
<1>5. \A here \in {{}} \cup {{p} : p \in Projects} : here \in SUBSET Projects
  OBVIOUS
<1>6. QED
  BY <1>1, <1>2, <1>3, <1>4, <1>5, NamesOfCommands DEF Next

\* A name goes with its directory only, and then the directory had no rows in its history
\* or was a second spelling that has been merged.
LEMMA NamesKept ==
    ASSUME IInv, NInv, Next, NEW c \in Dirs, bucket[c].label = "clean",
           Content(bucket[c], 1) # NoRows, "late" \notin mishaps'
    PROVE  \/ bucket'[c].label = "clean"
           \/ c \in {Other(p) : p \in Projects} /\ MergedAway(c)
<1>1. bucket \in [Dirs -> Bucket] /\ bucket[c] \in Bucket
  BY DEF IInv, Typed, TypeOK
<1>2. \E r \in Rows : Has(bucket, c, r)
  BY <1>1 DEF Content, NoRows, Has, Bucket
<1>3. bucket[c].label = "clean"
  OBVIOUS
<1>4. ASSUME NEW d \in Doctors, doctor[d].pc = "remove", "late" \notin mishaps,
             doctor[d].src = c
      PROVE  doctor[d].pass = "merge" /\ c \in {Other(p) : p \in Projects}
  <2>1. /\ doctor[d].src \in doctor[d].todo /\ doctor[d].todo \subseteq Movable(doctor[d].pass)
        /\ doctor[d].pass \in {"merge", "archive", "prune"}
    BY <1>4 DEF IInv, Typed, TypeOK, Shaped, Shape, Busy, Doctor
  <2>2. CASE doctor[d].pass = "merge"
    BY <1>4, <2>1, <2>2 DEF Movable
  <2>3. CASE doctor[d].pass = "archive"
    BY <1>3, <1>4, <2>1, <2>3 DEF NInv, Nameless, Busy
  <2>4. CASE doctor[d].pass = "prune"
    BY <1>2, <1>4, <2>1, <2>4 DEF IInv, Sound, StillEmpty
  <2>5. QED
    BY <2>1, <2>2, <2>3, <2>4
<1>5. ASSUME NEW rows \in [Rows -> Nat], NEW b \in Bucket
      PROVE  /\ Plus(b, rows).label = b.label
             /\ [Plus(b, rows) EXCEPT !.there = TRUE].label = b.label
  BY DEF Plus, Bucket
<1>6. ASSUME NEW rows \in [Rows -> Nat], NEW d \in Doctors, bucket' = With(d, rows)
      PROVE  bucket'[c].label = "clean"
  BY <1>1, <1>3, <1>5, <1>6 DEF With
<1>7. ASSUME NEW r \in Rows, Record(r)
      PROVE  bucket'[c].label = "clean"
  <2> DEFINE row == [q \in Rows |-> IF q = r THEN 1 ELSE 0]
  <2>1. row \in [Rows -> Nat]
    OBVIOUS
  <2>2. bucket' = [bucket EXCEPT ![Canonical(ProjectOf[r])] =
                      [Plus(bucket[Canonical(ProjectOf[r])], row) EXCEPT !.there = TRUE]]
    BY <1>7 DEF Record
  <2> HIDE DEF row
  <2>3. QED
    BY <1>1, <1>3, <1>5, <2>1, <2>2
<1>8. ASSUME NEW q \in Projects, Heal(q) \/ HealFails(q)
      PROVE  bucket'[c].label = "clean"
  BY <1>1, <1>3, <1>8 DEF Heal, HealFails, Labelled, Bucket
<1>9. ASSUME NEW d \in Doctors, NEW here \in SUBSET Projects, Start(d, here)
      PROVE  bucket'[c].label = "clean"
  BY <1>1, <1>3, <1>9 DEF Start, Labelled, Bucket
<1>10. ASSUME NEW d \in Doctors, NEW known \in SUBSET Projects, Recover(d, known)
       PROVE  bucket'[c].label = "clean"
  BY <1>1, <1>3, <1>10 DEF Recover, Bucket
<1>11. ASSUME NEW d \in Doctors, DiagnoseArchive(d)
       PROVE  bucket'[c].label = "clean"
  BY <1>1, <1>3, <1>11 DEF DiagnoseArchive, Bucket
<1>12. ASSUME NEW d \in Doctors, \/ DiagnoseMerge(d) \/ DiagnosePrune(d) \/ Read(d)
                                 \/ End(d) \/ Crash(d)
                                 \/ \E src \in Dirs : PruneNext(d, src)
       PROVE  bucket'[c].label = "clean"
  BY <1>3, <1>12 DEF DiagnoseMerge, DiagnosePrune, Read, End, Crash, PruneNext, Goes
<1>13. ASSUME NEW d \in Doctors, NEW src \in Dirs, MoveNext(d, src)
       PROVE  bucket'[c].label = "clean"
  BY <1>1, <1>3, <1>13 DEF MoveNext, Bucket
<1>14. ASSUME NEW d \in Doctors, PassDone(d)
       PROVE  bucket'[c].label = "clean"
  BY <1>1, <1>3, <1>14 DEF PassDone
<1>15. ASSUME NEW d \in Doctors, AppendRead(d)
       PROVE  bucket'[c].label = "clean"
  <2>1. doctor[d].held \in [Rows -> Nat]
    BY DEF IInv, Typed, TypeOK, Doctor
  <2>2. QED
    BY <1>6, <1>15, <2>1 DEF AppendRead
<1>16. ASSUME NEW d \in Doctors, AppendFails(d)
       PROVE  bucket'[c].label = "clean"
  <2>1. doctor[d].held \in [Rows -> Nat]
    BY DEF IInv, Typed, TypeOK, Doctor
  <2>2. PICK part : bucket' = With(d, [r \in Rows |-> IF r \in part THEN doctor[d].held[r] ELSE 0])
    BY <1>16 DEF AppendFails
  <2>3. [r \in Rows |-> IF r \in part THEN doctor[d].held[r] ELSE 0] \in [Rows -> Nat]
    BY <2>1
  <2>4. QED
    BY <1>6, <2>2, <2>3
<1>17. ASSUME NEW d \in Doctors, RemoveBucket(d) \/ RemoveFails(d)
       PROVE  \/ bucket'[c].label = "clean"
              \/ c \in {Other(p) : p \in Projects} /\ MergedAway(c)
  <2>1. doctor[d].pc = "remove" /\ "late" \notin mishaps
    BY <1>17 DEF RemoveBucket, RemoveFails
  <2>2. CASE doctor[d].src # c
    BY <1>1, <1>3, <1>17, <2>2 DEF RemoveBucket, RemoveFails
  <2>3. CASE doctor[d].src = c
    <3>1. doctor[d].pass = "merge" /\ c \in {Other(p) : p \in Projects}
      BY <1>4, <2>1, <2>3
    <3>2. doctor'[d].pc = "next"
      <4>1. TypeOK /\ Moved(d) \in Doctor /\ Moved(d).pc = "next"
        BY MovedTyped DEF IInv, Typed, TypeOK
      <4>2. /\ [Moved(d) EXCEPT !.quiet = FALSE] \in Doctor
            /\ [Moved(d) EXCEPT !.quiet = FALSE].pc = "next"
        BY <4>1 DEF Doctor
      <4>3. \/ Changes(d, Moved(d))
            \/ Changes(d, [Moved(d) EXCEPT !.quiet = FALSE])
        BY <1>17 DEF RemoveBucket, RemoveFails
      <4>4. QED
        BY <4>1, <4>2, <4>3, RepairTyped
    <3>3. QED
      BY <2>1, <2>3, <3>1, <3>2 DEF MergedAway, At
  <2>4. QED
    BY <2>2, <2>3
<1>18. \A here \in {{}} \cup {{q} : q \in Projects} : here \in SUBSET Projects
  OBVIOUS
<1>19. QED
  BY <1>7, <1>8, <1>9, <1>10, <1>11, <1>12, <1>13, <1>14, <1>15, <1>16, <1>17, <1>18
     DEF Next, Step

\* A bucket that has a name and a history keeps the name through every repair, whatever
\* crashes, fails and runs side by side, unless it got it while a repair had already found
\* it without one, or is a second spelling whose rows mergeDuplicateBuckets has moved.
THEOREM NamesSurvive == Spec => NameSurvives
<1>1. Init => NInv
  BY IdleTyped DEF Init, NInv, Nameless, Busy
<1>2. IInv /\ NInv /\ [Next]_vars => NInv'
  BY NamesInv
<1>3. Spec => []NInv
  BY <1>1, <1>2, Invariance, PTL DEF Spec
<1>4. IInv /\ NInv /\ [Next]_vars =>
        [\A d \in Dirs :
            bucket[d].label = "clean" /\ Content(bucket[d], 1) # NoRows /\ "late" \notin mishaps'
              => \/ bucket'[d].label = "clean"
                 \/ d \in {Other(p) : p \in Projects} /\ MergedAway(d)]_vars
  BY NamesKept
<1>5. QED
  BY <1>3, <1>4, Invariance, PTL DEF Spec, NameSurvives

-----------------------------------------------------------------------------
(* What a repair leaves behind: every row is there once when no repair is   *)
(* under way, unless one died, was left with what it could not remove or    *)
(* had company; and a repair that had the store to itself leaves it         *)
(* healthy.                                                                 *)
(*                                                                          *)
(* In between a row is there twice, and in between a store has orphans and  *)
(* duplicates, also some that the repair has made itself: a directory made  *)
(* for a recovered name is a duplicate of the orphan it names.  So both     *)
(* invariants say what is still going to be put right, and by which step.   *)

\* The same repair but for whether it is disturbed.
Stays(v, w) == Same(v, w) /\ v.appended = w.appended

Unharmed == mishaps \cap {"crash", "leftover", "overlap"} = {}
Resting(w) == w.pc = "idle" /\ ~w.appended
OneAtWork == \A d, e \in Doctors : doctor[d].pc # "idle" /\ doctor[e].pc # "idle" => d = e
Fresh == \A r \in Rows \ recorded, x \in Dirs : bucket[x].count[r] = 0

\* What a repair has in hand, and the rows that are there twice because of it.
Carried(w, B) ==
    /\ w.appended => Busy(w) /\ w.pass # "prune"
    /\ w.pc = "append" => \A r \in Rows :
           w.held[r] <= 1 /\ (w.held[r] > 0 => Has(B, w.src, r) /\ LedgerOf[r] = w.ledger)
Copying(w, r, x, y) == w.appended /\ LedgerOf[r] < w.ledger /\ {x, y} = {w.src, w.dst}
Single ==
    \A r \in Rows, x, y \in Dirs :
        /\ bucket[x].count[r] <= 1
        /\ Has(bucket, x, r) /\ Has(bucket, y, r) /\ x # y =>
               \E d \in Doctors : Copying(doctor[d], r, x, y)

Once == OneAtWork /\ Fresh /\ Single /\ \A d \in Doctors : Carried(doctor[d], bucket)
OnceInv == Unharmed => Once

-----------------------------------------------------------------------------
(* Rows *)

LEMMA OthersStay ==
    ASSUME TypeOK, NEW d \in Doctors, NEW w \in Doctor, Changes(d, w) \/ Goes(d, w)
    PROVE  doctor'[d] = w /\ \A e \in Doctors \ {d} : Stays(doctor'[e], doctor[e])
<1>1. doctor'[d] = w /\ \A e \in Doctors \ {d} : Same(doctor'[e], doctor[e])
  BY RepairTyped
<1>2. ASSUME NEW e \in Doctors \ {d}
      PROVE  doctor'[e].appended = doctor[e].appended
  <2>1. doctor[e] \in Doctor
    BY DEF TypeOK
  <2>2. doctor'[e] \in {doctor[e], [doctor[e] EXCEPT !.quiet = FALSE]}
    <3>1. CASE Goes(d, w)
      BY <3>1 DEF Goes, TypeOK
    <3>2. CASE Changes(d, w)
      <4> DEFINE f == Disturbed(Others(d))
      <4>1. f[e] \in {doctor[e], [doctor[e] EXCEPT !.quiet = FALSE]}
        BY DEF Disturbed
      <4>2. doctor' = [f EXCEPT ![d] = w]
        BY <3>2 DEF Changes
      <4> HIDE DEF f
      <4>3. doctor'[e] = f[e]
        BY <4>2
      <4>4. QED
        BY <4>1, <4>3
    <3>3. QED
      BY <3>1, <3>2
  <2>3. QED
    BY <2>1, <2>2 DEF Doctor
<1>3. QED
  BY <1>1, <1>2 DEF Stays

LEMMA AllStay ==
    ASSUME TypeOK, NEW D \in SUBSET Doctors, doctor' = Disturbed(D)
    PROVE  \A e \in Doctors : Stays(doctor'[e], doctor[e])
<1>1. \A e \in Doctors : Same(doctor'[e], doctor[e])
  BY DisturbedTyped
<1>2. ASSUME NEW e \in Doctors
      PROVE  doctor'[e].appended = doctor[e].appended
  <2>1. doctor[e] \in Doctor
    BY DEF TypeOK
  <2>2. doctor'[e] \in {doctor[e], [doctor[e] EXCEPT !.quiet = FALSE]}
    BY DEF Disturbed
  <2>3. QED
    BY <2>1, <2>2 DEF Doctor
<1>3. QED
  BY <1>1, <1>2 DEF Stays

\* Nothing that counts is touched.
LEMMA OnceStays ==
    ASSUME Once, \A e \in Doctors : Stays(doctor'[e], doctor[e]), recorded' = recorded,
           \A x \in Dirs : bucket'[x].count = bucket[x].count,
           \A e \in Doctors : Busy(doctor[e]) => doctor[e].src \in Dirs
    PROVE  Once'
<1>1. \A x \in Dirs, r \in Rows : Has(bucket', x, r) <=> Has(bucket, x, r)
  BY DEF Has
<1>2. OneAtWork' /\ Fresh'
  BY DEF Once, OneAtWork, Fresh, Stays, Same
<1>3. Single'
  BY <1>1 DEF Once, Single, Copying, Stays, Same
<1>4. \A e \in Doctors : Carried(doctor'[e], bucket')
  BY <1>1 DEF Once, Carried, Stays, Same, Busy
<1>5. QED
  BY <1>2, <1>3, <1>4 DEF Once

\* A repair at work is alone, so it is the only one with anything in hand.
LEMMA OnlyOne ==
    ASSUME Once, NEW d \in Doctors,
           doctor[d].pc # "idle" \/ \A e \in Others(d) : doctor[e].pc = "idle"
    PROVE  /\ \A e \in Doctors \ {d} : Resting(doctor[e])
           /\ \A r \in Rows, x, y \in Dirs : Has(bucket, x, r) /\ Has(bucket, y, r) /\ x # y =>
                  Copying(doctor[d], r, x, y)
<1>1. \A e \in Doctors \ {d} : doctor[e].pc = "idle"
  BY DEF Once, OneAtWork, Others
<1>2. \A e \in Doctors \ {d} : Resting(doctor[e])
  BY <1>1 DEF Once, Carried, Busy, Resting
<1>3. QED
  BY <1>2 DEF Once, Single, Copying, Resting

\* What is left to show of a step of repair d.
LEMMA OnceMoves ==
    ASSUME IInv, Once, NEW d \in Doctors,
           doctor[d].pc # "idle" \/ \A e \in Others(d) : doctor[e].pc = "idle",
           NEW w \in Doctor, Changes(d, w) \/ Goes(d, w), recorded' = recorded,
           Fresh', Carried(w, bucket'), \A x \in Dirs, r \in Rows : bucket'[x].count[r] <= 1,
           \A r \in Rows, x, y \in Dirs : Has(bucket', x, r) /\ Has(bucket', y, r) /\ x # y =>
               Copying(w, r, x, y)
    PROVE  Once'
<1>1. doctor'[d] = w /\ \A e \in Doctors \ {d} : Stays(doctor'[e], doctor[e])
  BY OthersStay DEF IInv, Typed
<1>2. \A e \in Doctors \ {d} : Resting(doctor[e])
  BY OnlyOne
<1>3. \A e \in Doctors \ {d} : Resting(doctor'[e])
  BY <1>1, <1>2 DEF Stays, Same, Resting
<1>4. OneAtWork'
  BY <1>3 DEF OneAtWork, Resting
<1>5. Single'
  BY <1>1 DEF Single
<1>6. \A e \in Doctors : Carried(doctor'[e], bucket')
  BY <1>1, <1>3 DEF Carried, Resting
<1>7. QED
  BY <1>4, <1>5, <1>6 DEF Once

\* Steps that move no rows: the repair has nothing in hand, or goes on with what it has.
LEMMA CountsStay ==
    ASSUME IInv, Once, NEW d \in Doctors,
           doctor[d].pc # "idle" \/ \A e \in Others(d) : doctor[e].pc = "idle",
           NEW w \in Doctor, Changes(d, w) \/ Goes(d, w), recorded' = recorded,
           \A x \in Dirs, r \in Rows : bucket'[x].count[r] = bucket[x].count[r],
           Carried(w, bucket'),
           \/ ~doctor[d].appended
           \/ /\ w.appended /\ w.src = doctor[d].src /\ w.dst = doctor[d].dst
              /\ \A r \in Rows : LedgerOf[r] < doctor[d].ledger => LedgerOf[r] < w.ledger
    PROVE  Once'
<1>1. \A r \in Rows, x, y \in Dirs : Has(bucket, x, r) /\ Has(bucket, y, r) /\ x # y =>
                  Copying(doctor[d], r, x, y)
  BY OnlyOne
<1>2. \A r \in Rows, x, y \in Dirs : Has(bucket', x, r) /\ Has(bucket', y, r) /\ x # y =>
                  Copying(w, r, x, y)
  BY <1>1 DEF Has, Copying
<1>3. Fresh'
  BY DEF Once, Fresh
<1>4. \A x \in Dirs, r \in Rows : bucket'[x].count[r] <= 1
  BY DEF Once, Single
<1>5. QED
  BY <1>2, <1>3, <1>4, OnceMoves

LEMMA Known ==
    ASSUME IInv, NEW d \in Doctors
    PROVE  /\ doctor[d] \in Doctor /\ Shape(doctor[d]) /\ bucket \in [Dirs -> Bucket]
           /\ LedgerOf \in [Rows -> 1 .. Ledgers]
           /\ Busy(doctor[d]) => /\ doctor[d].src \in Dirs
                                 /\ doctor[d].pass # "prune" => /\ doctor[d].dst \in Dirs
                                                               /\ doctor[d].dst # doctor[d].src
<1>1. doctor[d] \in Doctor /\ Shape(doctor[d]) /\ bucket \in [Dirs -> Bucket]
  BY DEF IInv, Typed, TypeOK, Shaped
<1>2. Busy(doctor[d]) => doctor[d].src \in Movable(doctor[d].pass)
  BY <1>1 DEF Shape, Busy
<1>3. QED
  BY <1>1, <1>2, MovableDirs, RowsAssumption DEF Shape, Busy

LEMMA RecordOnce ==
    ASSUME IInv, Once, NEW r \in Rows, Record(r)
    PROVE  Once'
<1> DEFINE d == Canonical(ProjectOf[r])
           row == [q \in Rows |-> IF q = r THEN 1 ELSE 0]
<1>1. d \in Dirs /\ bucket \in [Dirs -> Bucket] /\ bucket[d] \in Bucket
  BY RowsAssumption, Spellings DEF IInv, Typed, TypeOK
<1>2. /\ bucket' = [bucket EXCEPT ![d] = [Plus(bucket[d], row) EXCEPT !.there = TRUE]]
      /\ recorded' = recorded \cup {r} /\ r \notin recorded /\ doctor' = Disturbed(Doctors)
  BY DEF Record
<1>3. \A e \in Doctors : Stays(doctor'[e], doctor[e])
  BY <1>2, AllStay DEF IInv, Typed
<1>4. row \in [Rows -> Nat] /\ row[r] = 1 /\ \A q \in Rows \ {r} : row[q] = 0
  OBVIOUS
<1> HIDE DEF d, row
<1>5. /\ Plus(bucket[d], row) \in Bucket
      /\ \A q \in Rows : Plus(bucket[d], row).count[q] = bucket[d].count[q] + row[q]
  BY <1>1, <1>4, PlusTyped
<1>6. /\ \A x \in Dirs \ {d} : bucket'[x] = bucket[x]
      /\ \A q \in Rows : bucket'[d].count[q] = bucket[d].count[q] + row[q]
  BY <1>1, <1>2, <1>5 DEF Bucket
<1>7. /\ \A x \in Dirs, q \in Rows : bucket[x].count[q] \in Nat
      /\ \A x \in Dirs : bucket[x].count[r] = 0
  BY <1>1, <1>2 DEF Bucket, Once, Fresh
<1>8. /\ \A x \in Dirs, q \in Rows \ {r} : bucket'[x].count[q] = bucket[x].count[q]
      /\ \A x \in Dirs : bucket'[x].count[r] = IF x = d THEN 1 ELSE 0
  BY <1>1, <1>4, <1>6, <1>7
<1>9. OneAtWork' /\ Fresh'
  BY <1>2, <1>3, <1>8 DEF Once, OneAtWork, Fresh, Stays, Same
<1>10. Single'
  <2>1. \A q \in Rows, x, y \in Dirs :
            Has(bucket', x, q) /\ Has(bucket', y, q) /\ x # y =>
                q # r /\ Has(bucket, x, q) /\ Has(bucket, y, q)
    BY <1>8 DEF Has
  <2>2. \A q \in Rows, x \in Dirs : bucket'[x].count[q] <= 1
    BY <1>8 DEF Once, Single
  <2>3. QED
    BY <1>3, <2>1, <2>2 DEF Once, Single, Copying, Stays, Same
<1>11. ASSUME NEW e \in Doctors
       PROVE  Carried(doctor'[e], bucket')
  <2>1. Busy(doctor[e]) => doctor[e].src \in Dirs
    BY Known
  <2>2. \A x \in Dirs, q \in Rows : Has(bucket, x, q) => Has(bucket', x, q)
    BY <1>7, <1>8 DEF Has
  <2>3. QED
    BY <1>3, <2>1, <2>2 DEF Once, Carried, Stays, Same, Busy
<1>12. QED
  BY <1>9, <1>10, <1>11 DEF Once

LEMMA HealOnce ==
    ASSUME IInv, Once, NEW p \in Projects, Heal(p) \/ HealFails(p)
    PROVE  Once'
<1>1. \A e \in Doctors : Busy(doctor[e]) => doctor[e].src \in Dirs
  BY Known
<1>2. bucket \in [Dirs -> Bucket] /\ Canonical(p) \in Dirs
  BY Spellings DEF IInv, Typed, TypeOK
<1>3. CASE Heal(p)
  <2>1. \A x \in Dirs : bucket'[x].count = bucket[x].count
    BY <1>2, <1>3 DEF Heal, Labelled, Bucket
  <2>2. \A e \in Doctors : Stays(doctor'[e], doctor[e])
    BY <1>3, AllStay DEF Heal, IInv, Typed
  <2>3. QED
    BY <1>1, <1>3, <2>1, <2>2, OnceStays DEF Heal
<1>4. CASE HealFails(p)
  BY <1>1, <1>4, OnceStays DEF HealFails, Stays, Same
<1>5. QED
  BY <1>3, <1>4

\* A repair with nothing in hand stays so.
LEMMA EmptyHanded ==
    ASSUME NEW w, NEW B, ~w.appended, w.pc # "append"
    PROVE  Carried(w, B)
  BY DEF Carried

LEMMA StartOnce ==
    ASSUME IInv, Once, NEW d \in Doctors, NEW here \in SUBSET Projects, Start(d, here), Unharmed'
    PROVE  Once'
<1> DEFINE w == [Idle EXCEPT !.pc = "diagnose", !.quiet = TRUE]
<1>1. w \in Doctor /\ w.pc = "diagnose" /\ ~w.appended
  BY IdleTyped DEF Doctor, Idle
<1>2. \A x \in Dirs : bucket'[x].count = bucket[x].count
  BY DEF Start, IInv, Typed, TypeOK, Bucket, Labelled
<1>3. Changes(d, w) /\ recorded' = recorded /\ doctor[d].pc = "idle"
  BY DEF Start
<1>4. \A e \in Others(d) : doctor[e].pc = "idle"
  BY DEF Start, Unharmed
<1> HIDE DEF w
<1>5. ~doctor[d].appended
  BY <1>3 DEF Once, Carried, Busy
<1>6. QED
  BY <1>1, <1>2, <1>3, <1>4, <1>5, EmptyHanded, CountsStay

LEMMA PassesOnce ==
    ASSUME IInv, Once, NEW d \in Doctors,
           \/ DiagnoseMerge(d) \/ DiagnoseArchive(d) \/ DiagnosePrune(d) \/ PassDone(d) \/ End(d)
           \/ \E known \in SUBSET Projects : Recover(d, known)
           \/ \E src \in Dirs : MoveNext(d, src) \/ PruneNext(d, src),
           TypeOK'
    PROVE  Once'
<1>1. doctor[d] \in Doctor /\ bucket \in [Dirs -> Bucket]
  BY Known
<1>2. doctor[d].pc \in {"diagnose", "next", "done"} /\ recorded' = recorded
  BY DEF DiagnoseMerge, DiagnoseArchive, DiagnosePrune, PassDone, End, Recover, MoveNext, PruneNext,
         At, Commands
<1>3. ~doctor[d].appended
  BY <1>2 DEF Once, Carried, Busy
<1>4. \A x \in Dirs, r \in Rows : bucket'[x].count[r] = bucket[x].count[r]
  <2>1. CASE DiagnoseMerge(d) \/ DiagnosePrune(d) \/ End(d)
    BY <2>1 DEF DiagnoseMerge, DiagnosePrune, End, Goes
  <2>2. CASE DiagnoseArchive(d)
    BY <1>1, <2>2 DEF DiagnoseArchive, Bucket
  <2>3. CASE PassDone(d)
    BY <1>1, <2>3 DEF PassDone, Bucket
  <2>4. CASE \E known \in SUBSET Projects : Recover(d, known)
    <3>1. PICK known : Recover(d, known)
      BY <2>4
    <3>2. ASSUME NEW x \in Dirs PROVE bucket'[x].count = bucket[x].count
      <4>1. \/ bucket'[x] = [bucket[x] EXCEPT !.there = TRUE, !.label = "clean"]
            \/ bucket'[x] = bucket[x]
        BY <3>1 DEF Recover
      <4>2. QED
        BY <1>1, <4>1 DEF Bucket
    <3>3. QED
      BY <3>2
  <2>5. CASE \E src \in Dirs : PruneNext(d, src)
    BY <2>5 DEF PruneNext, Goes
  <2>6. CASE \E src \in Dirs : MoveNext(d, src)
    <3>1. PICK dst : bucket' = bucket \/ bucket' = [bucket EXCEPT ![dst].there = TRUE]
      BY <2>6 DEF MoveNext
    <3>2. QED
      BY <1>1, <3>1 DEF Bucket
  <2>7. QED
    BY <2>1, <2>2, <2>3, <2>4, <2>5, <2>6
<1> DEFINE w == doctor[d]
           next(t) == [w EXCEPT !.pc = "next", !.todo = t]
           move(s, t) == [w EXCEPT !.pc = "read", !.src = s, !.dst = t, !.ledger = 1]
           prune(s) == [w EXCEPT !.pc = "remove", !.src = s, !.ledger = Ledgers + 1]
           done == [w EXCEPT !.pc = "done"]
<1>f. /\ \A t : ~next(t).appended /\ next(t).pc # "append"
      /\ \A s, t : ~move(s, t).appended /\ move(s, t).pc # "append"
      /\ \A s : ~prune(s).appended /\ prune(s).pc # "append"
      /\ ~done.appended /\ done.pc # "append"
      /\ \A pass : ~Pass(d, pass).appended /\ Pass(d, pass).pc # "append"
  BY <1>1, <1>3 DEF Pass, Doctor
<1>5. \E v : (Changes(d, v) \/ Goes(d, v)) /\ ~v.appended /\ v.pc # "append"
  <2>1. CASE DiagnoseMerge(d)
    <3>1. Goes(d, next(Duplicates))
      BY <2>1 DEF DiagnoseMerge
    <3> HIDE DEF next, w
    <3>2. QED
      BY <1>f, <3>1
  <2>2. CASE DiagnosePrune(d)
    <3>1. Goes(d, next(EmptyBuckets \ {Archive}))
      BY <2>2 DEF DiagnosePrune
    <3> HIDE DEF next, w
    <3>2. QED
      BY <1>f, <3>1
  <2>3. CASE End(d)
    BY <2>3 DEF End, Idle
  <2>4. CASE DiagnoseArchive(d)
    <3>1. Changes(d, Pass(d, "prune")) \/ Changes(d, next(Orphans))
      BY <2>4 DEF DiagnoseArchive
    <3> HIDE DEF next, w
    <3>2. QED
      BY <1>f, <3>1
  <2>5. CASE PassDone(d)
    <3>1. w.pass \in {"merge", "archive", "prune"}
      BY <1>1, <2>5, Known DEF PassDone, Shape, Doctor
    <3>2. Changes(d, Pass(d, "recover")) \/ Changes(d, Pass(d, "prune")) \/ Changes(d, done)
      BY <2>5, <3>1 DEF PassDone
    <3> HIDE DEF done, w
    <3>3. QED
      BY <1>f, <3>2
  <2>6. CASE \E known \in SUBSET Projects : Recover(d, known)
    <3>1. Changes(d, Pass(d, "archive"))
      BY <2>6 DEF Recover
    <3>2. QED
      BY <1>f, <3>1
  <2>7. CASE \E src \in Dirs : PruneNext(d, src)
    <3>1. PICK src \in Dirs : Goes(d, prune(src))
      BY <2>7 DEF PruneNext
    <3> HIDE DEF prune, w
    <3>2. QED
      BY <1>f, <3>1
  <2>8. CASE \E src \in Dirs : MoveNext(d, src)
    <3>1. PICK src, dst : Changes(d, move(src, dst))
      BY <2>8 DEF MoveNext
    <3> HIDE DEF move, w
    <3>2. QED
      BY <1>f, <3>1
  <2>9. QED
    BY <2>1, <2>2, <2>3, <2>4, <2>5, <2>6, <2>7, <2>8
<1>6. PICK v : (Changes(d, v) \/ Goes(d, v)) /\ ~v.appended /\ v.pc # "append"
  BY <1>5
<1>7. v \in Doctor
  <2>1. doctor'[d] = v
    BY <1>6 DEF Changes, Goes, Disturbed, IInv, Typed, TypeOK
  <2>2. QED
    BY <2>1 DEF TypeOK
<1>8. QED
  BY <1>2, <1>3, <1>4, <1>6, <1>7, EmptyHanded, CountsStay

LEMMA CrashOnce ==
    ASSUME IInv, Once, NEW d \in Doctors, Crash(d), Unharmed'
    PROVE  Once'
<1>1. Goes(d, Idle) /\ recorded' = recorded /\ doctor[d].pc # "idle" /\ ~doctor[d].appended
  BY DEF Crash, Commands, Unharmed
<1>2. \A x \in Dirs, r \in Rows : bucket'[x].count[r] = bucket[x].count[r]
  BY <1>1 DEF Goes
<1>3. Idle \in Doctor /\ ~Idle.appended /\ Idle.pc # "append"
  BY IdleTyped DEF Idle
<1>4. QED
  BY <1>1, <1>2, <1>3, EmptyHanded, CountsStay

LEMMA ReadOnce ==
    ASSUME IInv, Once, NEW d \in Doctors, Read(d)
    PROVE  Once'
<1> DEFINE w == doctor[d]
           text == Content(bucket[w.src], w.ledger)
           a == [w EXCEPT !.pc = "append", !.held = text]
           n == NextLedger(w)
<1>1. w.pc = "read" /\ w.pc # "idle" /\ Busy(w) /\ recorded' = recorded
  BY DEF Read, Busy, Commands
<1>2. /\ w \in Doctor /\ Shape(w) /\ bucket[w.src] \in Bucket /\ w.src \in Dirs
      /\ w.ledger \in 1 .. Ledgers /\ w.pass # "prune"
  BY <1>1, Known DEF Shape
<1>3. Goes(d, IF text = NoRows THEN n ELSE a)
  BY DEF Read
<1>4. \A x \in Dirs, r \in Rows : bucket'[x].count[r] = bucket[x].count[r]
  BY <1>3 DEF Goes
<1>5. /\ text \in [Rows -> Nat]
      /\ \A r \in Rows : /\ text[r] <= 1
                         /\ text[r] > 0 => Has(bucket, w.src, r) /\ LedgerOf[r] = w.ledger
  BY <1>2 DEF Content, Bucket, Has, Once, Single
<1> HIDE DEF w, text
<1>6. CASE text = NoRows
  <2>1. /\ n \in Doctor /\ n.pc \in {"read", "remove"} /\ n.pass = w.pass
        /\ n.src = w.src /\ n.dst = w.dst /\ n.ledger = w.ledger + 1
    BY <1>2, NextLedgerTyped
  <2>2. n.appended = w.appended
    BY <1>2 DEF NextLedger, Doctor
  <2> HIDE DEF n
  <2>3. Carried(n, bucket')
    BY <1>2, <2>1 DEF Carried, Busy
  <2>4. \A r \in Rows : LedgerOf[r] < w.ledger => LedgerOf[r] < n.ledger
    BY <1>2, <2>1, RowsAssumption
  <2>5. n.appended \in BOOLEAN
    BY <2>1 DEF Doctor
  <2>6. QED
    BY <1>1, <1>3, <1>4, <1>6, <2>1, <2>2, <2>3, <2>4, <2>5, CountsStay DEF w
<1>7. CASE text # NoRows
  <2>1. /\ a \in Doctor /\ a.pc = "append" /\ a.held = text /\ a.pass = w.pass
        /\ a.src = w.src /\ a.dst = w.dst /\ a.ledger = w.ledger /\ a.appended = w.appended
    BY <1>2, <1>5 DEF Doctor
  <2> HIDE DEF a
  <2>2. Carried(a, bucket')
    BY <1>2, <1>3, <1>5, <2>1 DEF Carried, Busy, Goes
  <2>3. a.appended \in BOOLEAN
    BY <2>1 DEF Doctor
  <2>4. QED
    BY <1>1, <1>3, <1>4, <1>7, <2>1, <2>2, <2>3, CountsStay DEF w
<1>8. QED
  BY <1>6, <1>7

\* An append adds to the counts of the destination.
LEMMA WithCounts ==
    ASSUME IInv, NEW d \in Doctors, doctor[d].pc = "append", NEW rows \in [Rows -> Nat],
           bucket' = With(d, rows)
    PROVE  /\ \A x \in Dirs, r \in Rows : /\ bucket[x].count[r] \in Nat
                                          /\ x # doctor[d].dst => bucket'[x].count[r] = bucket[x].count[r]
           /\ \A r \in Rows :
                  bucket'[doctor[d].dst].count[r] = bucket[doctor[d].dst].count[r] + rows[r]
<1> DEFINE dst == doctor[d].dst
<1>1. bucket' = [bucket EXCEPT ![dst] = Plus(bucket[dst], rows)]
  BY DEF With
<1>2. dst \in Dirs /\ bucket \in [Dirs -> Bucket] /\ bucket[dst] \in Bucket
  BY DEF IInv, Typed, TypeOK
<1> HIDE DEF dst
<1>3. /\ Plus(bucket[dst], rows) \in Bucket
      /\ \A r \in Rows : Plus(bucket[dst], rows).count[r] = bucket[dst].count[r] + rows[r]
  BY <1>2, PlusTyped
<1>4. \A x \in Dirs, r \in Rows : bucket[x].count[r] \in Nat
  BY <1>2 DEF Bucket
<1>5. QED
  BY <1>1, <1>2, <1>3, <1>4 DEF dst

LEMMA AppendReadOnce ==
    ASSUME IInv, Once, NEW d \in Doctors, AppendRead(d)
    PROVE  Once'
<1> DEFINE w == doctor[d]
           u == [w EXCEPT !.appended = TRUE]
           v == NextLedger(u)
<1>1. /\ w.pc = "append" /\ w.pc # "idle" /\ Busy(w) /\ recorded' = recorded
      /\ bucket' = With(d, w.held) /\ Changes(d, v)
  BY DEF AppendRead, Busy, Commands
<1>2. /\ w \in Doctor /\ w.src \in Dirs /\ w.dst \in Dirs /\ w.dst # w.src
      /\ w.ledger \in 1 .. Ledgers /\ w.pass # "prune" /\ w.held \in [Rows -> Nat]
  BY <1>1, Known DEF Shape, Doctor
<1>3. /\ \A x \in Dirs, r \in Rows : /\ bucket[x].count[r] \in Nat
                                     /\ x # w.dst => bucket'[x].count[r] = bucket[x].count[r]
      /\ \A r \in Rows : bucket'[w.dst].count[r] = bucket[w.dst].count[r] + w.held[r]
  BY <1>1, <1>2, WithCounts
<1>4. \A r \in Rows, x, y \in Dirs : Has(bucket, x, r) /\ Has(bucket, y, r) /\ x # y =>
          Copying(w, r, x, y)
  BY <1>1, OnlyOne
<1>5. \A r \in Rows : /\ w.held[r] <= 1
                      /\ w.held[r] > 0 => Has(bucket, w.src, r) /\ LedgerOf[r] = w.ledger
  BY <1>1 DEF Once, Carried
<1>6. u \in Doctor /\ u.appended /\ u.pc = w.pc /\ u.pass = w.pass /\ u.src = w.src /\ u.dst = w.dst
      /\ u.ledger = w.ledger
  BY <1>2 DEF Doctor
<1> HIDE DEF w, u
<1>7. /\ v \in Doctor /\ v.pc \in {"read", "remove"} /\ v.pass = w.pass
      /\ v.src = w.src /\ v.dst = w.dst /\ v.ledger = w.ledger + 1
  BY <1>2, <1>6, NextLedgerTyped
<1>8. v.appended
  BY <1>6 DEF NextLedger, Doctor
<1> HIDE DEF v
<1>9. Carried(v, bucket')
  BY <1>2, <1>7 DEF Carried, Busy
\* A row in hand is only at the source.
<1>10. \A r \in Rows, x \in Dirs : w.held[r] > 0 /\ Has(bucket, x, r) => x = w.src
  <2>1. \A r \in Rows : LedgerOf[r] = w.ledger => ~(LedgerOf[r] < w.ledger)
    BY <1>2
  <2>2. QED
    BY <1>2, <1>4, <1>5, <2>1 DEF Copying
<1>11. \A r \in Rows : w.held[r] > 0 => bucket[w.dst].count[r] = 0
  BY <1>2, <1>3, <1>10 DEF Has
<1>12. \A x \in Dirs, r \in Rows : bucket'[x].count[r] <= 1
  <2>1. \A x \in Dirs, r \in Rows : bucket[x].count[r] <= 1
    BY DEF Once, Single
  <2>2. \A r \in Rows : w.held[r] = 0 \/ w.held[r] > 0
    BY <1>2
  <2>3. \A r \in Rows : bucket'[w.dst].count[r] <= 1
    BY <1>2, <1>3, <1>5, <1>11, <2>1, <2>2
  <2>4. QED
    BY <1>3, <2>1, <2>3
<1>13. Fresh'
  <2>1. \A r \in Rows \ recorded : w.held[r] = 0
    BY <1>2, <1>5 DEF Once, Fresh, Has
  <2>2. QED
    BY <1>1, <1>2, <1>3, <2>1 DEF Once, Fresh
<1>14. ASSUME NEW r \in Rows, NEW x \in Dirs, NEW y \in Dirs, x # y,
              Has(bucket', x, r), Has(bucket', y, r)
       PROVE  Copying(v, r, x, y)
  <2>1. w.ledger < v.ledger /\ w.ledger \in Nat /\ v.ledger \in Nat /\ LedgerOf[r] \in Nat
    BY <1>2, <1>7, RowsAssumption
  <2>2. CASE w.held[r] > 0
    <3>1. \A z \in Dirs : Has(bucket', z, r) => z \in {w.src, w.dst}
      BY <1>3, <1>10, <2>2 DEF Has
    <3>2. LedgerOf[r] = w.ledger /\ {x, y} = {w.src, w.dst}
      BY <1>5, <1>14, <2>2, <3>1
    <3>3. QED
      BY <1>7, <1>8, <2>1, <3>2 DEF Copying
  <2>3. CASE w.held[r] = 0
    <3>1. \A z \in Dirs : Has(bucket', z, r) => Has(bucket, z, r)
      BY <1>2, <1>3, <2>3 DEF Has
    <3>2. Copying(w, r, x, y)
      BY <1>4, <1>14, <3>1
    <3>3. QED
      BY <1>7, <1>8, <2>1, <3>2 DEF Copying
  <2>4. QED
    BY <1>2, <2>2, <2>3
<1>15. QED
  BY <1>1, <1>7, <1>9, <1>12, <1>13, <1>14, OnceMoves DEF w

LEMMA AppendFailsOnce ==
    ASSUME IInv, Once, NEW d \in Doctors, AppendFails(d), Unharmed'
    PROVE  Once'
<1>1. doctor[d].pc = "append" /\ Changes(d, Idle) /\ recorded' = recorded
  BY DEF AppendFails, Commands
<1>2. PICK part \in SUBSET (IF bucket[doctor[d].dst].there THEN Rows ELSE {}) :
        LET rows == [r \in Rows |-> IF r \in part THEN doctor[d].held[r] ELSE 0] IN
        /\ bucket' = With(d, rows)
        /\ mishaps' = mishaps \cup Appended(d, rows)
             \cup {m \in {"crash"} : doctor[d].appended \/ rows # NoRows}
  BY DEF AppendFails
<1>3. ~doctor[d].appended /\ bucket' = With(d, NoRows)
  BY <1>2 DEF Unharmed
<1>4. NoRows \in [Rows -> Nat] /\ \A r \in Rows : NoRows[r] = 0
  BY DEF NoRows
<1>5. \A x \in Dirs, r \in Rows : bucket'[x].count[r] = bucket[x].count[r]
  <2>1. /\ \A x \in Dirs, r \in Rows :
               /\ bucket[x].count[r] \in Nat
               /\ x # doctor[d].dst => bucket'[x].count[r] = bucket[x].count[r]
        /\ \A r \in Rows :
               bucket'[doctor[d].dst].count[r] = bucket[doctor[d].dst].count[r] + NoRows[r]
    BY <1>1, <1>3, <1>4, WithCounts
  <2>2. QED
    BY <1>4, <2>1
<1>6. Idle \in Doctor /\ ~Idle.appended /\ Idle.pc # "append"
  BY IdleTyped DEF Idle
<1>7. QED
  BY <1>1, <1>3, <1>5, <1>6, EmptyHanded, CountsStay

\* A removal takes one of the two copies of whatever is there twice.
LEMMA RemovalOnce ==
    ASSUME IInv, Once, NEW d \in Doctors, doctor[d].pc = "remove", NEW b \in Bucket,
           bucket' = [bucket EXCEPT ![doctor[d].src] = b],
           \A r \in Rows : b.count[r] <= bucket[doctor[d].src].count[r],
           doctor[d].appended => \A r \in Rows : b.count[r] = 0,
           NEW v \in Doctor, Changes(d, v), ~v.appended, v.pc = "next", recorded' = recorded
    PROVE  Once'
<1> DEFINE w == doctor[d]
<1>1. w.src \in Dirs /\ bucket \in [Dirs -> Bucket]
  BY Known DEF Busy
<1>2. bucket'[w.src] = b /\ \A x \in Dirs : x # w.src => bucket'[x] = bucket[x]
  BY <1>1
<1>3. \A r \in Rows, x, y \in Dirs : Has(bucket, x, r) /\ Has(bucket, y, r) /\ x # y =>
          Copying(w, r, x, y)
  BY OnlyOne
<1> HIDE DEF w
<1>4. \A x \in Dirs, r \in Rows : /\ bucket[x].count[r] \in Nat /\ bucket'[x].count[r] \in Nat
                                  /\ bucket'[x].count[r] <= bucket[x].count[r]
  BY <1>1, <1>2 DEF Bucket, w
<1>5. Fresh'
  BY <1>4 DEF Once, Fresh
<1>6. \A x \in Dirs, r \in Rows : bucket'[x].count[r] <= 1
  BY <1>4 DEF Once, Single
<1>7. ASSUME NEW r \in Rows, NEW x \in Dirs, NEW y \in Dirs, x # y,
             Has(bucket', x, r), Has(bucket', y, r)
      PROVE  FALSE
  <2>1. Copying(w, r, x, y)
    BY <1>3, <1>4, <1>7 DEF Has
  <2>2. w.src \in {x, y} /\ ~Has(bucket', w.src, r)
    BY <1>2, <2>1 DEF Copying, Has, w
  <2>3. QED
    BY <1>7, <2>2
<1>8. QED
  BY <1>5, <1>6, <1>7, EmptyHanded, OnceMoves

LEMMA MovedHands ==
    ASSUME NEW d \in Doctors, doctor[d] \in Doctor
    PROVE  /\ Moved(d) \in Doctor /\ ~Moved(d).appended /\ Moved(d).pc = "next"
           /\ Moved(d).pass = doctor[d].pass /\ Moved(d).todo = doctor[d].todo \ {doctor[d].src}
           /\ Moved(d).quiet = doctor[d].quiet
  BY DEF Moved, Doctor

LEMMA RemovesOnce ==
    ASSUME IInv, Once, NEW d \in Doctors, RemoveBucket(d) \/ RemoveFails(d), Unharmed'
    PROVE  Once'
<1> DEFINE src == doctor[d].src
<1>1. doctor[d] \in Doctor /\ doctor[d].pc = "remove" /\ recorded' = recorded
  BY Known DEF RemoveBucket, RemoveFails, Commands
<1>2. src \in Dirs /\ bucket[src] \in Bucket
  BY <1>1, Known DEF Busy
<1>3. CASE RemoveBucket(d)
  <2>1. Gone \in Bucket /\ \A r \in Rows : Gone.count[r] = 0
    BY IdleTyped DEF NoRows
  <2>2. \A r \in Rows : Gone.count[r] <= bucket[src].count[r]
    BY <1>2, <2>1 DEF Bucket
  <2>3. QED
    BY <1>1, <1>3, <2>1, <2>2, MovedHands, RemovalOnce DEF RemoveBucket
<1>4. CASE RemoveFails(d)
  <2>1. PICK kept \in SUBSET (1 .. Ledgers), label \in {bucket[src].label, "none"} :
          bucket' = [bucket EXCEPT ![src] = [there |-> TRUE, label |-> label,
             count |-> [r \in Rows |-> IF LedgerOf[r] \in kept THEN bucket[src].count[r] ELSE 0]]]
    BY <1>4 DEF RemoveFails
  <2> DEFINE b == [there |-> TRUE, label |-> label,
             count |-> [r \in Rows |-> IF LedgerOf[r] \in kept THEN bucket[src].count[r] ELSE 0]]
             v == [Moved(d) EXCEPT !.quiet = FALSE]
  <2>2. b \in Bucket /\ \A r \in Rows : b.count[r] <= bucket[src].count[r]
    BY <1>2 DEF Bucket, Labels
  <2>3. Changes(d, v) /\ ~doctor[d].appended
    BY <1>4 DEF RemoveFails, Unharmed
  <2>4. v \in Doctor /\ ~v.appended /\ v.pc = "next"
    BY <1>1, MovedHands DEF Doctor
  <2> HIDE DEF b, v
  <2>5. QED
    BY <1>1, <2>1, <2>2, <2>3, <2>4, RemovalOnce DEF b
<1>5. QED
  BY <1>3, <1>4

LEMMA OnceInit == Init => OnceInv
<1> SUFFICES ASSUME Init PROVE Once
  BY DEF OnceInv
<1>1. doctor = [d \in Doctors |-> Idle] /\ recorded \subseteq Rows
  BY DEF Init
<1>2. \A d \in Doctors : Resting(doctor[d])
  BY <1>1 DEF Resting, Idle
<1>3. PICK away \in SUBSET recorded, made \in SUBSET (Dirs \ {Archive}),
          label \in [Dirs \ {Archive} -> Labels] :
          LET in(d, r) == r \in recorded /\ d = IF r \in away THEN Other(ProjectOf[r])
                                                ELSE Canonical(ProjectOf[r])
          IN  /\ \A r \in recorded : \E d \in made : in(d, r)
              /\ \A d \in Dirs \ {Archive} : d \notin made => label[d] = "none"
              /\ bucket = [d \in Dirs |-> IF d \in made
                    THEN [there |-> TRUE, label |-> label[d],
                          count |-> [r \in Rows |-> IF in(d, r) THEN 1 ELSE 0]]
                    ELSE Gone]
  BY Zenon DEF Init
<1> DEFINE home(r) == IF r \in away THEN Other(ProjectOf[r]) ELSE Canonical(ProjectOf[r])
           in(d, r) == r \in recorded /\ d = home(r)
           full(d) == [there |-> TRUE, label |-> label[d],
                       count |-> [r \in Rows |-> IF in(d, r) THEN 1 ELSE 0]]
<1>4. bucket = [d \in Dirs |-> IF d \in made THEN full(d) ELSE Gone]
  BY <1>3
<1>5. ASSUME NEW d \in Dirs, NEW r \in Rows
      PROVE  bucket[d].count[r] \in {0, IF in(d, r) THEN 1 ELSE 0}
  <2>1. full(d).count[r] = IF in(d, r) THEN 1 ELSE 0
    OBVIOUS
  <2>2. Gone.count[r] = 0
    BY DEF Gone, NoRows
  <2> HIDE DEF full, in
  <2>3. bucket[d] \in {full(d), Gone}
    BY <1>4
  <2>4. QED
    BY <2>1, <2>2, <2>3
<1> HIDE DEF home, full
<1>6. Fresh
  BY <1>5 DEF Fresh
<1>7. Single
  BY <1>5 DEF Single, Has
<1>8. QED
  BY <1>2, <1>6, <1>7 DEF Once, OneAtWork, Carried, Resting

LEMMA OnceStep ==
    ASSUME IInv, OnceInv, [Next]_vars
    PROVE  OnceInv'
<1> SUFFICES ASSUME Unharmed' PROVE Once'
  BY DEF OnceInv
<1>1. mishaps \subseteq mishaps'
  <2>1. CASE UNCHANGED vars
    BY <2>1 DEF vars
  <2>2. ASSUME NEW d \in Doctors, Step(d) \/ Crash(d)
        PROVE  mishaps \subseteq mishaps'
    BY <2>2 DEF Step, Crash, DiagnoseMerge, Recover, DiagnoseArchive, DiagnosePrune, MoveNext,
       PruneNext, Read, AppendRead, AppendFails, RemoveBucket, RemoveFails, PassDone, End
  <2>3. CASE Next
    BY <2>2, <2>3 DEF Next, Record, Heal, HealFails, Start
  <2>4. QED
    BY <2>1, <2>3
<1>2. Once /\ TypeOK'
  BY <1>1, StepInv DEF OnceInv, Unharmed, IInv, Typed
<1>3. ASSUME NEW d \in Doctors, Step(d)
      PROVE  Once'
  BY <1>2, <1>3, PassesOnce, ReadOnce, AppendReadOnce, AppendFailsOnce, RemovesOnce DEF Step
<1>4. CASE UNCHANGED vars
  BY <1>2, <1>4 DEF vars, Once, OneAtWork, Fresh, Single
<1>5. \A here \in {{}} \cup {{p} : p \in Projects} : here \in SUBSET Projects
  OBVIOUS
<1>6. QED
  BY <1>2, <1>3, <1>4, <1>5, RecordOnce, HealOnce, StartOnce, CrashOnce DEF Next

\* When no repair is under way every row is in one place and once, for any number of
\* projects, ledgers, rows and repairs, unless a repair died between a copy and the
\* removal, was left with what it could not remove, or had another one beside it.
THEOREM NothingTwice == Spec => []NeverDoubled
<1>1. OnceInv => NeverDoubled
  <2> SUFFICES ASSUME Once, \A d \in Doctors : doctor[d].pc \in {"idle", "done"}
               PROVE  \A r \in Rows, x, y \in Dirs :
                          /\ bucket[x].count[r] <= 1
                          /\ bucket[x].count[r] > 0 /\ bucket[y].count[r] > 0 => x = y
    BY DEF OnceInv, Unharmed, NeverDoubled
  <2>1. \A d \in Doctors : ~doctor[d].appended
    BY DEF Once, Carried, Busy
  <2>2. QED
    BY <2>1 DEF Once, Single, Copying, Has
<1>2. Spec => []OnceInv
  BY OnceInit, OnceStep, Invariance, PTL DEF Spec
<1>3. QED
  BY <1>1, <1>2, PTL

-----------------------------------------------------------------------------
(* Health *)

Moving(w) == w.pc = "next" \/ Busy(w)

\* What is left to do for a repair that has the store to itself.
Merging(w) == Moving(w) => Duplicates \subseteq w.todo
Archiving(w) == Duplicates \subseteq Orphans /\ (Moving(w) => Orphans \subseteq w.todo)
Pruning(w) ==
    /\ Duplicates = {} /\ Orphans = {}
    /\ Moving(w) => EmptyBuckets \subseteq w.todo \cup {Archive}
    /\ w.pc = "done" => EmptyBuckets \subseteq {Archive}
Healthy(w) ==
    /\ w.pc = "done" => w.pass = "prune"
    /\ w.quiet => /\ w.pass = "merge" => Merging(w)
                  /\ w.pass = "recover" => Duplicates = {}
                  /\ w.pass = "archive" => Archiving(w)
                  /\ w.pass = "prune" => Pruning(w)
HInv == \A d \in Doctors : Healthy(doctor[d])

LEMMA Findings ==
    /\ Duplicates \subseteq Dirs /\ Orphans \subseteq Dirs /\ EmptyBuckets \subseteq Dirs
    /\ \A p \in Projects : Other(p) \in Duplicates <=>
           bucket[Canonical(p)].there /\ bucket[Other(p)].there
    /\ \A x \in Duplicates : \E p \in Projects : x = Other(p)
    /\ Archive \notin Duplicates /\ Archive \notin Orphans
<1>1. \A p, q \in Projects : Other(p) = Other(q) => p = q
  BY DEF Other
<1>2. QED
  BY <1>1, Spellings DEF Duplicates, Orphans, Orphan, EmptyBuckets

\* Who looks on while the store changes has not had it to itself.
LEMMA LookOn ==
    ASSUME IInv, HInv, NEW d \in Doctors, NEW w \in Doctor, Changes(d, w) \/ Goes(d, w),
           Healthy(doctor[d])'
    PROVE  HInv'
<1> SUFFICES ASSUME NEW e \in Doctors, e # d PROVE Healthy(doctor[e])'
  BY DEF HInv
<1>1. Healthy(doctor[e]) /\ Same(doctor'[e], doctor[e]) /\ doctor[e] \in Doctor
  BY RepairTyped DEF HInv, IInv, Typed, TypeOK
<1>2. CASE Goes(d, w)
  <2>1. doctor'[e] = doctor[e] /\ bucket' = bucket
    BY <1>1, <1>2 DEF Goes, IInv, Typed, TypeOK
  <2>2. Duplicates' = Duplicates /\ Orphans' = Orphans /\ EmptyBuckets' = EmptyBuckets
    BY <2>1 DEF Duplicates, Orphans, Orphan, EmptyBuckets
  <2>3. QED
    BY <1>1, <2>1, <2>2 DEF Healthy, Merging, Archiving, Pruning, Moving, Busy
<1>3. CASE Changes(d, w)
  <2> DEFINE f == Disturbed(Others(d))
  <2>1. f[e] = [doctor[e] EXCEPT !.quiet = FALSE]
    BY DEF Disturbed, Others
  <2>2. doctor' = [f EXCEPT ![d] = w]
    BY <1>3 DEF Changes
  <2>3. f[e].quiet = FALSE
    BY <1>1, <2>1 DEF Doctor
  <2> HIDE DEF f
  <2>4. doctor'[e].quiet = FALSE
    BY <2>2, <2>3
  <2>5. QED
    BY <1>1, <2>4 DEF Healthy, Same
<1>4. QED
  BY <1>2, <1>3

LEMMA AllLookOn ==
    ASSUME IInv, HInv, doctor' = Disturbed(Doctors)
    PROVE  HInv'
<1> SUFFICES ASSUME NEW e \in Doctors PROVE Healthy(doctor[e])'
  BY DEF HInv
<1>1. Healthy(doctor[e]) /\ doctor[e] \in Doctor
  BY DEF HInv, IInv, Typed, TypeOK
<1>2. doctor'[e] = [doctor[e] EXCEPT !.quiet = FALSE]
  BY DEF Disturbed
<1>3. doctor'[e].quiet = FALSE /\ doctor'[e].pc = doctor[e].pc /\ doctor'[e].pass = doctor[e].pass
  BY <1>1, <1>2 DEF Doctor
<1>4. QED
  BY <1>1, <1>3 DEF Healthy

-----------------------------------------------------------------------------
(* What becomes of the findings *)

LEMMA DuplicatesGo ==
    ASSUME \A x \in Dirs : bucket'[x].there => bucket[x].there
    PROVE  Duplicates' \subseteq Duplicates
  BY Spellings DEF Duplicates

LEMMA OrphansGo ==
    ASSUME bucket' \in [Dirs -> Bucket],
           \A x \in Dirs \ {Archive} :
               \/ bucket'[x].count = NoRows
               \/ /\ bucket'[x].count = bucket[x].count
                  /\ bucket[x].label = "clean" => bucket'[x].label = "clean"
    PROVE  Orphans' \subseteq Orphans
<1>1. \A x \in Dirs : bucket'[x].count = bucket[x].count =>
          Content(bucket'[x], 1) = Content(bucket[x], 1)
  BY DEF Content
<1>2. \A x \in Dirs : bucket'[x].count = NoRows => Content(bucket'[x], 1) = NoRows
  BY DEF Content, NoRows
<1>3. QED
  BY <1>1, <1>2 DEF Orphans, Orphan

LEMMA OrphansStay ==
    ASSUME \A x \in Dirs \ {Archive} :
               /\ bucket'[x].count = bucket[x].count
               /\ bucket[x].label = "clean" <=> bucket'[x].label = "clean"
    PROVE  Orphans' = Orphans
<1>1. \A x \in Dirs : bucket'[x].count = bucket[x].count =>
          Content(bucket'[x], 1) = Content(bucket[x], 1)
  BY DEF Content
<1>2. QED
  BY <1>1 DEF Orphans, Orphan

\* A repair that ends, or starts, has promised nothing.
LEMMA RestHealthy ==
    ASSUME IInv, HInv, NEW d \in Doctors, NEW w \in Doctor, Changes(d, w) \/ Goes(d, w),
           w.pc # "done", ~w.quiet \/ (w.pass = "merge" /\ w.pc = "diagnose")
    PROVE  HInv'
<1>1. doctor'[d] = w
  BY RepairTyped DEF IInv, Typed
<1>2. Healthy(doctor[d])'
  BY <1>1 DEF Healthy, Merging, Moving, Busy
<1>3. QED
  BY <1>2, LookOn

-----------------------------------------------------------------------------
(* Steps *)

LEMMA EndsHealthy ==
    ASSUME IInv, HInv, NEW d \in Doctors,
           End(d) \/ Crash(d) \/ AppendFails(d) \/ RemoveFails(d)
           \/ \E here \in SUBSET Projects : Start(d, here)
    PROVE  HInv'
<1>1. CASE End(d) \/ Crash(d) \/ AppendFails(d)
  <2>1. Changes(d, Idle) \/ Goes(d, Idle)
    BY <1>1 DEF End, Crash, AppendFails
  <2>2. Idle \in Doctor /\ Idle.pc # "done" /\ ~Idle.quiet
    BY IdleTyped DEF Idle
  <2>3. QED
    BY <2>1, <2>2, RestHealthy
<1>2. CASE RemoveFails(d)
  <2> DEFINE v == [Moved(d) EXCEPT !.quiet = FALSE]
  <2>1. Moved(d) \in Doctor /\ Moved(d).pc = "next"
    BY Known, MovedHands
  <2>2. v \in Doctor /\ v.pc # "done" /\ ~v.quiet
    BY <2>1 DEF Doctor
  <2>3. Changes(d, v)
    BY <1>2 DEF RemoveFails
  <2> HIDE DEF v
  <2>4. QED
    BY <2>2, <2>3, RestHealthy
<1>3. CASE \E here \in SUBSET Projects : Start(d, here)
  <2> DEFINE v == [Idle EXCEPT !.pc = "diagnose", !.quiet = TRUE]
  <2>1. v \in Doctor /\ v.pc = "diagnose" /\ v.pass = "merge"
    BY IdleTyped DEF Idle, Doctor
  <2>2. Changes(d, v)
    BY <1>3 DEF Start
  <2> HIDE DEF v
  <2>3. QED
    BY <2>1, <2>2, RestHealthy
<1>4. QED
  BY <1>1, <1>2, <1>3

\* A diagnosis that only looks: what it finds is what is to do.
LEMMA LooksHealthy ==
    ASSUME IInv, HInv, NEW d \in Doctors, DiagnoseMerge(d) \/ DiagnosePrune(d)
    PROVE  HInv'
<1> DEFINE next(t) == [doctor[d] EXCEPT !.pc = "next", !.todo = t]
<1>1. doctor[d] \in Doctor /\ Healthy(doctor[d])
  BY Known DEF HInv
<1>2. ASSUME NEW t \in SUBSET Dirs
      PROVE  /\ next(t) \in Doctor /\ next(t).pc = "next" /\ next(t).todo = t
             /\ next(t).pass = doctor[d].pass /\ next(t).quiet = doctor[d].quiet
  BY <1>1 DEF Doctor
<1>3. CASE DiagnoseMerge(d)
  <2>1. next(Duplicates) \in Doctor /\ Goes(d, next(Duplicates)) /\ doctor[d].pass = "merge"
        /\ Duplicates \in SUBSET Dirs
    BY <1>2, <1>3, Findings DEF DiagnoseMerge, At
  <2>2. /\ doctor'[d].todo = Duplicates /\ doctor'[d].pass = "merge" /\ doctor'[d].pc = "next"
        /\ bucket' = bucket
    <3> HIDE DEF next
    <3>1. doctor'[d] = next(Duplicates)
      BY <2>1, RepairTyped DEF IInv, Typed
    <3>2. QED
      BY <1>2, <2>1, <3>1 DEF Goes
  <2>3. Duplicates' = Duplicates
    BY <2>2 DEF Duplicates
  <2>4. Healthy(doctor[d])'
    BY <2>2, <2>3 DEF Healthy, Merging
  <2> HIDE DEF next
  <2>5. QED
    BY <2>1, <2>4, LookOn
<1>4. CASE DiagnosePrune(d)
  <2> DEFINE t == EmptyBuckets \ {Archive}
  <2>1. next(t) \in Doctor /\ Goes(d, next(t)) /\ doctor[d].pass = "prune" /\ t \in SUBSET Dirs
    BY <1>2, <1>4, Findings DEF DiagnosePrune, At
  <2>2. /\ doctor'[d].todo = t /\ doctor'[d].pass = "prune" /\ doctor'[d].pc = "next"
        /\ bucket' = bucket /\ doctor'[d].quiet = doctor[d].quiet
    <3> HIDE DEF next
    <3>1. doctor'[d] = next(t)
      BY <2>1, RepairTyped DEF IInv, Typed
    <3>2. QED
      BY <1>2, <2>1, <3>1 DEF Goes
  <2>3. Duplicates' = Duplicates /\ Orphans' = Orphans /\ EmptyBuckets' = EmptyBuckets
    BY <2>2 DEF Duplicates, Orphans, Orphan, EmptyBuckets
  <2>4. Healthy(doctor[d])'
    BY <1>1, <2>1, <2>2, <2>3 DEF Healthy, Pruning
  <2> HIDE DEF next
  <2>5. QED
    BY <2>1, <2>4, LookOn
<1>5. QED
  BY <1>3, <1>4

\* A directory made for a recovered name is a duplicate of an orphan.
LEMMA RecoverHealthy ==
    ASSUME IInv, HInv, NEW d \in Doctors, NEW known \in SUBSET Projects, Recover(d, known)
    PROVE  HInv'
<1> DEFINE given == {Canonical(p) : p \in {q \in known : \E o \in Orphans : o[1] = q}}
           v == Pass(d, "archive")
<1>1. /\ doctor[d] \in Doctor /\ Healthy(doctor[d]) /\ bucket \in [Dirs -> Bucket]
      /\ doctor[d].pass = "recover"
  BY Known DEF HInv, Recover, At
<1>2. v \in Doctor /\ v.pc = "diagnose" /\ v.pass = "archive" /\ v.quiet = doctor[d].quiet
  BY <1>1 DEF Pass, Doctor
<1>3. bucket' = [b \in Dirs |-> IF b \in given
                    THEN [bucket[b] EXCEPT !.there = TRUE, !.label = "clean"] ELSE bucket[b]]
      /\ Changes(d, v)
  BY DEF Recover
<1> HIDE DEF v
<1>4. doctor'[d] = v
  BY <1>2, <1>3, RepairTyped DEF IInv, Typed
<1>5. ASSUME doctor[d].quiet
      PROVE  Duplicates' \subseteq Orphans'
  <2>1. Duplicates = {}
    BY <1>1, <1>5 DEF Healthy
  <2> SUFFICES ASSUME NEW p \in Projects, bucket'[Canonical(p)].there, bucket'[Other(p)].there
               PROVE  Other(p) \in Orphans'
    BY DEF Duplicates
  <2>2. /\ Canonical(p) \in Dirs \ {Archive} /\ Other(p) \in Dirs \ {Archive}
        /\ Other(p) \notin given
    BY Spellings
  <2>3. bucket'[Other(p)] = bucket[Other(p)]
    BY <1>3, <2>2
  <2>4. ~bucket[Canonical(p)].there
    BY <2>1, <2>3, Findings
  <2>5. Canonical(p) \in given
    BY <1>3, <2>2, <2>4
  <2>6. PICK o \in Orphans : o[1] = p
    <3>1. \A q \in Projects : Canonical(q) = Canonical(p) => q = p
      BY Spellings
    <3>2. QED
      BY <2>5, <3>1
  <2>7. o \in {Canonical(p), Other(p)}
    BY <2>6, Spellings DEF Orphans, Orphan, Dirs
  <2>8. Content(bucket[o], 1) # NoRows
    BY <2>6 DEF Orphans, Orphan
  <2>9. bucket[Canonical(p)].count = NoRows
    BY <2>2, <2>4 DEF IInv, NoGhosts
  <2>10. Content(bucket[Canonical(p)], 1) = NoRows
    BY <2>9 DEF Content, NoRows
  <2>11. o = Other(p)
    BY <2>7, <2>8, <2>10
  <2>12. QED
    BY <2>2, <2>3, <2>6, <2>11 DEF Orphans, Orphan
<1>6. Healthy(doctor[d])'
  BY <1>2, <1>4, <1>5 DEF Healthy, Archiving, Moving, Busy
<1>7. QED
  BY <1>2, <1>3, <1>6, LookOn

LEMMA DiagnoseArchiveHealthy ==
    ASSUME IInv, HInv, NEW d \in Doctors, DiagnoseArchive(d)
    PROVE  HInv'
<1> DEFINE n == [doctor[d] EXCEPT !.pc = "next", !.todo = Orphans]
           v == IF Orphans = {} THEN Pass(d, "prune") ELSE n
<1>1. /\ doctor[d] \in Doctor /\ Healthy(doctor[d]) /\ bucket \in [Dirs -> Bucket]
      /\ doctor[d].pass = "archive"
  BY Known DEF HInv, DiagnoseArchive, At
<1>2. /\ v \in Doctor /\ v.quiet = doctor[d].quiet
      /\ Orphans = {} => v.pass = "prune" /\ v.pc = "diagnose"
      /\ Orphans # {} => v.pass = "archive" /\ v.pc = "next" /\ v.todo = Orphans
  BY <1>1, Findings DEF Pass, Doctor
<1>3. Changes(d, v)
  BY DEF DiagnoseArchive
<1> HIDE DEF v
<1>4. doctor'[d] = v
  BY <1>2, <1>3, RepairTyped DEF IInv, Typed
<1>5. /\ \A x \in Dirs \ {Archive} : bucket'[x].there = bucket[x].there
      /\ \A x \in Dirs \ {Archive} :
             /\ bucket'[x].count = bucket[x].count
             /\ bucket[x].label = "clean" <=> bucket'[x].label = "clean"
  BY <1>1 DEF DiagnoseArchive, Bucket
<1>6. Orphans' = Orphans
  BY <1>5, OrphansStay
<1>7. Duplicates' = Duplicates
  BY <1>5, Spellings DEF Duplicates
<1>8. doctor[d].quiet => Duplicates \subseteq Orphans
  BY <1>1 DEF Healthy, Archiving
<1>9. Healthy(doctor[d])'
  BY <1>2, <1>4, <1>6, <1>7, <1>8 DEF Healthy, Archiving, Pruning, Moving, Busy
<1>10. QED
  BY <1>2, <1>3, <1>9, LookOn

\* What is left to show of a repair that goes on with its pass.
LEMMA GoesOn ==
    ASSUME IInv, HInv, NEW d \in Doctors, NEW w \in Doctor, Changes(d, w) \/ Goes(d, w),
           Moving(doctor[d]), w.pc \in {"next", "read", "append", "remove"},
           w.pass = doctor[d].pass, w.quiet = doctor[d].quiet,
           w.pass = "merge" /\ Duplicates \subseteq doctor[d].todo => Duplicates' \subseteq w.todo,
           w.pass = "archive" /\ Duplicates \subseteq Orphans /\ Orphans \subseteq doctor[d].todo =>
               Duplicates' \subseteq Orphans' /\ Orphans' \subseteq w.todo,
           w.pass = "prune" /\ Duplicates = {} /\ Orphans = {}
           /\ EmptyBuckets \subseteq doctor[d].todo \cup {Archive} =>
               Duplicates' = {} /\ Orphans' = {} /\ EmptyBuckets' \subseteq w.todo \cup {Archive}
    PROVE  HInv'
<1>1. doctor'[d] = w /\ doctor[d].pass # "recover" /\ w.pc # "done"
  BY RepairTyped, Known DEF IInv, Typed, Shape, Moving
<1>2. Healthy(doctor[d])
  BY DEF HInv
<1>3. CASE w.quiet
  <2>1. w.pass = "merge" => Duplicates' \subseteq w.todo
    BY <1>2, <1>3 DEF Healthy, Merging
  <2>2. w.pass = "archive" => Duplicates' \subseteq Orphans' /\ Orphans' \subseteq w.todo
    BY <1>2, <1>3 DEF Healthy, Archiving
  <2>3. w.pass = "prune" =>
            Duplicates' = {} /\ Orphans' = {} /\ EmptyBuckets' \subseteq w.todo \cup {Archive}
    BY <1>2, <1>3 DEF Healthy, Pruning
  <2>4. Healthy(doctor[d])'
    BY <1>1, <2>1, <2>2, <2>3 DEF Healthy, Merging, Archiving, Pruning
  <2>5. QED
    BY <2>4, LookOn
<1>4. CASE ~w.quiet
  <2>1. Healthy(doctor[d])'
    BY <1>1, <1>4 DEF Healthy
  <2>2. QED
    BY <2>1, LookOn
<1>5. QED
  BY <1>3, <1>4

LEMMA MoveNextHealthy ==
    ASSUME IInv, HInv, NEW d \in Doctors, NEW src \in Dirs, MoveNext(d, src)
    PROVE  HInv'
<1> DEFINE dst == IF doctor[d].pass = "merge" THEN Canonical(src[1]) ELSE Archive
           w == [doctor[d] EXCEPT !.pc = "read", !.src = src, !.dst = dst, !.ledger = 1]
<1>1. /\ doctor[d] \in Doctor /\ bucket \in [Dirs -> Bucket] /\ doctor[d].pc = "next"
      /\ src \in doctor[d].todo /\ src \in Movable(doctor[d].pass)
      /\ doctor[d].pass \in {"merge", "archive"}
  BY Known DEF MoveNext, Shape
<1>2. dst \in Dirs
  BY <1>1, MovableDirs DEF Dest
<1>3. /\ bucket' = IF doctor[d].pass = "merge" THEN [bucket EXCEPT ![dst].there = TRUE] ELSE bucket
      /\ Changes(d, w)
  BY Zenon DEF MoveNext
<1>4. w \in Doctor /\ w.pc = "read" /\ w.pass = doctor[d].pass /\ w.quiet = doctor[d].quiet
      /\ w.todo = doctor[d].todo
  <2> HIDE DEF dst
  <2>1. QED
    BY <1>1, <1>2 DEF Doctor
<1> HIDE DEF w
<1>5. Moving(doctor[d])
  BY <1>1 DEF Moving
<1>6. CASE doctor[d].pass = "merge"
  <2>1. PICK p \in Projects : src = Other(p) /\ dst = Canonical(p)
    BY <1>1, <1>6, Spellings DEF Movable
  <2> HIDE DEF dst
  <2>2. Duplicates' \subseteq Duplicates \cup {src}
    <3> SUFFICES ASSUME NEW q \in Projects, q # p, bucket'[Canonical(q)].there,
                        bucket'[Other(q)].there
                 PROVE  bucket[Canonical(q)].there /\ bucket[Other(q)].there
      BY <2>1, Findings DEF Duplicates
    <3>1. Canonical(q) # dst /\ Other(q) # dst
      BY <2>1, Spellings
    <3>2. QED
      BY <1>1, <1>3, <1>6, <3>1, Spellings
  <2>3. Duplicates \subseteq doctor[d].todo => Duplicates' \subseteq w.todo
    BY <1>1, <1>4, <2>2
  <2>4. Changes(d, w) /\ w.pass = "merge"
    BY <1>3, <1>4, <1>6
  <2>5. QED
    BY <1>4, <1>5, <2>3, <2>4, GoesOn
<1>7. CASE doctor[d].pass = "archive"
  <2> HIDE DEF dst
  <2>1. Duplicates' = Duplicates /\ Orphans' = Orphans
    BY <1>3, <1>7 DEF Duplicates, Orphans, Orphan
  <2>2. Changes(d, w) /\ w.pass = "archive"
    BY <1>3, <1>4, <1>7
  <2>3. QED
    BY <1>4, <1>5, <2>1, <2>2, GoesOn
<1>8. QED
  BY <1>1, <1>6, <1>7

LEMMA OnlyLooks ==
    ASSUME IInv, HInv, NEW d \in Doctors,
           (\E src \in Dirs : PruneNext(d, src)) \/ Read(d)
    PROVE  HInv'
<1>1. doctor[d] \in Doctor /\ bucket' = bucket /\ Moving(doctor[d])
  BY Known DEF PruneNext, Read, Goes, At, Moving, Busy
<1>2. Duplicates' = Duplicates /\ Orphans' = Orphans /\ EmptyBuckets' = EmptyBuckets
  BY <1>1 DEF Duplicates, Orphans, Orphan, EmptyBuckets
<1>3. ASSUME NEW w \in Doctor, Goes(d, w), w.pc \in {"next", "read", "append", "remove"},
             w.pass = doctor[d].pass, w.quiet = doctor[d].quiet, w.todo = doctor[d].todo
      PROVE  HInv'
  BY <1>1, <1>2, <1>3, GoesOn
<1>4. CASE \E src \in Dirs : PruneNext(d, src)
  <2>1. PICK src \in Dirs : PruneNext(d, src)
    BY <1>4
  <2> DEFINE v == [doctor[d] EXCEPT !.pc = "remove", !.src = src, !.ledger = Ledgers + 1]
  <2>2. v \in Doctor /\ v.pc = "remove" /\ v.pass = doctor[d].pass
        /\ v.quiet = doctor[d].quiet /\ v.todo = doctor[d].todo
    <3>1. Ledgers + 1 \in Nat
      BY RowsAssumption
    <3>2. QED
      BY <1>1, <3>1 DEF Doctor
  <2>3. Goes(d, v)
    BY <2>1 DEF PruneNext
  <2> HIDE DEF v
  <2>4. QED
    BY <1>3, <2>2, <2>3
<1>5. CASE Read(d)
  <2> DEFINE w == doctor[d]
             text == Content(bucket[w.src], w.ledger)
             a == [w EXCEPT !.pc = "append", !.held = text]
             n == NextLedger(w)
  <2>1. w.pc = "read" /\ w.src \in Dirs /\ w.ledger \in 1 .. Ledgers
    BY <1>5, Known DEF Read, Shape, Busy
  <2>2. Goes(d, IF text = NoRows THEN n ELSE a)
    BY <1>5 DEF Read
  <2>3. bucket[w.src] \in Bucket
    BY <2>1 DEF IInv, Typed, TypeOK
  <2>4. text \in [Rows -> Nat]
    BY <2>3 DEF Content, Bucket
  <2> HIDE DEF text
  <2>5. a \in Doctor /\ a.pc = "append" /\ a.pass = w.pass /\ a.quiet = w.quiet /\ a.todo = w.todo
    BY <1>1, <2>4 DEF Doctor
  <2>6. n \in Doctor /\ n.pc \in {"read", "remove"} /\ n.pass = w.pass /\ n.todo = w.todo
    BY <1>1, <2>1, NextLedgerTyped
  <2>7. n.quiet = w.quiet
    BY <1>1 DEF NextLedger, Doctor
  <2> HIDE DEF a, n
  <2>8. QED
    BY <1>3, <2>2, <2>5, <2>6, <2>7
<1>6. QED
  BY <1>4, <1>5

LEMMA AppendReadHealthy ==
    ASSUME IInv, HInv, NEW d \in Doctors, AppendRead(d)
    PROVE  HInv'
<1> DEFINE w == doctor[d]
           u == [w EXCEPT !.appended = TRUE]
           n == NextLedger(u)
           b == Plus(bucket[w.dst], w.held)
<1>1. /\ w.pc = "append" /\ Changes(d, n) /\ bucket' = [bucket EXCEPT ![w.dst] = b]
  BY DEF AppendRead, With
<1>2. /\ w \in Doctor /\ w.dst \in Dirs /\ w.dst = Dest(w.pass, w.src)
      /\ w.ledger \in 1 .. Ledgers /\ w.pass # "prune" /\ w.held \in [Rows -> Nat]
      /\ bucket \in [Dirs -> Bucket] /\ bucket[w.dst] \in Bucket
  BY <1>1, Known DEF Shape, Doctor, Busy
<1>3. b.there = bucket[w.dst].there
  BY <1>2, PlusTyped
<1>4. u \in Doctor /\ u.pass = w.pass /\ u.todo = w.todo /\ u.quiet = w.quiet
      /\ u.ledger = w.ledger
  BY <1>2 DEF Doctor
<1> HIDE DEF b, u
<1>5. n \in Doctor /\ n.pc \in {"read", "remove"} /\ n.pass = w.pass /\ n.todo = w.todo
  BY <1>2, <1>4, NextLedgerTyped
<1>6. n.quiet = w.quiet
  BY <1>4 DEF NextLedger, Doctor
<1> HIDE DEF n
<1>7. \A x \in Dirs : bucket'[x].there = bucket[x].there
  BY <1>1, <1>2, <1>3
<1>8. Duplicates' = Duplicates
  BY <1>7, Spellings DEF Duplicates
<1>9. w.pass = "archive" => Orphans' = Orphans
  BY <1>1, <1>2, OrphansStay DEF Dest
<1>10. Moving(w)
  BY <1>1 DEF Moving, Busy
<1>11. QED
  BY <1>1, <1>2, <1>5, <1>6, <1>8, <1>9, <1>10, GoesOn

LEMMA RemoveBucketHealthy ==
    ASSUME IInv, HInv, NEW d \in Doctors, RemoveBucket(d)
    PROVE  HInv'
<1> DEFINE w == doctor[d]
<1>1. /\ w.pc = "remove" /\ Changes(d, Moved(d)) /\ bucket' = [bucket EXCEPT ![w.src] = Gone]
  BY DEF RemoveBucket
<1>2. /\ w \in Doctor /\ w.src \in Dirs /\ bucket \in [Dirs -> Bucket]
  BY <1>1, Known DEF Busy
<1>3. /\ Moved(d) \in Doctor /\ Moved(d).pc = "next" /\ Moved(d).pass = w.pass
      /\ Moved(d).todo = w.todo \ {w.src} /\ Moved(d).quiet = w.quiet
  BY <1>2, MovedHands
<1> HIDE DEF w
<1>4. /\ \A x \in Dirs \ {w.src} : bucket'[x] = bucket[x]
      /\ bucket'[w.src] = Gone /\ ~Gone.there /\ Gone.count = NoRows
      /\ bucket' \in [Dirs -> Bucket]
  BY <1>1, <1>2, IdleTyped DEF Gone
<1>5. Duplicates' \subseteq Duplicates \ {w.src}
  <2>1. Duplicates' \subseteq Duplicates
    BY <1>4, DuplicatesGo
  <2>2. w.src \notin Duplicates'
    BY <1>4 DEF Duplicates
  <2>3. QED
    BY <2>1, <2>2
<1>6. Content(Gone, 1) = NoRows
  BY <1>4 DEF Content, NoRows
<1>7. Orphans' = Orphans \ {w.src}
  BY <1>4, <1>6 DEF Orphans, Orphan
<1>8. EmptyBuckets' \subseteq EmptyBuckets \ {w.src}
  BY <1>4 DEF EmptyBuckets
<1>9. Moving(w)
  BY <1>1 DEF Moving, Busy
<1>10. QED
  BY <1>1, <1>3, <1>5, <1>7, <1>8, <1>9, GoesOn DEF w

LEMMA PassDoneHealthy ==
    ASSUME IInv, HInv, NEW d \in Doctors, PassDone(d)
    PROVE  HInv'
<1> DEFINE w == doctor[d]
           done == [w EXCEPT !.pc = "done"]
<1>1. /\ w \in Doctor /\ bucket \in [Dirs -> Bucket] /\ w.pc = "next" /\ w.todo = {}
      /\ Healthy(w) /\ w.pass \in {"merge", "archive", "prune"}
  BY Known DEF PassDone, HInv, Shape, Doctor
<1>2. Moving(w)
  BY <1>1 DEF Moving
<1>3. CASE w.pass = "merge"
  <2> DEFINE v == Pass(d, "recover")
  <2>1. v \in Doctor /\ v.pc = "diagnose" /\ v.pass = "recover" /\ v.quiet = w.quiet
    BY <1>1 DEF Pass, Doctor
  <2>2. Changes(d, v) /\ bucket' = bucket
    BY <1>3 DEF PassDone
  <2> HIDE DEF v
  <2>3. doctor'[d] = v
    BY <2>1, <2>2, RepairTyped DEF IInv, Typed
  <2>4. w.quiet => Duplicates = {}
    BY <1>1, <1>2, <1>3 DEF Healthy, Merging
  <2>5. Duplicates' = Duplicates
    BY <2>2 DEF Duplicates
  <2>6. Healthy(doctor[d])'
    BY <2>1, <2>3, <2>4, <2>5 DEF Healthy
  <2>7. QED
    BY <2>1, <2>2, <2>6, LookOn
<1>4. CASE w.pass = "archive"
  <2> DEFINE v == Pass(d, "prune")
  <2>1. v \in Doctor /\ v.pc = "diagnose" /\ v.pass = "prune" /\ v.quiet = w.quiet
    BY <1>1 DEF Pass, Doctor
  <2>2. Changes(d, v) /\ bucket' = [bucket EXCEPT ![Archive].label = "clean"]
    BY <1>4 DEF PassDone
  <2> HIDE DEF v
  <2>3. doctor'[d] = v
    BY <2>1, <2>2, RepairTyped DEF IInv, Typed
  <2>4. w.quiet => Duplicates = {} /\ Orphans = {}
    BY <1>1, <1>2, <1>4 DEF Healthy, Archiving
  <2>5. \A x \in Dirs \ {Archive} : bucket'[x] = bucket[x]
    BY <1>1, <2>2
  <2>6. Duplicates' = Duplicates
    BY <2>5, Spellings DEF Duplicates
  <2>7. Orphans' = Orphans
    BY <2>5, OrphansStay
  <2>8. Healthy(doctor[d])'
    BY <2>1, <2>3, <2>4, <2>6, <2>7 DEF Healthy, Pruning, Moving, Busy
  <2>9. QED
    BY <2>1, <2>2, <2>8, LookOn
<1>5. CASE w.pass = "prune"
  <2>1. done \in Doctor /\ done.pc = "done" /\ done.pass = "prune" /\ done.quiet = w.quiet
    BY <1>1, <1>5 DEF Doctor
  <2>2. Changes(d, done) /\ bucket' = bucket
    BY <1>5 DEF PassDone
  <2> HIDE DEF done
  <2>3. doctor'[d] = done
    BY <2>1, <2>2, RepairTyped DEF IInv, Typed
  <2>4. w.quiet => Duplicates = {} /\ Orphans = {} /\ EmptyBuckets \subseteq {Archive}
    BY <1>1, <1>2, <1>5 DEF Healthy, Pruning
  <2>5. Duplicates' = Duplicates /\ Orphans' = Orphans /\ EmptyBuckets' = EmptyBuckets
    BY <2>2 DEF Duplicates, Orphans, Orphan, EmptyBuckets
  <2>6. Healthy(doctor[d])'
    BY <2>1, <2>3, <2>4, <2>5 DEF Healthy, Pruning, Moving, Busy
  <2>7. QED
    BY <2>1, <2>2, <2>6, LookOn
<1>6. QED
  BY <1>1, <1>3, <1>4, <1>5

-----------------------------------------------------------------------------
LEMMA HealthStep ==
    ASSUME IInv, HInv, [Next]_vars
    PROVE  HInv'
<1>1. ASSUME NEW d \in Doctors, Step(d)
      PROVE  HInv'
  BY <1>1, LooksHealthy, RecoverHealthy, DiagnoseArchiveHealthy, MoveNextHealthy, OnlyLooks,
     AppendReadHealthy, RemoveBucketHealthy, PassDoneHealthy, EndsHealthy DEF Step
<1>2. ASSUME NEW d \in Doctors, Crash(d) \/ \E here \in SUBSET Projects : Start(d, here)
      PROVE  HInv'
  BY <1>2, EndsHealthy
<1>3. ASSUME NEW r \in Rows, Record(r)
      PROVE  HInv'
  BY <1>3, AllLookOn DEF Record
<1>4. ASSUME NEW p \in Projects, Heal(p)
      PROVE  HInv'
  BY <1>4, AllLookOn DEF Heal
<1>5. CASE UNCHANGED <<bucket, doctor>>
  BY <1>5 DEF HInv, Healthy, Merging, Archiving, Pruning, Duplicates, Orphans, Orphan, EmptyBuckets
<1>6. \A here \in {{}} \cup {{p} : p \in Projects} : here \in SUBSET Projects
  OBVIOUS
<1>7. QED
  BY <1>1, <1>2, <1>3, <1>4, <1>5, <1>6 DEF Next, HealFails, vars

\* A repair during which nothing else changed the store, and whose removals succeeded,
\* leaves no duplicate, no orphan and no empty directory, whatever earlier repairs left
\* behind, for any number of projects, ledgers, rows and repairs.
THEOREM LeftHealthy == Spec => []RepairedIsHealthy
<1>1. Init => HInv
  BY DEF Init, HInv, Healthy, Idle
<1>2. HInv => RepairedIsHealthy
  BY DEF HInv, Healthy, Pruning, RepairedIsHealthy
<1>3. Spec => []HInv
  BY <1>1, HealthStep, Invariance, PTL DEF Spec
<1>4. QED
  BY <1>2, <1>3, PTL
=============================================================================
