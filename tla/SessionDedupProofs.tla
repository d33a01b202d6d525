------------------------- MODULE SessionDedupProofs -------------------------
(***************************************************************************)
(* What holds of SessionDedup for any number of processes, commands, texts *)
(* and any time limits: the lock excludes writers until one is robbed of   *)
(* it, no update is lost until then, and, robbed or not, the processes     *)
(* implement DedupPromise.                                                 *)
(***************************************************************************)
EXTENDS SessionDedup, FiniteSetTheorems, TLAPS

-----------------------------------------------------------------------------
(* Operators *)

\* prune keeps entries as they are or drops them.
LEMMA PrunedEntries ==
    ASSUME NEW s, NEW at, NEW t \in Pruned(s, at)
    PROVE  \E K \in SUBSET Keys : t = [k \in Keys |-> IF k \in K THEN s[k] ELSE NoEntry]
  BY DEF Pruned

LEMMA Appended ==
    ASSUME NEW S, NEW s \in Seq(S), NEW x \in S
    PROVE  /\ Append(s, x) \in Seq(S)
           /\ Len(s) + 1 \in DOMAIN Append(s, x) /\ Append(s, x)[Len(s) + 1] = x
           /\ DOMAIN s \subseteq DOMAIN Append(s, x)
           /\ \A i \in DOMAIN s : Append(s, x)[i] = s[i]
  OBVIOUS

\* Snapshots are only ever added.
LEMMA SnapshotTaken ==
    ASSUME TypeOK, NEW t \in Texts, TakeSnapshot(t)
    PROVE  /\ snaps' \in Seq(Texts) /\ live' \subseteq DOMAIN snaps'
           /\ Len(snaps) + 1 \in DOMAIN snaps' /\ snaps'[Len(snaps) + 1] = t
           /\ DOMAIN snaps \subseteq DOMAIN snaps'
           /\ \A i \in DOMAIN snaps : snaps'[i] = snaps[i]
  BY Appended DEF TypeOK, TakeSnapshot

-----------------------------------------------------------------------------
(* Types *)

\* What a process knows of its run: the text until it is out, the entry from the
\* decision until it is on disk.
KnowsOne(r) ==
    /\ r.pc \in {"look", "emit"} => r.text \in Texts
    /\ r.pc = "look" => ~r.marker /\ ~r.save
    /\ r.pc = "emit" /\ (r.marker \/ r.save) => r.entry \in Entry
    /\ r.pc \in {"lock", "stat", "steal", "read", "write"} => r.entry \in Entry

Knows == \A p \in Procs : KnowsOne(proc[p])

Typed == TypeOK /\ Knows

LEMMA IdleType == Idle \in Proc /\ EmptyStore \in [Keys -> Entry \cup {NoEntry}]
  <1>1. SomeKey \in Keys
    BY KeysAssumption DEF SomeKey
  <1>2. EmptyStore \in [Keys -> Entry \cup {NoEntry}]
    BY DEF EmptyStore
  <1>3. LockRetries \in Nat
    BY BoundsAssumption
  <1> QED BY <1>1, <1>2, <1>3 DEF Idle, Proc, Phases, NoPointer

LEMMA IdleKnows == KnowsOne(Idle)
  BY DEF KnowsOne, Idle

LEMMA InitTyped == Init => Typed
  <1> SUFFICES ASSUME Init PROVE Typed
    OBVIOUS
  <1>1. proc \in [Procs -> Proc]
    BY IdleType DEF Init
  <1>2. store \in [Keys -> Entry \cup {NoEntry}]
    BY IdleType DEF Init
  <1>3. \A p \in Procs : proc[p].pc = "idle"
    BY DEF Init, Idle
  <1>4. snaps \in Seq(Texts) /\ live \subseteq DOMAIN snaps
    BY DEF Init
  <1>5. Knows
    BY <1>3 DEF Knows, KnowsOne
  <1> QED BY <1>1, <1>2, <1>4, <1>5 DEF Init, Typed, TypeOK

LEMMA ProcTyped ==
    ASSUME Typed, NEW p \in Procs, NEW r \in Proc, KnowsOne(r),
           proc' = [proc EXCEPT ![p] = r]
    PROVE  proc' \in [Procs -> Proc] /\ Knows'
  <1>1. proc \in [Procs -> Proc]
    BY DEF Typed, TypeOK
  <1>2. \A q \in Procs : proc'[q] = IF q = p THEN r ELSE proc[q]
    BY <1>1
  <1>3. proc' \in [Procs -> Proc]
    BY <1>1
  <1>4. Knows'
    BY <1>2 DEF Typed, Knows
  <1> QED BY <1>3, <1>4

LEMMA FinishTyped ==
    ASSUME Typed, NEW p \in Procs, Finish(p) PROVE proc' \in [Procs -> Proc] /\ Knows'
  BY IdleKnows, IdleType, ProcTyped DEF Finish

LEMMA GotoTyped ==
    ASSUME Typed, NEW p \in Procs, NEW x \in Phases, Goto(p, x),
           x = "look" => proc[p].pc = "look",
           x = "emit" => proc[p].pc \in {"look", "emit"},
           x \in {"lock", "stat", "steal", "read", "write"}
              => proc[p].pc \in {"lock", "stat", "steal", "read", "write"}
    PROVE  proc' \in [Procs -> Proc] /\ Knows'
  <1> DEFINE r == [proc[p] EXCEPT !.pc = x]
  <1>1. proc[p] \in Proc /\ proc \in [Procs -> Proc]
    BY DEF Typed, TypeOK
  <1>2. r \in Proc
    BY <1>1 DEF Proc
  <1>3. KnowsOne(r)
    <2>1. KnowsOne(proc[p])
      BY DEF Typed, Knows
    <2> QED BY <1>1, <2>1 DEF KnowsOne, Proc, Phases
  <1>4. proc' = [proc EXCEPT ![p] = r]
    BY <1>1 DEF Goto
  <1> QED BY <1>2, <1>3, <1>4, ProcTyped

LEMMA RetryTyped ==
    ASSUME Typed, NEW p \in Procs, proc[p].pc \in {"stat", "steal"}, Retry(p)
    PROVE  proc' \in [Procs -> Proc] /\ Knows'
  <1>1. CASE proc[p].tries < LockRetries
    <2> DEFINE r == [proc[p] EXCEPT !.pc = "lock", !.tries = @ + 1]
    <2>1. proc[p] \in Proc /\ proc \in [Procs -> Proc] /\ KnowsOne(proc[p])
      BY DEF Typed, TypeOK, Knows
    <2>2. r \in Proc
      <3>1. proc[p].tries + 1 \in 0 .. LockRetries
        BY <2>1, <1>1, BoundsAssumption DEF Proc
      <3> QED BY <2>1, <3>1 DEF Proc, Phases
    <2>3. KnowsOne(r)
      BY <2>1 DEF KnowsOne, Proc
    <2>4. proc' = [proc EXCEPT ![p] = r]
      BY <2>1, <1>1 DEF Retry
    <2> QED BY <2>2, <2>3, <2>4, ProcTyped
  <1>2. CASE ~(proc[p].tries < LockRetries)
    BY <1>2, FinishTyped DEF Retry
  <1> QED BY <1>1, <1>2

LEMMA NextTyped == Typed /\ [Next]_vars => Typed'
  <1> SUFFICES ASSUME Typed, [Next]_vars PROVE Typed'
    OBVIOUS
  <1>0. TypeOK /\ proc \in [Procs -> Proc] /\ \A p \in Procs : KnowsOne(proc[p])
    BY DEF Typed, TypeOK, Knows
  <1>1. ASSUME NEW p \in Procs, NEW k \in Keys, NEW t \in Texts, NEW saved \in BOOLEAN,
               Run(p, k, t, saved)
        PROVE  Typed'
    <2> DEFINE r == [Idle EXCEPT !.pc = "look", !.key = k, !.text = t, !.at = now,
                        !.own = IF saved THEN Len(snaps) + 1 ELSE NoPointer]
    <2>1. r \in Proc /\ KnowsOne(r)
      <3>1. now \in Nat /\ (IF saved THEN Len(snaps) + 1 ELSE NoPointer) \in Nat
        BY <1>0 DEF TypeOK, NoPointer
      <3>2. r.pc = "look" /\ r.text = t /\ ~r.marker /\ ~r.save
        BY DEF Idle
      <3>3. r \in Proc
        BY <3>1, IdleType DEF Proc, Phases
      <3> QED BY <3>2, <3>3 DEF KnowsOne
    <2>2. proc' \in [Procs -> Proc] /\ Knows'
      <3>1. proc' = [proc EXCEPT ![p] = r]
        BY <1>1 DEF Run
      <3> QED BY <2>1, <3>1, ProcTyped
    <2>3. snaps' \in Seq(Texts) /\ live' \subseteq DOMAIN snaps'
      BY <1>0, <1>1, SnapshotTaken DEF Run, TypeOK
    <2> QED BY <1>0, <1>1, <2>2, <2>3 DEF Run, Typed, TypeOK, history
  <1>2. ASSUME NEW p \in Procs, HitLive(p) PROVE Typed'
    <2> DEFINE e == store[proc[p].key]
               r == [proc[p] EXCEPT !.pc = "emit", !.marker = TRUE, !.entry = e]
    <2>1. r \in Proc /\ KnowsOne(r)
      <3>1. proc[p] \in Proc /\ KnowsOne(proc[p]) /\ proc[p].pc = "look" /\ IsHit(p, e)
        BY <1>0, <1>2 DEF HitLive, TypeOK
      <3>2. e \in Entry \cup {NoEntry} /\ e # NoEntry
        BY <1>0, <3>1 DEF TypeOK, IsHit, Proc
      <3> HIDE DEF e
      <3>3. r \in Proc
        BY <3>1, <3>2 DEF Proc, Phases
      <3> QED BY <3>1, <3>2, <3>3 DEF KnowsOne, IsHit, Proc
    <2>2. proc' \in [Procs -> Proc] /\ Knows'
      <3>1. proc' = [proc EXCEPT ![p] = r]
        BY <1>0, <1>2 DEF HitLive
      <3> QED BY <2>1, <3>1, ProcTyped
    <2> QED BY <1>0, <1>2, <2>2 DEF HitLive, Typed, TypeOK, disk, history
  <1>3. ASSUME NEW p \in Procs, HitSnapshot(p) PROVE Typed'
    <2> DEFINE e == store[proc[p].key]
               r == [proc[p] EXCEPT !.pc = "emit", !.marker = TRUE, !.save = TRUE,
                                   !.entry = [e EXCEPT !.pointer = Len(snaps) + 1]]
    <2>1. r \in Proc /\ KnowsOne(r)
      BY <1>0, <1>3 DEF HitSnapshot, Proc, Phases, KnowsOne, TypeOK, IsHit, Entry
    <2>2. proc' \in [Procs -> Proc] /\ Knows'
      <3>1. proc' = [proc EXCEPT ![p] = r]
        BY <1>0, <1>3 DEF HitSnapshot
      <3> QED BY <2>1, <3>1, ProcTyped
    <2>3. snaps' \in Seq(Texts) /\ live' \subseteq DOMAIN snaps'
      BY <1>0, <1>3, SnapshotTaken DEF HitSnapshot, KnowsOne
    <2> QED BY <1>0, <1>3, <2>2, <2>3 DEF HitSnapshot, Typed, TypeOK, disk, history
  <1>4. ASSUME NEW p \in Procs, HitDeclined(p) PROVE Typed'
    <2>1. proc[p].pc = "look" /\ Goto(p, "emit") /\ "emit" \in Phases
      BY <1>4 DEF HitDeclined, Phases
    <2>2. proc' \in [Procs -> Proc] /\ Knows'
      BY <2>1, GotoTyped
    <2>3. snaps' \in Seq(Texts) /\ live' \subseteq DOMAIN snaps'
      BY <1>0, <1>4, SnapshotTaken DEF HitDeclined, KnowsOne, TypeOK
    <2> QED BY <1>0, <1>4, <2>2, <2>3 DEF HitDeclined, Typed, TypeOK, disk, history
  <1>5. ASSUME NEW p \in Procs, Miss(p) PROVE Typed'
    <2>1. PICK seen \in Readable :
             proc' = [proc EXCEPT ![p].pc = "emit", ![p].save = TRUE,
                 ![p].entry = [text |-> proc[p].text, emitted |-> proc[p].at,
                    differed |-> IF seen[proc[p].key] = NoEntry
                                    \/ seen[proc[p].key].text # proc[p].text
                                 THEN proc[p].at ELSE seen[proc[p].key].differed,
                    pointer |-> proc[p].own]]
      BY <1>5 DEF Miss
    <2> DEFINE e == seen[proc[p].key]
               n == [text |-> proc[p].text, emitted |-> proc[p].at,
                     differed |-> IF e = NoEntry \/ e.text # proc[p].text
                                  THEN proc[p].at ELSE e.differed,
                     pointer |-> proc[p].own]
               r == [proc[p] EXCEPT !.pc = "emit", !.save = TRUE, !.entry = n]
    <2>2. r \in Proc /\ KnowsOne(r)
      <3>1. /\ proc[p].text \in Texts /\ proc[p].at \in Nat /\ proc[p].own \in Nat
            /\ proc[p].key \in Keys /\ proc[p] \in Proc
        BY <1>0, <1>5 DEF Miss, Proc, KnowsOne
      <3>2. e \in Entry \cup {NoEntry}
        BY <3>1, IdleType DEF Typed, TypeOK, Readable
      <3>3. n \in Entry
        BY <3>1, <3>2 DEF Entry
      <3> HIDE DEF n
      <3> QED BY <3>1, <3>3 DEF Proc, Phases, KnowsOne
    <2>3. proc' \in [Procs -> Proc] /\ Knows'
      <3>1. proc' = [proc EXCEPT ![p] = r]
        BY <1>0, <2>1
      <3> QED BY <2>2, <3>1, ProcTyped
    <2> QED BY <1>0, <1>5, <2>3 DEF Miss, Typed, TypeOK, disk, history
  <1>6. ASSUME NEW p \in Procs, Emit(p) PROVE Typed'
    <2> DEFINE r == IF proc[p].save
                    THEN [Idle EXCEPT !.pc = "lock", !.key = proc[p].key, !.at = proc[p].at,
                             !.entry = proc[p].entry]
                    ELSE Idle
    <2>1. r \in Proc /\ KnowsOne(r)
      <3>1. CASE proc[p].save
        <4>1. proc[p].entry \in Entry /\ proc[p] \in Proc
          BY <1>0, <1>6, <3>1 DEF Emit, KnowsOne
        <4>2. r.pc = "lock" /\ r.entry = proc[p].entry
          BY <3>1 DEF Idle
        <4>3. r \in Proc
          BY <3>1, <4>1, IdleType DEF Proc, Phases
        <4> QED BY <4>1, <4>2, <4>3 DEF KnowsOne
      <3>2. CASE ~proc[p].save
        <4>1. r = Idle
          BY <3>2
        <4> QED BY <4>1, IdleType, IdleKnows
      <3> QED BY <3>1, <3>2
    <2>2. proc' \in [Procs -> Proc] /\ Knows'
      <3>1. proc' = [proc EXCEPT ![p] = r]
        BY <1>0, <1>6 DEF Emit, Finish
      <3> QED BY <2>1, <3>1, ProcTyped
    <2>3. proc[p].key \in Keys /\ proc[p].text \in Texts /\ proc[p].at \in Nat
          /\ (proc[p].marker => proc[p].entry \in Entry)
      BY <1>0, <1>6 DEF Emit, Proc, KnowsOne
    <2>4. /\ memory' \subseteq [key : Keys, text : Texts, at : Nat]
          /\ answers' \subseteq
                [key : Keys, text : Texts, at : Nat, since : Int, pointer : Nat]
      BY <1>0, <1>6, <2>3 DEF Emit, TypeOK, Entry
    <2> QED BY <1>0, <1>6, <2>2, <2>4 DEF Emit, Typed, TypeOK, disk
  <1>7. ASSUME NEW p \in Procs, LockCreate(p) PROVE Typed'
    <2>1. proc[p].pc = "lock" /\ Goto(p, "read") /\ "read" \in Phases
      BY <1>7 DEF LockCreate, Phases
    <2>2. proc' \in [Procs -> Proc] /\ Knows'
      BY <2>1, GotoTyped
    <2> QED BY <1>0, <1>7, <2>2 DEF LockCreate, Typed, TypeOK, disk, history
  <1>8. ASSUME NEW p \in Procs, LockExists(p) PROVE Typed'
    <2>1. proc[p].pc = "lock" /\ Goto(p, "stat") /\ "stat" \in Phases
      BY <1>8 DEF LockExists, Phases
    <2>2. proc' \in [Procs -> Proc] /\ Knows'
      BY <2>1, GotoTyped
    <2> QED BY <1>0, <1>8, <2>2 DEF LockExists, Typed, TypeOK, disk, history
  <1>9. ASSUME NEW p \in Procs, LockFails(p) PROVE Typed'
    <2>2. proc' \in [Procs -> Proc] /\ Knows'
      BY <1>9, FinishTyped DEF LockFails
    <2> QED BY <1>0, <1>9, <2>2 DEF LockFails, Typed, TypeOK, disk, history
  <1>10. ASSUME NEW p \in Procs, LockStat(p) PROVE Typed'
    <2>2. proc' \in [Procs -> Proc] /\ Knows'
      <3>1. CASE Stale(lock)
        BY <1>10, <3>1, GotoTyped DEF LockStat, Phases
      <3>2. CASE ~Stale(lock)
        BY <1>10, <3>2, RetryTyped DEF LockStat
      <3> QED BY <3>1, <3>2
    <2> QED BY <1>0, <1>10, <2>2 DEF LockStat, Typed, TypeOK, disk, history
  <1>11. ASSUME NEW p \in Procs, LockSteal(p) PROVE Typed'
    <2>2. proc' \in [Procs -> Proc] /\ Knows'
      BY <1>11, RetryTyped DEF LockSteal
    <2>3. robbed' \in BOOLEAN
      BY <1>0, <1>11 DEF LockSteal, TypeOK
    <2> QED BY <1>0, <1>11, <2>2, <2>3 DEF LockSteal, Typed, TypeOK, disk, history
  <1>12. ASSUME NEW p \in Procs, StoreRead(p) PROVE Typed'
    <2>1. PICK seen \in Readable :
             proc' = [proc EXCEPT ![p].pc = "write", ![p].base = seen]
      BY <1>12 DEF StoreRead
    <2> DEFINE r == [proc[p] EXCEPT !.pc = "write", !.base = seen]
    <2>2. r \in Proc /\ KnowsOne(r)
      <3>1. seen \in [Keys -> Entry \cup {NoEntry}]
        BY IdleType DEF Readable, Typed, TypeOK
      <3>2. r \in Proc
        BY <1>0, <3>1 DEF Proc, Phases
      <3>3. r.pc = "write" /\ r.entry = proc[p].entry /\ r.entry \in Entry
        BY <1>0, <1>12 DEF StoreRead, Proc, KnowsOne
      <3> HIDE DEF r
      <3> QED BY <3>2, <3>3 DEF KnowsOne
    <2>3. proc' \in [Procs -> Proc] /\ Knows'
      <3>1. proc' = [proc EXCEPT ![p] = r]
        BY <1>0, <2>1
      <3> QED BY <2>2, <3>1, ProcTyped
    <2> QED BY <1>0, <1>12, <2>3 DEF StoreRead, Typed, TypeOK, disk, history
  <1>13. ASSUME NEW p \in Procs, StoreWrite(p) PROVE Typed'
    <2>2. proc' \in [Procs -> Proc] /\ Knows'
      <3>1. [Idle EXCEPT !.pc = "unlock"] \in Proc /\ KnowsOne([Idle EXCEPT !.pc = "unlock"])
        BY IdleType DEF Proc, Idle, Phases, KnowsOne
      <3>2. proc' = [proc EXCEPT ![p] = [Idle EXCEPT !.pc = "unlock"]]
        BY <1>13 DEF StoreWrite, Done
      <3> QED BY <3>1, <3>2, ProcTyped
    <2>3. store' \in [Keys -> Entry \cup {NoEntry}]
      <3> DEFINE s == [proc[p].base EXCEPT ![proc[p].key] = proc[p].entry]
      <3>1. s \in [Keys -> Entry \cup {NoEntry}]
        BY <1>0, <1>13 DEF StoreWrite, Proc, KnowsOne
      <3>2. store' \in Pruned(s, proc[p].at)
        BY <1>13 DEF StoreWrite
      <3> HIDE DEF s
      <3> QED BY <3>1, <3>2, PrunedEntries
    <2> QED BY <1>0, <1>13, <2>2, <2>3 DEF StoreWrite, Typed, TypeOK, disk, history
  <1>14. ASSUME NEW p \in Procs, StoreWriteFails(p) PROVE Typed'
    <2>2. proc' \in [Procs -> Proc] /\ Knows'
      <3>1. [Idle EXCEPT !.pc = "unlock"] \in Proc /\ KnowsOne([Idle EXCEPT !.pc = "unlock"])
        BY IdleType DEF Proc, Idle, Phases, KnowsOne
      <3>2. proc' = [proc EXCEPT ![p] = [Idle EXCEPT !.pc = "unlock"]]
        BY <1>14 DEF StoreWriteFails, Done
      <3> QED BY <3>1, <3>2, ProcTyped
    <2> QED BY <1>0, <1>14, <2>2 DEF StoreWriteFails, Typed, TypeOK, disk, history
  <1>15. ASSUME NEW p \in Procs, Unlock(p) PROVE Typed'
    <2>2. proc' \in [Procs -> Proc] /\ Knows'
      BY <1>15, FinishTyped DEF Unlock
    <2> QED BY <1>0, <1>15, <2>2 DEF Unlock, Typed, TypeOK, disk, history
  <1>16. ASSUME NEW p \in Procs, Crash(p) PROVE Typed'
    <2>2. proc' \in [Procs -> Proc] /\ Knows'
      BY <1>16, FinishTyped DEF Crash
    <2> QED BY <1>0, <1>16, <2>2 DEF Crash, Typed, TypeOK, disk, history
  <1>17. CASE Collect
    BY <1>0, <1>17 DEF Typed, TypeOK, Knows, Collect, history
  <1>18. CASE Tick
    BY <1>0, <1>18 DEF Typed, TypeOK, Knows, Tick, disk, history
  <1>19. CASE UNCHANGED vars
    BY <1>0, <1>19 DEF Typed, TypeOK, Knows, vars
  <1> QED
    BY <1>1, <1>2, <1>3, <1>4, <1>5, <1>6, <1>7, <1>8, <1>9, <1>10, <1>11, <1>12, <1>13,
       <1>14, <1>15, <1>16, <1>17, <1>18, <1>19
    DEF Next, Step

\* The store, the lock, the snapshots and every process keep their types.
THEOREM TypeCorrect == Spec => []TypeOK
  <1>1. Typed => TypeOK
    BY DEF Typed
  <1> QED BY <1>1, InitTyped, NextTyped, PTL DEF Spec

-----------------------------------------------------------------------------
(* The lock *)

\* As long as nobody has been robbed, a process between acquireLock and release owns
\* the lock file, and what a writer read is what is on disk.
Guarded == ~robbed => \A p \in Procs : Holding(p) => lock # NoLock /\ lock.by = p
LockInv == Guarded /\ NoLostUpdate

\* A step of p that touches neither the lock nor the store, and does not take p
\* into the section the lock protects.
LEMMA Quiet ==
    ASSUME LockInv, NEW p \in Procs, UNCHANGED <<lock, robbed, store>>,
           \A q \in Procs \ {p} : proc'[q] = proc[q],
           \/ proc'[p].pc \notin {"read", "write", "unlock"}
           \/ Holding(p) /\ proc'[p].pc = "unlock"
    PROVE  LockInv'
  BY DEF LockInv, Guarded, NoLostUpdate, Readable, Holding

LEMMA RetryMoves ==
    ASSUME Typed, NEW p \in Procs, Retry(p)
    PROVE  /\ \A q \in Procs \ {p} : proc'[q] = proc[q]
           /\ proc'[p].pc \in {"lock", "idle"}
  <1>1. proc \in [Procs -> Proc] /\ proc[p] \in Proc
    BY DEF Typed, TypeOK
  <1>2. Idle.pc = "idle"
    BY DEF Idle
  <1> QED BY <1>1, <1>2 DEF Retry, Finish, Proc

LEMMA EmitMoves ==
    ASSUME Typed, NEW p \in Procs, Emit(p)
    PROVE  /\ \A q \in Procs \ {p} : proc'[q] = proc[q]
           /\ \/ proc'[p].pc = "idle"
              \/ /\ proc'[p].pc = "lock" /\ proc[p].save
                 /\ proc'[p].key = proc[p].key /\ proc'[p].at = proc[p].at
                 /\ proc'[p].entry = proc[p].entry
  <1>0. proc \in [Procs -> Proc]
    BY DEF Typed, TypeOK
  <1> DEFINE r == [Idle EXCEPT !.pc = "lock", !.key = proc[p].key, !.at = proc[p].at,
                      !.entry = proc[p].entry]
  <1>1. /\ r.pc = "lock" /\ r.key = proc[p].key /\ r.at = proc[p].at
        /\ r.entry = proc[p].entry /\ Idle.pc = "idle"
    BY DEF Idle
  <1>2. \/ proc' = [proc EXCEPT ![p] = r] /\ proc[p].save
       \/ proc' = [proc EXCEPT ![p] = Idle]
    BY DEF Emit, Finish
  <1> HIDE DEF r
  <1> QED BY <1>0, <1>1, <1>2

LEMMA InitLock == Init => LockInv
  BY DEF Init, LockInv, Guarded, NoLostUpdate, Readable, Holding, Idle

LEMMA NextLock == Typed /\ LockInv /\ [Next]_vars => LockInv'
  <1> SUFFICES ASSUME Typed, LockInv, [Next]_vars PROVE LockInv'
    OBVIOUS
  <1>0. proc \in [Procs -> Proc] /\ \A p \in Procs : proc[p] \in Proc
    BY DEF Typed, TypeOK
  <1>1. ASSUME NEW p \in Procs, NEW k \in Keys, NEW t \in Texts, NEW saved \in BOOLEAN,
               Run(p, k, t, saved) PROVE LockInv'
    <2>1. /\ \A q \in Procs \ {p} : proc'[q] = proc[q]
          /\ proc'[p].pc = "look"
      <3> DEFINE r == [Idle EXCEPT !.pc = "look", !.key = k, !.text = t, !.at = now,
                          !.own = IF saved THEN Len(snaps) + 1 ELSE NoPointer]
      <3>1. proc' = [proc EXCEPT ![p] = r]
        BY <1>1 DEF Run
      <3>2. r.pc = "look"
        BY DEF Idle
      <3> HIDE DEF r
      <3> QED BY <1>0, <3>1, <3>2
    <2> QED BY <1>1, <2>1, Quiet DEF Run, disk, history
  <1>2. ASSUME NEW p \in Procs, HitLive(p) PROVE LockInv'
    <2>1. /\ \A q \in Procs \ {p} : proc'[q] = proc[q]
          /\ proc'[p].pc = "emit"
      BY <1>0, <1>2 DEF HitLive, Proc
    <2> QED BY <1>2, <2>1, Quiet DEF HitLive, disk, history
  <1>3. ASSUME NEW p \in Procs, HitSnapshot(p) PROVE LockInv'
    <2>1. /\ \A q \in Procs \ {p} : proc'[q] = proc[q]
          /\ proc'[p].pc = "emit"
      BY <1>0, <1>3 DEF HitSnapshot, Proc
    <2> QED BY <1>3, <2>1, Quiet DEF HitSnapshot, disk, history
  <1>4. ASSUME NEW p \in Procs, HitDeclined(p) PROVE LockInv'
    <2>1. /\ \A q \in Procs \ {p} : proc'[q] = proc[q]
          /\ proc'[p].pc = "emit"
      BY <1>0, <1>4 DEF HitDeclined, Goto, Proc
    <2> QED BY <1>4, <2>1, Quiet DEF HitDeclined, disk, history
  <1>5. ASSUME NEW p \in Procs, Miss(p) PROVE LockInv'
    <2>1. /\ \A q \in Procs \ {p} : proc'[q] = proc[q]
          /\ proc'[p].pc = "emit"
      BY <1>0, <1>5 DEF Miss, Proc
    <2> QED BY <1>5, <2>1, Quiet DEF Miss, disk, history
  <1>6. ASSUME NEW p \in Procs, Emit(p) PROVE LockInv'
    <2>1. /\ \A q \in Procs \ {p} : proc'[q] = proc[q]
          /\ proc'[p].pc \in {"lock", "idle"}
      BY <1>6, EmitMoves
    <2> QED BY <1>6, <2>1, Quiet DEF Emit, disk
  <1>7. ASSUME NEW p \in Procs, LockCreate(p) PROVE LockInv'
    <2>1. /\ \A q \in Procs \ {p} : proc'[q] = proc[q]
          /\ proc'[p].pc = "read" /\ lock' = [by |-> p, at |-> now]
          /\ lock = NoLock /\ robbed' = robbed
      BY <1>0, <1>7 DEF LockCreate, Goto, Proc, history
    <2>2. now \in Nat /\ lock' # NoLock /\ lock'.by = p
      BY <2>1, NoLockAssumption DEF Typed, TypeOK
    <2>3. ~robbed => \A q \in Procs : ~Holding(q)
      BY <2>1 DEF LockInv, Guarded
    <2> QED BY <2>1, <2>2, <2>3 DEF LockInv, Guarded, NoLostUpdate, Readable, Holding
  <1>8. ASSUME NEW p \in Procs, LockExists(p) PROVE LockInv'
    <2>1. /\ \A q \in Procs \ {p} : proc'[q] = proc[q]
          /\ proc'[p].pc = "stat"
      BY <1>0, <1>8 DEF LockExists, Goto, Proc
    <2> QED BY <1>8, <2>1, Quiet DEF LockExists, disk, history
  <1>9. ASSUME NEW p \in Procs, LockFails(p) PROVE LockInv'
    <2>1. /\ \A q \in Procs \ {p} : proc'[q] = proc[q]
          /\ proc'[p].pc = "idle"
      BY <1>0, <1>9 DEF LockFails, Finish, Idle, Proc
    <2> QED BY <1>9, <2>1, Quiet DEF LockFails, disk, history
  <1>10. ASSUME NEW p \in Procs, LockStat(p) PROVE LockInv'
    <2>1. /\ \A q \in Procs \ {p} : proc'[q] = proc[q]
          /\ proc'[p].pc \in {"steal", "lock", "idle"}
      BY <1>0, <1>10, RetryMoves DEF LockStat, Goto, Proc
    <2> QED BY <1>10, <2>1, Quiet DEF LockStat, disk, history
  <1>11. ASSUME NEW p \in Procs, LockSteal(p) PROVE LockInv'
    <2>1. /\ \A q \in Procs \ {p} : proc'[q] = proc[q]
          /\ proc'[p].pc \in {"lock", "idle"}
      BY <1>11, RetryMoves DEF LockSteal
    <2>2. ~robbed' => ~robbed /\ \A q \in Procs : ~Holding(q)
      <3>1. lock # NoLock => lock.by \in Procs
        BY DEF Typed, TypeOK
      <3> QED BY <1>11, <3>1 DEF LockSteal, LockInv, Guarded
    <2> QED BY <1>11, <2>1, <2>2 DEF LockSteal, LockInv, Guarded, NoLostUpdate, Readable, Holding
  <1>12. ASSUME NEW p \in Procs, StoreRead(p) PROVE LockInv'
    <2>1. /\ \A q \in Procs \ {p} : proc'[q] = proc[q]
          /\ proc'[p].pc = "write" /\ proc'[p].base \in Readable /\ proc[p].pc = "read"
      BY <1>0, <1>12 DEF StoreRead, Proc
    <2> QED BY <1>12, <2>1 DEF StoreRead, disk, history, LockInv, Guarded, NoLostUpdate, Readable, Holding
  <1>13. ASSUME NEW p \in Procs, StoreWrite(p) PROVE LockInv'
    <2>1. /\ \A q \in Procs \ {p} : proc'[q] = proc[q]
          /\ proc'[p].pc = "unlock" /\ proc[p].pc = "write"
          /\ lock' = lock /\ robbed' = robbed
      BY <1>0, <1>13 DEF StoreWrite, Done, Idle, Proc, history
    <2>2. ~robbed => \A q \in Procs : Holding(q) => q = p
      BY <2>1 DEF LockInv, Guarded, Holding
    <2> QED BY <2>1, <2>2 DEF LockInv, Guarded, NoLostUpdate, Readable, Holding
  <1>14. ASSUME NEW p \in Procs, StoreWriteFails(p) PROVE LockInv'
    <2>1. /\ \A q \in Procs \ {p} : proc'[q] = proc[q]
          /\ Holding(p) /\ proc'[p].pc = "unlock"
      BY <1>0, <1>14 DEF StoreWriteFails, Done, Idle, Proc, Holding
    <2> QED BY <1>14, <2>1, Quiet DEF StoreWriteFails, disk, history
  <1>15. ASSUME NEW p \in Procs, Unlock(p) PROVE LockInv'
    <2>1. /\ \A q \in Procs \ {p} : proc'[q] = proc[q]
          /\ proc'[p].pc = "idle" /\ proc[p].pc = "unlock"
          /\ robbed' = robbed /\ store' = store
      BY <1>0, <1>15 DEF Unlock, Finish, Idle, Proc, history
    <2>2. ~robbed => \A q \in Procs : Holding(q) => q = p
      BY <2>1 DEF LockInv, Guarded, Holding
    <2> QED BY <2>1, <2>2 DEF LockInv, Guarded, NoLostUpdate, Readable, Holding
  <1>16. ASSUME NEW p \in Procs, Crash(p) PROVE LockInv'
    <2>1. /\ \A q \in Procs \ {p} : proc'[q] = proc[q]
          /\ proc'[p].pc = "idle"
      BY <1>0, <1>16 DEF Crash, Finish, Idle, Proc
    <2> QED BY <1>16, <2>1, Quiet DEF Crash, disk, history
  <1>17. CASE Collect
    BY <1>17 DEF LockInv, Guarded, NoLostUpdate, Readable, Holding, Collect, history
  <1>18. CASE Tick
    BY <1>18 DEF LockInv, Guarded, NoLostUpdate, Readable, Holding, Tick, disk, history
  <1>19. CASE UNCHANGED vars
    BY <1>19 DEF LockInv, Guarded, NoLostUpdate, Readable, Holding, vars
  <1> QED
    BY <1>1, <1>2, <1>3, <1>4, <1>5, <1>6, <1>7, <1>8, <1>9, <1>10, <1>11, <1>12, <1>13,
       <1>14, <1>15, <1>16, <1>17, <1>18, <1>19
    DEF Next, Step

LEMMA LockInvariance == Spec => []LockInv
  <1> QED BY InitTyped, NextTyped, InitLock, NextLock, PTL DEF Spec

\* acquireLock excludes writers until somebody removes a lock that is in use.
THEOREM LockExcludes == Spec => []ExclusiveUntilRobbed
  <1>1. LockInv => ExclusiveUntilRobbed
    BY DEF LockInv, Guarded, ExclusiveUntilRobbed
  <1> QED BY <1>1, LockInvariance, PTL

\* upsertEntry never overwrites an entry it has not seen, until then.
THEOREM NoUpdateIsLost == Spec => []NoLostUpdate
  <1>1. LockInv => NoLostUpdate
    BY DEF LockInv
  <1> QED BY <1>1, LockInvariance, PTL

-----------------------------------------------------------------------------
(* The promise *)

PointsAt(sn, i, text) == i = NoPointer \/ (i \in DOMAIN sn /\ sn[i] = text)

\* An entry is genuine if its text was delivered in full for its command at the time
\* it says, and its pointer, if any, names a snapshot of that text.
Genuine(m, sn, k, e) ==
    /\ [key |-> k, text |-> e.text, at |-> e.emitted] \in m
    /\ PointsAt(sn, e.pointer, e.text)

\* What a process carries is genuine, or will be once its text is out.
Honest(m, sn, r) ==
    /\ r.pc = "look" => PointsAt(sn, r.own, r.text)
    /\ r.pc = "emit" /\ r.marker =>
          /\ Genuine(m, sn, r.key, r.entry)
          /\ r.entry.text = r.text /\ Fresh(r.key, r.entry, r.at)
          /\ r.entry.pointer \in DOMAIN sn /\ sn[r.entry.pointer] = r.text
    /\ r.pc = "emit" /\ ~r.marker /\ r.save =>
          /\ r.entry.text = r.text /\ r.entry.emitted = r.at
          /\ PointsAt(sn, r.entry.pointer, r.text)
    /\ r.pc \in {"lock", "stat", "steal", "read", "write"} => Genuine(m, sn, r.key, r.entry)
    /\ r.pc = "write" =>
          \A k \in Keys : r.base[k] # NoEntry => Genuine(m, sn, k, r.base[k])

HonestInv ==
    /\ \A k \in Keys : store[k] # NoEntry => Genuine(memory, snaps, k, store[k])
    /\ \A p \in Procs : Honest(memory, snaps, proc[p])

\* Deliveries and snapshots are never taken back, so what is honest stays honest.
LEMMA GenuineStays ==
    ASSUME NEW m, NEW n, NEW sn, NEW tn, NEW k, NEW e, m \subseteq n,
           DOMAIN sn \subseteq DOMAIN tn, \A i \in DOMAIN sn : tn[i] = sn[i],
           Genuine(m, sn, k, e)
    PROVE  Genuine(n, tn, k, e)
  BY DEF Genuine, PointsAt

LEMMA HonestStays ==
    ASSUME NEW m, NEW n, NEW sn, NEW tn, NEW r, m \subseteq n,
           DOMAIN sn \subseteq DOMAIN tn, \A i \in DOMAIN sn : tn[i] = sn[i],
           Honest(m, sn, r)
    PROVE  Honest(n, tn, r)
  <1>1. \A k, e : Genuine(m, sn, k, e) => Genuine(n, tn, k, e)
    BY DEF Genuine, PointsAt
  <1>2. \A i, x : PointsAt(sn, i, x) => PointsAt(tn, i, x)
    BY DEF PointsAt
  <1> QED BY <1>1, <1>2 DEF Honest

Grows == /\ memory \subseteq memory' /\ DOMAIN snaps \subseteq DOMAIN snaps'
         /\ \A i \in DOMAIN snaps : snaps'[i] = snaps[i]

\* A step that leaves the store alone need only be honest about the process it moves.
LEMMA OneMoves ==
    ASSUME HonestInv, Grows, store' = store, NEW p \in Procs,
           \A q \in Procs \ {p} : proc'[q] = proc[q], Honest(memory', snaps', proc'[p])
    PROVE  HonestInv'
  <1>1. \A q \in Procs : Honest(memory', snaps', proc'[q])
    BY HonestStays DEF HonestInv, Grows
  <1>2. \A k \in Keys : store'[k] # NoEntry => Genuine(memory', snaps', k, store'[k])
    BY GenuineStays DEF HonestInv, Grows
  <1> QED BY <1>1, <1>2 DEF HonestInv

LEMMA RetryCarries ==
    ASSUME Typed, NEW p \in Procs, Retry(p)
    PROVE  /\ \A q \in Procs \ {p} : proc'[q] = proc[q]
           /\ \/ proc'[p].pc = "idle"
              \/ /\ proc'[p].pc = "lock"
                 /\ proc'[p].key = proc[p].key /\ proc'[p].entry = proc[p].entry
  <1>1. proc \in [Procs -> Proc] /\ proc[p] \in Proc
    BY DEF Typed, TypeOK
  <1>2. Idle.pc = "idle"
    BY DEF Idle
  <1> QED BY <1>1, <1>2 DEF Retry, Finish, Proc

LEMMA InitHonest == Init => HonestInv
  BY DEF Init, HonestInv, Honest, Idle, EmptyStore

LEMMA NextHonest == Typed /\ HonestInv /\ [Next]_vars => HonestInv'
  <1> SUFFICES ASSUME Typed, HonestInv, [Next]_vars PROVE HonestInv'
    OBVIOUS
  <1>0. /\ TypeOK /\ proc \in [Procs -> Proc]
        /\ \A p \in Procs : proc[p] \in Proc /\ KnowsOne(proc[p])
        /\ \A p \in Procs : Honest(memory, snaps, proc[p])
    BY DEF Typed, TypeOK, Knows, HonestInv
  <1>1. ASSUME NEW p \in Procs, NEW k \in Keys, NEW t \in Texts, NEW saved \in BOOLEAN,
               Run(p, k, t, saved)
        PROVE  HonestInv'
    <2> DEFINE r == [Idle EXCEPT !.pc = "look", !.key = k, !.text = t, !.at = now,
                        !.own = IF saved THEN Len(snaps) + 1 ELSE NoPointer]
    <2>1. r.pc = "look" /\ r.text = t /\ r.own = IF saved THEN Len(snaps) + 1 ELSE NoPointer
      BY DEF Idle
    <2>2. proc' = [proc EXCEPT ![p] = r]
      BY <1>1 DEF Run
    <2> HIDE DEF r
    <2>3. Grows /\ PointsAt(snaps', r.own, r.text)
      BY <1>0, <1>1, <2>1, SnapshotTaken DEF Run, Grows, PointsAt, history
    <2>4. proc'[p] = r /\ \A q \in Procs \ {p} : proc'[q] = proc[q]
      BY <1>0, <2>2
    <2>5. Honest(memory', snaps', proc'[p])
      BY <2>1, <2>3, <2>4 DEF Honest
    <2> QED BY <1>1, <2>3, <2>4, <2>5, OneMoves DEF Run
  <1>2. ASSUME NEW p \in Procs, HitLive(p) PROVE HonestInv'
    <2> DEFINE e == store[proc[p].key]
    <2>1. /\ \A q \in Procs \ {p} : proc'[q] = proc[q]
          /\ proc'[p] = [proc[p] EXCEPT !.pc = "emit", !.marker = TRUE, !.entry = e]
      BY <1>0, <1>2 DEF HitLive, Proc
    <2>2. /\ e # NoEntry /\ Fresh(proc[p].key, e, proc[p].at) /\ e.text = proc[p].text
          /\ e.pointer \in DOMAIN snaps /\ proc[p].key \in Keys
      BY <1>0, <1>2 DEF HitLive, IsHit, TypeOK, Proc
    <2>3. Genuine(memory, snaps, proc[p].key, e)
      BY <2>2 DEF HonestInv
    <2>4. e.pointer # NoPointer
      BY <1>0, <2>2 DEF TypeOK, NoPointer
    <2> HIDE DEF e
    <2>5. /\ proc'[p].pc = "emit" /\ proc'[p].marker /\ proc'[p].entry = e
          /\ proc'[p].key = proc[p].key /\ proc'[p].text = proc[p].text /\ proc'[p].at = proc[p].at
          /\ memory' = memory /\ snaps' = snaps
      <3>1. proc[p] \in Proc
        BY <1>0 DEF TypeOK
      <3>2. memory' = memory /\ snaps' = snaps
        BY <1>2 DEF HitLive, history, disk
      <3> QED BY <2>1, <3>1, <3>2 DEF Proc
    <2>6. snaps[e.pointer] = proc[p].text
      BY <2>2, <2>3, <2>4 DEF Genuine, PointsAt
    <2>7. Honest(memory', snaps', proc'[p])
      BY <2>2, <2>3, <2>5, <2>6 DEF Honest
    <2> QED BY <1>2, <2>1, <2>7, OneMoves DEF HitLive, disk, history, Grows
  <1>3. ASSUME NEW p \in Procs, HitSnapshot(p) PROVE HonestInv'
    <2> DEFINE e == store[proc[p].key]
    <2>1. /\ \A q \in Procs \ {p} : proc'[q] = proc[q]
          /\ proc'[p] = [proc[p] EXCEPT !.pc = "emit", !.marker = TRUE, !.save = TRUE,
                           !.entry = [e EXCEPT !.pointer = Len(snaps) + 1]]
      BY <1>0, <1>3 DEF HitSnapshot, Proc
    <2>2. /\ e # NoEntry /\ Fresh(proc[p].key, e, proc[p].at) /\ e.text = proc[p].text
          /\ proc[p].key \in Keys /\ proc[p].text \in Texts /\ e \in Entry
      BY <1>0, <1>3 DEF HitSnapshot, IsHit, TypeOK, Proc, KnowsOne
    <2>3. Genuine(memory, snaps, proc[p].key, e)
      BY <2>2 DEF HonestInv
    <2>4. /\ Grows /\ Len(snaps) + 1 \in DOMAIN snaps'
          /\ snaps'[Len(snaps) + 1] = proc[p].text /\ memory' = memory
      BY <1>0, <1>3, <2>2, SnapshotTaken DEF HitSnapshot, Grows, history
    <2>5. Honest(memory', snaps', proc'[p])
      <3> DEFINE f == [e EXCEPT !.pointer = Len(snaps) + 1]
      <3>1. f.text = e.text /\ f.emitted = e.emitted /\ f.pointer = Len(snaps) + 1
        BY <2>2 DEF Entry
      <3> HIDE DEF f
      <3>2. Genuine(memory', snaps', proc[p].key, f)
        BY <2>2, <2>3, <2>4, <3>1 DEF Genuine, PointsAt
      <3>3. Fresh(proc[p].key, f, proc[p].at)
        BY <2>2, <3>1 DEF Fresh
      <3>4. /\ proc'[p].pc = "emit" /\ proc'[p].marker /\ proc'[p].entry = f
            /\ proc'[p].key = proc[p].key /\ proc'[p].text = proc[p].text
            /\ proc'[p].at = proc[p].at
        BY <1>0, <2>1 DEF Proc, f
      <3> QED BY <2>2, <2>4, <3>1, <3>2, <3>3, <3>4 DEF Honest
    <2> QED BY <1>3, <2>1, <2>4, <2>5, OneMoves DEF HitSnapshot
  <1>4. ASSUME NEW p \in Procs, HitDeclined(p) PROVE HonestInv'
    <2>1. /\ \A q \in Procs \ {p} : proc'[q] = proc[q]
          /\ proc'[p] = [proc[p] EXCEPT !.pc = "emit"]
          /\ proc[p].pc = "look" /\ proc[p].text \in Texts
      BY <1>0, <1>4 DEF HitDeclined, Goto, Proc, KnowsOne
    <2>2. Grows
      BY <1>0, <1>4, <2>1, SnapshotTaken DEF HitDeclined, Grows, history
    <2>3. Honest(memory', snaps', proc'[p])
      BY <1>0, <2>1 DEF Honest, KnowsOne, Proc
    <2> QED BY <1>4, <2>1, <2>2, <2>3, OneMoves DEF HitDeclined
  <1>5. ASSUME NEW p \in Procs, Miss(p) PROVE HonestInv'
    <2>1. /\ \A q \in Procs \ {p} : proc'[q] = proc[q]
          /\ proc'[p].pc = "emit" /\ ~proc'[p].marker /\ proc'[p].text = proc[p].text
          /\ proc'[p].at = proc[p].at /\ proc'[p].entry.text = proc[p].text
          /\ proc'[p].entry.emitted = proc[p].at /\ proc'[p].entry.pointer = proc[p].own
          /\ proc[p].pc = "look"
      BY <1>0, <1>5 DEF Miss, Proc, KnowsOne
    <2>2. Grows /\ snaps' = snaps
      BY <1>5 DEF Miss, Grows, disk, history
    <2>3. Honest(memory', snaps', proc'[p])
      BY <1>0, <2>1, <2>2 DEF Honest
    <2> QED BY <1>5, <2>1, <2>2, <2>3, OneMoves DEF Miss, disk
  <1>6. ASSUME NEW p \in Procs, Emit(p) PROVE HonestInv'
    <2>1. Grows /\ snaps' = snaps
      BY <1>6 DEF Emit, Grows, disk
    <2>2. /\ \A q \in Procs \ {p} : proc'[q] = proc[q]
          /\ \/ proc'[p].pc = "idle"
             \/ /\ proc'[p].pc = "lock" /\ proc[p].save
                /\ proc'[p].key = proc[p].key /\ proc'[p].at = proc[p].at
                /\ proc'[p].entry = proc[p].entry
      BY <1>6, EmitMoves
    <2>3. proc[p].pc = "emit" /\ proc[p].marker \in BOOLEAN /\ proc[p].save \in BOOLEAN
      BY <1>0, <1>6 DEF Emit, Proc
    <2>4. CASE proc[p].marker
      <3>1. Honest(memory', snaps', proc'[p])
        BY <1>0, <2>1, <2>2, <2>3, <2>4 DEF Honest, Genuine, Grows
      <3> QED BY <1>6, <2>1, <2>2, <3>1, OneMoves DEF Emit, disk
    <2>5. CASE ~proc[p].marker
      <3>1. [key |-> proc[p].key, text |-> proc[p].text, at |-> proc[p].at] \in memory'
        BY <1>6, <2>5 DEF Emit
      <3>2. proc[p].save => Genuine(memory', snaps', proc[p].key, proc[p].entry)
        BY <1>0, <2>1, <2>3, <2>5, <3>1 DEF Honest, Genuine
      <3>3. Honest(memory', snaps', proc'[p])
        BY <2>2, <3>2 DEF Honest
      <3> QED BY <1>6, <2>1, <2>2, <3>3, OneMoves DEF Emit, disk
    <2> QED BY <2>3, <2>4, <2>5
  <1>7. ASSUME NEW p \in Procs, LockCreate(p) PROVE HonestInv'
    <2>1. /\ \A q \in Procs \ {p} : proc'[q] = proc[q]
          /\ proc[p].pc = "lock" /\ proc'[p].pc = "read"
          /\ proc'[p].key = proc[p].key /\ proc'[p].entry = proc[p].entry
      BY <1>0, <1>7 DEF LockCreate, Goto, Proc
    <2>2. Grows /\ memory' = memory /\ snaps' = snaps /\ store' = store
      BY <1>7 DEF LockCreate, Grows, disk, history
    <2>3. Honest(memory', snaps', proc'[p])
      BY <1>0, <2>1, <2>2 DEF Honest
    <2> QED BY <2>1, <2>2, <2>3, OneMoves
  <1>8. ASSUME NEW p \in Procs, LockExists(p) PROVE HonestInv'
    <2>1. /\ \A q \in Procs \ {p} : proc'[q] = proc[q]
          /\ proc[p].pc = "lock" /\ proc'[p].pc = "stat"
          /\ proc'[p].key = proc[p].key /\ proc'[p].entry = proc[p].entry
      BY <1>0, <1>8 DEF LockExists, Goto, Proc
    <2>2. Grows /\ memory' = memory /\ snaps' = snaps /\ store' = store
      BY <1>8 DEF LockExists, Grows, disk, history
    <2>3. Honest(memory', snaps', proc'[p])
      BY <1>0, <2>1, <2>2 DEF Honest
    <2> QED BY <2>1, <2>2, <2>3, OneMoves
  <1>9. ASSUME NEW p \in Procs, LockFails(p) PROVE HonestInv'
    <2>1. /\ \A q \in Procs \ {p} : proc'[q] = proc[q]
          /\ proc'[p].pc = "idle"
      BY <1>0, <1>9 DEF LockFails, Finish, Idle, Proc
    <2>2. Grows /\ memory' = memory /\ snaps' = snaps /\ store' = store
      BY <1>9 DEF LockFails, Grows, disk, history
    <2>3. Honest(memory', snaps', proc'[p])
      BY <1>0, <2>1, <2>2 DEF Honest
    <2> QED BY <2>1, <2>2, <2>3, OneMoves
  <1>10. ASSUME NEW p \in Procs, LockStat(p) PROVE HonestInv'
    <2>1. /\ \A q \in Procs \ {p} : proc'[q] = proc[q]
          /\ proc[p].pc \in {"stat", "steal"}
          /\ \/ proc'[p].pc = "idle"
             \/ /\ proc'[p].pc \in {"lock", "steal"}
                /\ proc'[p].key = proc[p].key /\ proc'[p].entry = proc[p].entry
      BY <1>0, <1>10, RetryCarries DEF LockStat, Goto, Proc
    <2>2. Grows /\ memory' = memory /\ snaps' = snaps /\ store' = store
      BY <1>10 DEF LockStat, Grows, disk, history
    <2>3. Honest(memory', snaps', proc'[p])
      BY <1>0, <2>1, <2>2 DEF Honest
    <2> QED BY <2>1, <2>2, <2>3, OneMoves
  <1>11. ASSUME NEW p \in Procs, LockSteal(p) PROVE HonestInv'
    <2>1. /\ \A q \in Procs \ {p} : proc'[q] = proc[q]
          /\ proc[p].pc \in {"stat", "steal"}
          /\ \/ proc'[p].pc = "idle"
             \/ /\ proc'[p].pc \in {"lock", "steal"}
                /\ proc'[p].key = proc[p].key /\ proc'[p].entry = proc[p].entry
      BY <1>0, <1>11, RetryCarries DEF LockSteal, Proc
    <2>2. Grows /\ memory' = memory /\ snaps' = snaps /\ store' = store
      BY <1>11 DEF LockSteal, Grows, disk, history
    <2>3. Honest(memory', snaps', proc'[p])
      BY <1>0, <2>1, <2>2 DEF Honest
    <2> QED BY <2>1, <2>2, <2>3, OneMoves
  <1>12. ASSUME NEW p \in Procs, StoreRead(p) PROVE HonestInv'
    <2>1. /\ \A q \in Procs \ {p} : proc'[q] = proc[q]
          /\ proc[p].pc = "read" /\ proc'[p].pc = "write" /\ proc'[p].base \in Readable
          /\ proc'[p].key = proc[p].key /\ proc'[p].entry = proc[p].entry
      BY <1>0, <1>12 DEF StoreRead, Proc
    <2>2. Grows /\ memory' = memory /\ snaps' = snaps /\ store' = store
      BY <1>12 DEF StoreRead, Grows, disk, history
    <2>3. \A k \in Keys : proc'[p].base[k] # NoEntry
             => Genuine(memory', snaps', k, proc'[p].base[k])
      BY <2>1, <2>2 DEF HonestInv, Readable, EmptyStore
    <2>4. Honest(memory', snaps', proc'[p])
      BY <1>0, <2>1, <2>2, <2>3 DEF Honest
    <2> QED BY <2>1, <2>2, <2>4, OneMoves
  <1>13. ASSUME NEW p \in Procs, StoreWrite(p) PROVE HonestInv'
    <2> DEFINE s == [proc[p].base EXCEPT ![proc[p].key] = proc[p].entry]
    <2>1. /\ \A q \in Procs \ {p} : proc'[q] = proc[q]
          /\ proc[p].pc = "write" /\ proc'[p].pc = "unlock"
          /\ memory' = memory /\ snaps' = snaps
      BY <1>0, <1>13 DEF StoreWrite, Done, Idle, Proc, history
    <2>2. \A q \in Procs : Honest(memory', snaps', proc'[q])
      BY <1>0, <2>1 DEF Honest
    <2>3. \A k \in Keys : s[k] # NoEntry => Genuine(memory, snaps, k, s[k])
      BY <1>0, <2>1 DEF Honest, Proc
    <2>4. store' \in Pruned(s, proc[p].at)
      BY <1>13 DEF StoreWrite
    <2> HIDE DEF s
    <2>5. \A k \in Keys : store'[k] # NoEntry => store'[k] = s[k]
      BY <2>4, PrunedEntries
    <2>6. \A k \in Keys : store'[k] # NoEntry => Genuine(memory', snaps', k, store'[k])
      BY <2>1, <2>3, <2>5
    <2> QED BY <2>2, <2>6 DEF HonestInv
  <1>14. ASSUME NEW p \in Procs, StoreWriteFails(p) PROVE HonestInv'
    <2>1. /\ \A q \in Procs \ {p} : proc'[q] = proc[q]
          /\ proc'[p].pc = "unlock"
      BY <1>0, <1>14 DEF StoreWriteFails, Done, Idle, Proc
    <2>2. Grows /\ memory' = memory /\ snaps' = snaps /\ store' = store
      BY <1>14 DEF StoreWriteFails, Grows, disk, history
    <2>3. Honest(memory', snaps', proc'[p])
      BY <1>0, <2>1, <2>2 DEF Honest
    <2> QED BY <2>1, <2>2, <2>3, OneMoves
  <1>15. ASSUME NEW p \in Procs, Unlock(p) PROVE HonestInv'
    <2>1. /\ \A q \in Procs \ {p} : proc'[q] = proc[q]
          /\ proc'[p].pc = "idle"
      BY <1>0, <1>15 DEF Unlock, Finish, Idle, Proc
    <2>2. Grows /\ memory' = memory /\ snaps' = snaps /\ store' = store
      BY <1>15 DEF Unlock, Grows, disk, history
    <2>3. Honest(memory', snaps', proc'[p])
      BY <1>0, <2>1, <2>2 DEF Honest
    <2> QED BY <2>1, <2>2, <2>3, OneMoves
  <1>16. ASSUME NEW p \in Procs, Crash(p) PROVE HonestInv'
    <2>1. /\ \A q \in Procs \ {p} : proc'[q] = proc[q]
          /\ proc'[p].pc = "idle"
      BY <1>0, <1>16 DEF Crash, Finish, Idle, Proc
    <2>2. Grows /\ memory' = memory /\ snaps' = snaps /\ store' = store
      BY <1>16 DEF Crash, Grows, disk, history
    <2>3. Honest(memory', snaps', proc'[p])
      BY <1>0, <2>1, <2>2 DEF Honest
    <2> QED BY <2>1, <2>2, <2>3, OneMoves
  <1>17. CASE Collect
    BY <1>17 DEF HonestInv, Collect, history
  <1>18. CASE Tick
    BY <1>18 DEF HonestInv, Tick, disk, history
  <1>19. CASE UNCHANGED vars
    BY <1>19 DEF HonestInv, vars
  <1> QED
    BY <1>1, <1>2, <1>3, <1>4, <1>5, <1>6, <1>7, <1>8, <1>9, <1>10, <1>11, <1>12, <1>13,
       <1>14, <1>15, <1>16, <1>17, <1>18, <1>19
    DEF Next, Step

\* Every step of every process is a delivery, a justified suppression, a snapshot, or
\* of no concern to the reader.
LEMMA StepKeepsPromise ==
    Typed /\ HonestInv /\ [Next]_vars => [Promise!Next]_(Promise!pvars)
  <1> SUFFICES ASSUME Typed, HonestInv, [Next]_vars
               PROVE  [Promise!Next]_(Promise!pvars)
    OBVIOUS
  <1>0. /\ TypeOK /\ \A p \in Procs : proc[p] \in Proc /\ KnowsOne(proc[p])
        /\ \A p \in Procs : Honest(memory, snaps, proc[p])
    BY DEF Typed, TypeOK, Knows, HonestInv
  <1>1. ASSUME UNCHANGED <<memory, answers>>, Grows PROVE Promise!Next
    BY <1>1 DEF Promise!Next, Promise!TakeSnapshot, Grows
  <1>2. ASSUME NEW p \in Procs, Emit(p) PROVE [Promise!Next]_(Promise!pvars)
    <2>1. proc[p].pc = "emit" /\ proc[p].marker \in BOOLEAN /\ snaps' = snaps
      BY <1>0, <1>2 DEF Emit, Proc, disk
    <2>2. CASE proc[p].marker
      <3> DEFINE a == [key |-> proc[p].key, text |-> proc[p].text, at |-> proc[p].at,
                       since |-> proc[p].entry.differed, pointer |-> proc[p].entry.pointer]
      <3>1. answers' = answers \cup {a} /\ memory' = memory
        BY <1>2, <2>2 DEF Emit
      <3>2. Honest(memory, snaps, proc[p])
        BY <1>0
      <3>3. Promise!Justified(a)
        BY <2>1, <2>2, <3>2 DEF Promise!Justified, Honest, Genuine, Fresh
      <3> HIDE DEF a
      <3>4. CASE a \in answers
        BY <2>1, <3>1, <3>4 DEF Promise!pvars
      <3>5. CASE a \notin answers
        BY <2>1, <3>1, <3>3, <3>5 DEF Promise!Next, Promise!Suppress
      <3> QED BY <3>4, <3>5
    <2>3. CASE ~proc[p].marker
      <3> DEFINE m == [key |-> proc[p].key, text |-> proc[p].text, at |-> proc[p].at]
      <3>1. memory' = memory \cup {m} /\ answers' = answers
        BY <1>2, <2>3 DEF Emit
      <3> HIDE DEF m
      <3>2. CASE m \in memory
        BY <2>1, <3>1, <3>2 DEF Promise!pvars
      <3>3. CASE m \notin memory
        BY <2>1, <3>1, <3>3 DEF Promise!Next, Promise!Deliver
      <3> QED BY <3>2, <3>3
    <2> QED BY <2>1, <2>2, <2>3
  <1>3. ASSUME NEW p \in Procs, NEW k \in Keys, NEW t \in Texts, NEW saved \in BOOLEAN,
               Run(p, k, t, saved)
        PROVE  UNCHANGED <<memory, answers>> /\ Grows
    BY <1>0, <1>3, SnapshotTaken DEF Run, Grows, history
  <1>4. ASSUME NEW p \in Procs, HitSnapshot(p) \/ HitDeclined(p)
        PROVE  UNCHANGED <<memory, answers>> /\ Grows
    <2>1. proc[p].text \in Texts
      BY <1>0, <1>4 DEF HitSnapshot, HitDeclined, KnowsOne
    <2> QED BY <1>0, <1>4, <2>1, SnapshotTaken DEF HitSnapshot, HitDeclined, Grows, history
  <1>5. ASSUME NEW p \in Procs,
               \/ HitLive(p) \/ Miss(p) \/ LockExists(p) \/ LockFails(p) \/ LockStat(p)
               \/ StoreRead(p) \/ StoreWriteFails(p) \/ Crash(p)
        PROVE  UNCHANGED <<memory, answers>> /\ Grows
    BY <1>5 DEF HitLive, Miss, LockExists, LockFails, LockStat, StoreRead, StoreWriteFails,
                Crash, Grows, disk, history
  <1>6. ASSUME NEW p \in Procs,
               LockCreate(p) \/ LockSteal(p) \/ StoreWrite(p) \/ Unlock(p)
        PROVE  UNCHANGED <<memory, answers>> /\ Grows
    BY <1>6 DEF LockCreate, LockSteal, StoreWrite, Unlock, Grows, history
  <1>7. ASSUME Collect \/ Tick \/ UNCHANGED vars
        PROVE  UNCHANGED <<memory, answers>> /\ Grows
    BY <1>7 DEF Collect, Tick, vars, Grows, disk, history
  <1> QED BY <1>1, <1>2, <1>3, <1>4, <1>5, <1>6, <1>7 DEF Next, Step

\* The processes implement the promise of ADR 0009, for any number of them and
\* whatever crashes, lost locks, stale locks and collected snapshots they meet.
THEOREM Refinement == Spec => PromiseKept
  <1>1. Init => Promise!Init
    BY DEF Init, Promise!Init
  <1>2. Spec => Promise!Spec
    BY <1>1, InitTyped, NextTyped, InitHonest, NextHonest, StepKeepsPromise, PTL
       DEF Spec, Promise!Spec
  <1> QED BY <1>2 DEF PromiseKept

-----------------------------------------------------------------------------
(* The limit of the store *)

LEMMA PrunedBounded ==
    ASSUME IsFiniteSet(Keys), NEW s, NEW at, NEW t \in Pruned(s, at)
    PROVE  Cardinality({k \in Keys : t[k] # NoEntry}) <= MaxEntries
  <1> DEFINE young == {k \in Keys : s[k] # NoEntry /\ at - s[k].emitted <= HardTtl}
             full  == {k \in Keys : t[k] # NoEntry}
  <1>1. PICK K \in SUBSET young :
          /\ Cardinality(K) = IF Cardinality(young) > MaxEntries THEN MaxEntries
                              ELSE Cardinality(young)
          /\ t = [k \in Keys |-> IF k \in K THEN s[k] ELSE NoEntry]
    BY DEF Pruned
  <1>2. IsFiniteSet(young) /\ IsFiniteSet(K)
    BY FS_Subset
  <1>3. full \subseteq K
    BY <1>1
  <1>4. Cardinality(full) \in Nat /\ Cardinality(full) <= Cardinality(K)
    BY <1>2, <1>3, FS_Subset, FS_CardinalityType
  <1>5. Cardinality(young) \in Nat /\ Cardinality(K) \in Nat
    BY <1>2, FS_CardinalityType
  <1> HIDE DEF young, full
  <1>6. Cardinality(K) <= MaxEntries
    BY <1>1, <1>5, BoundsAssumption
  <1>7. Cardinality(full) <= MaxEntries
    BY <1>4, <1>5, <1>6, BoundsAssumption
  <1> QED BY <1>7 DEF full

LEMMA InitBounded == Init => StoreBounded
  <1> SUFFICES ASSUME Init PROVE StoreBounded
    OBVIOUS
  <1>1. {k \in Keys : store[k] # NoEntry} = {}
    BY DEF Init, EmptyStore
  <1> QED BY <1>1, FS_EmptySet, BoundsAssumption DEF StoreBounded

LEMMA NextBounded ==
    ASSUME IsFiniteSet(Keys), StoreBounded, [Next]_vars
    PROVE  StoreBounded'
  <1>1. ASSUME NEW p \in Procs, StoreWrite(p)
        PROVE  StoreBounded'
    BY <1>1, PrunedBounded DEF StoreWrite, StoreBounded
  <1>2. ASSUME UNCHANGED store
        PROVE  StoreBounded'
    BY <1>2 DEF StoreBounded
  <1>3. CASE \E p \in Procs : StoreWrite(p)
    BY <1>1, <1>3
  <1>4. CASE ~\E p \in Procs : StoreWrite(p)
    BY <1>2, <1>4 DEF Next, Step, vars, disk, Run, HitLive, HitSnapshot, HitDeclined, Miss, Emit,
       LockCreate, LockExists, LockFails, LockStat, LockSteal, StoreRead, StoreWriteFails,
       Unlock, Crash, Collect, Tick
  <1> QED BY <1>3, <1>4

\* The store never holds more entries than MAX_ENTRIES, however many processes write it,
\* with whatever clocks, and whether or not the lock holds.
THEOREM StoreStaysBounded ==
    ASSUME IsFiniteSet(Keys)
    PROVE  Spec => []StoreBounded
  <1>1. StoreBounded /\ [Next]_vars => StoreBounded'
    BY NextBounded
  <1> QED BY <1>1, InitBounded, PTL DEF Spec
=============================================================================
