---------------------------- MODULE SessionDedup ----------------------------
(***************************************************************************)
(* ADR 0009 session dedup: the decision of core/sessionDedup.ts and the    *)
(* per-project store of core/dedupStore.ts, used by any number of ctx      *)
(* processes at once.  Each invocation is a fresh process; the store is a  *)
(* file replaced by an atomic rename, read without a lock and rewritten    *)
(* under an advisory lock file that a process may find stale and remove.   *)
(*                                                                         *)
(* Only runs that pass the eligibility gates (CommandProxy!DedupEligible)  *)
(* appear here; the others neither read nor write this state.  A text      *)
(* stands for a raw output without ANSI, equal texts for equal hashes.     *)
(***************************************************************************)
EXTENDS Integers, Sequences, FiniteSets

CONSTANTS
    Procs,       \* concurrent ctx invocations
    Keys,        \* normalised commands
    Texts,       \* raw outputs
    NoEntry,     \* no entry in the store
    NoText,      \* an idle process has run nothing
    NoLock,      \* no lock file
    Ttl,         \* freshness window of each command (TTL_MS of its class)
    HardTtl,     \* HARD_TTL_MS
    MaxEntries,  \* MAX_ENTRIES
    LockStale,   \* LOCK_STALE_MS
    LockRetries, \* LOCK_RETRIES
    MaxTime,     \* bound on the clock
    MaxRuns,     \* bound on the number of commands run
    MaxSnaps     \* bound on the number of snapshots taken

ASSUME KeysAssumption == Keys # {}
ASSUME NoLockAssumption == NoLock \notin [by : Procs, at : Nat]
ASSUME TtlAssumption == Ttl \in [Keys -> Nat]
ASSUME BoundsAssumption ==
    /\ HardTtl \in Nat /\ MaxEntries \in Nat /\ LockStale \in Nat
    /\ LockRetries \in Nat /\ MaxTime \in Nat /\ MaxRuns \in Nat /\ MaxSnaps \in Nat

VARIABLES
    now,     \* the clock
    store,   \* dedup.json: the entry of each command
    lock,    \* dedup.json.lock: who created it and when, or NoLock
    snaps,   \* the text of every snapshot ever taken, by number
    live,    \* snapshots still on disk
    proc,    \* the invocations
    started, \* commands run so far
    memory,  \* outputs delivered in full: [key, text, at]
    answers, \* markers delivered: [key, text, at, since, pointer]
    robbed   \* a lock has been removed while its holder was still using it

vars == <<now, store, lock, snaps, live, proc, started, memory, answers, robbed>>
disk == <<store, lock, snaps, live>>
history == <<memory, answers, robbed>>

NoPointer == 0

\* core/dedupStore.ts DedupEntry: rawHash, lastEmittedAt, lastDifferedAt, rawPointer.
Entry == [text : Texts, emitted : Int, differed : Int, pointer : Nat]

Phases == {"idle", "look", "emit", "lock", "stat", "steal", "read", "write", "unlock"}

\* One invocation: the command it ran, the moment applySessionDedup looked at the
\* clock, the filter's own snapshot, what it decided and the entry it will write,
\* the copy of the store it holds under the lock, and the lock attempts made.
Proc == [pc : Phases, key : Keys, text : Texts \cup {NoText}, at : Nat, own : Nat,
         marker : BOOLEAN, save : BOOLEAN, entry : Entry \cup {NoEntry},
         base : [Keys -> Entry \cup {NoEntry}], tries : 0 .. LockRetries]

EmptyStore == [k \in Keys |-> NoEntry]
SomeKey == CHOOSE k \in Keys : TRUE
Idle == [pc |-> "idle", key |-> SomeKey, text |-> NoText, at |-> 0, own |-> NoPointer,
         marker |-> FALSE, save |-> FALSE, entry |-> NoEntry, base |-> EmptyStore, tries |-> 0]

Init ==
    /\ now = 0 /\ store = EmptyStore /\ lock = NoLock
    /\ snaps = <<>> /\ live = {}
    /\ proc = [p \in Procs |-> Idle] /\ started = 0
    /\ memory = {} /\ answers = {} /\ robbed = FALSE

Goto(p, pc) == proc' = [proc EXCEPT ![p].pc = pc]
\* The process ends; its memory is gone.
Finish(p) == proc' = [proc EXCEPT ![p] = Idle]

\* The slip of naming a snapshot whose write failed.
TakeSnapshotUnwritten(t) ==
    /\ Len(snaps) < MaxSnaps
    /\ live' = live \cup {Len(snaps) + 1}
    /\ UNCHANGED snaps

\* A new file under a name no other snapshot has: timestamp, pid and a counter.
TakeSnapshot(t) ==
    /\ Len(snaps) < MaxSnaps
    /\ snaps' = Append(snaps, t)
    /\ live' = live \cup {Len(snaps) + 1}

-----------------------------------------------------------------------------
(* The decision, made before anything is printed *)

\* The command has run and its filter is done; the filter may have left a
\* snapshot of the raw output behind (core/rawStore.ts maybeSaveRawOutput).
Run(p, k, t, saved) ==
    /\ proc[p].pc = "idle" /\ started < MaxRuns
    /\ started' = started + 1
    /\ IF saved THEN TakeSnapshot(t) ELSE UNCHANGED <<snaps, live>>
    /\ proc' = [proc EXCEPT ![p] = [Idle EXCEPT !.pc = "look", !.key = k, !.text = t,
                   !.at = now, !.own = IF saved THEN Len(snaps) + 1 ELSE NoPointer]]
    /\ UNCHANGED <<now, store, lock, history>>

\* core/dedupStore.ts isFresh
Fresh(k, e, at) == at - e.emitted <= Ttl[k]

IsHit(p, e) == e # NoEntry /\ Fresh(proc[p].key, e, proc[p].at) /\ e.text = proc[p].text

\* A repeat whose snapshot is still on disk: answer with a marker, nothing to store.
HitLive(p) ==
    /\ proc[p].pc = "look"
    /\ LET e == store[proc[p].key] IN
         /\ IsHit(p, e) /\ e.pointer \in live
         /\ proc' = [proc EXCEPT ![p].pc = "emit", ![p].marker = TRUE, ![p].entry = e]
    /\ UNCHANGED <<now, disk, started, history>>

\* A repeat whose snapshot is missing: take one now and refresh the entry's pointer
\* after the marker is out.  The entry to write is the one read here.
HitSnapshot(p) ==
    /\ proc[p].pc = "look"
    /\ LET e == store[proc[p].key] IN
         /\ IsHit(p, e) /\ e.pointer \notin live
         /\ TakeSnapshot(proc[p].text)
         /\ proc' = [proc EXCEPT ![p].pc = "emit", ![p].marker = TRUE, ![p].save = TRUE,
                        ![p].entry = [e EXCEPT !.pointer = Len(snaps) + 1]]
    /\ UNCHANGED <<now, store, lock, started, history>>

\* No snapshot can be taken, or the marker would not be shorter (the snapshot taken
\* for it stays behind): full output, and the store is left alone.
HitDeclined(p) ==
    /\ proc[p].pc = "look"
    /\ IsHit(p, store[proc[p].key])
    /\ \/ UNCHANGED <<snaps, live>>
       \/ store[proc[p].key].pointer \notin live /\ TakeSnapshot(proc[p].text)
    /\ Goto(p, "emit")
    /\ UNCHANGED <<now, store, lock, started, history>>

\* readStore: a store that is missing, corrupt or cannot be read is an empty one.
Readable == {store, EmptyStore}

\* The slip of keeping the snapshot of the output that was replaced.
MissKeepsPointer(p) ==
    /\ proc[p].pc = "look"
    /\ \E seen \in Readable : LET e == seen[proc[p].key] IN
           /\ ~IsHit(p, e)
           /\ proc' = [proc EXCEPT ![p].pc = "emit", ![p].save = TRUE,
                 ![p].entry = [text |-> proc[p].text, emitted |-> proc[p].at,
                    differed |-> proc[p].at,
                    pointer |-> IF e = NoEntry THEN proc[p].own ELSE e.pointer]]
    /\ UNCHANGED <<now, disk, started, history>>

\* New, changed or expired: full output, then an entry for it.
Miss(p) ==
    /\ proc[p].pc = "look"
    /\ \E seen \in Readable :
       LET e == seen[proc[p].key]
           differed == e = NoEntry \/ e.text # proc[p].text
       IN  /\ ~IsHit(p, e)
           /\ proc' = [proc EXCEPT ![p].pc = "emit", ![p].save = TRUE,
                 ![p].entry = [text |-> proc[p].text, emitted |-> proc[p].at,
                    differed |-> IF differed THEN proc[p].at ELSE e.differed,
                    pointer |-> proc[p].own]]
    /\ UNCHANGED <<now, disk, started, history>>

\* core/emit.ts: the text or the marker reaches stdout before any of the writes below.
Emit(p) ==
    /\ proc[p].pc = "emit"
    /\ IF proc[p].marker
       THEN /\ answers' = answers \cup
                 {[key |-> proc[p].key, text |-> proc[p].text, at |-> proc[p].at,
                   since |-> proc[p].entry.differed, pointer |-> proc[p].entry.pointer]}
            /\ UNCHANGED memory
       ELSE /\ memory' = memory \cup
                 {[key |-> proc[p].key, text |-> proc[p].text, at |-> proc[p].at]}
            /\ UNCHANGED answers
    /\ IF proc[p].save
       THEN proc' = [proc EXCEPT ![p] = [Idle EXCEPT !.pc = "lock",
                        !.key = proc[p].key, !.at = proc[p].at, !.entry = proc[p].entry]]
       ELSE Finish(p)
    /\ UNCHANGED <<now, disk, started, robbed>>

-----------------------------------------------------------------------------
(* core/dedupStore.ts upsertEntry and acquireLock *)

Holding(p) == proc[p].pc \in {"read", "write", "unlock"}

\* The slip of waiting for the lock for as long as it takes.
RetryForever(p) == Goto(p, "lock")

\* Next lock attempt, or give the write up.
Retry(p) ==
    IF proc[p].tries < LockRetries
    THEN proc' = [proc EXCEPT ![p].pc = "lock", ![p].tries = @ + 1]
    ELSE Finish(p)

\* The slip of creating the lock file without O_EXCL.
LockCreateShared(p) ==
    /\ proc[p].pc = "lock"
    /\ lock' = [by |-> p, at |-> now]
    /\ Goto(p, "read")
    /\ UNCHANGED <<now, store, snaps, live, started, history>>

\* open(lockPath, "wx") succeeds.
LockCreate(p) ==
    /\ proc[p].pc = "lock" /\ lock = NoLock
    /\ lock' = [by |-> p, at |-> now]
    /\ Goto(p, "read")
    /\ UNCHANGED <<now, store, snaps, live, started, history>>

LockExists(p) ==
    /\ proc[p].pc = "lock" /\ lock # NoLock
    /\ Goto(p, "stat")
    /\ UNCHANGED <<now, disk, started, history>>

\* The directory or the lock cannot be created at all: the write is skipped.
LockFails(p) ==
    /\ proc[p].pc = "lock"
    /\ Finish(p)
    /\ UNCHANGED <<now, disk, started, history>>

Stale(l) == l # NoLock /\ now - l.at > LockStale

\* stat(lockPath): too old to be held by a living process?
LockStat(p) ==
    /\ proc[p].pc = "stat"
    /\ IF Stale(lock) THEN Goto(p, "steal") ELSE Retry(p)
    /\ UNCHANGED <<now, disk, started, history>>

\* unlink(lockPath): removes whatever lock is there by now.
LockSteal(p) ==
    /\ proc[p].pc = "steal"
    /\ lock' = NoLock
    /\ robbed' = (robbed \/ (lock # NoLock /\ Holding(lock.by)))
    /\ Retry(p)
    /\ UNCHANGED <<now, store, snaps, live, started, memory, answers>>

\* The slip of giving the lock back before the new store is in place.
StoreReadUnlocks(p) ==
    /\ proc[p].pc = "read"
    /\ \E seen \in Readable :
          proc' = [proc EXCEPT ![p].pc = "write", ![p].base = seen]
    /\ lock' = NoLock
    /\ UNCHANGED <<now, store, snaps, live, started, history>>

\* readStore under the lock.
StoreRead(p) ==
    /\ proc[p].pc = "read"
    /\ \E seen \in Readable :
          proc' = [proc EXCEPT ![p].pc = "write", ![p].base = seen]
    /\ UNCHANGED <<now, disk, started, history>>

\* The slip of pruning before the new entry is merged in: one too many survives.
PrunedLate(s, at) ==
    {[k \in Keys |-> IF k \in K THEN s[k] ELSE NoEntry] :
        K \in {J \in SUBSET Keys : Cardinality(J) <= MaxEntries + 1}}

\* prune: drop what is older than the hard TTL, then the oldest beyond MaxEntries.
\* (Entries of equal age are kept in insertion order, which is left open here.)
Pruned(s, at) ==
    LET young == {k \in Keys : s[k] # NoEntry /\ at - s[k].emitted <= HardTtl}
        kept  == {K \in SUBSET young :
                    /\ Cardinality(K) = IF Cardinality(young) > MaxEntries
                                        THEN MaxEntries ELSE Cardinality(young)
                    /\ \A k \in K, j \in young \ K : s[j].emitted <= s[k].emitted}
    IN  {[k \in Keys |-> IF k \in K THEN s[k] ELSE NoEntry] : K \in kept}

\* Only the lock is left to give back.
Done(p) == proc' = [proc EXCEPT ![p] = [Idle EXCEPT !.pc = "unlock"]]

\* Write the new store to a private temporary file and rename it into place.
StoreWrite(p) ==
    /\ proc[p].pc = "write"
    /\ store' \in Pruned([proc[p].base EXCEPT ![proc[p].key] = proc[p].entry], proc[p].at)
    /\ Done(p)
    /\ UNCHANGED <<now, lock, snaps, live, started, history>>

\* The temporary file or the rename fails: the store is left as it is.
StoreWriteFails(p) ==
    /\ proc[p].pc = "write"
    /\ Done(p)
    /\ UNCHANGED <<now, disk, started, history>>

\* release(): unlink(lockPath), without asking whose lock it is.
Unlock(p) ==
    /\ proc[p].pc = "unlock"
    /\ lock' = NoLock
    /\ Finish(p)
    /\ UNCHANGED <<now, store, snaps, live, started, history>>

-----------------------------------------------------------------------------
(* The environment *)

\* The process dies between two steps; what it wrote stays.
Crash(p) ==
    /\ proc[p].pc # "idle"
    /\ Finish(p)
    /\ UNCHANGED <<now, disk, started, history>>

\* core/gc.ts gcRawStore (`ctx gain`): snapshots go, oldest first.
Collect ==
    /\ live # {}
    /\ live' = live \ {CHOOSE i \in live : \A j \in live : i <= j}
    /\ UNCHANGED <<now, store, lock, snaps, proc, started, history>>

Tick ==
    /\ now < MaxTime
    /\ now' = now + 1
    /\ UNCHANGED <<disk, proc, started, history>>

-----------------------------------------------------------------------------
Step(p) ==
    \/ HitLive(p) \/ HitSnapshot(p) \/ HitDeclined(p) \/ Miss(p) \/ Emit(p)
    \/ LockCreate(p) \/ LockExists(p) \/ LockFails(p) \/ LockStat(p) \/ LockSteal(p)
    \/ StoreRead(p) \/ StoreWrite(p) \/ StoreWriteFails(p) \/ Unlock(p)

Next ==
    \/ \E p \in Procs :
          \/ \E k \in Keys, t \in Texts, saved \in BOOLEAN : Run(p, k, t, saved)
          \/ Step(p)
          \/ Crash(p)
    \/ Collect
    \/ Tick

\* A process that is running keeps running; nobody is obliged to start one.
Spec == Init /\ [][Next]_vars /\ \A p \in Procs : WF_vars(Step(p))

-----------------------------------------------------------------------------
TypeOK ==
    /\ now \in Nat /\ started \in Nat
    /\ store \in [Keys -> Entry \cup {NoEntry}]
    /\ lock \in [by : Procs, at : Nat] \cup {NoLock}
    /\ snaps \in Seq(Texts) /\ live \subseteq DOMAIN snaps
    /\ proc \in [Procs -> Proc]
    /\ memory \subseteq [key : Keys, text : Texts, at : Nat]
    /\ answers \subseteq [key : Keys, text : Texts, at : Nat, since : Int, pointer : Nat]
    /\ robbed \in BOOLEAN

\* Whatever the interleaving, the crashes and the stolen locks, the processes
\* together keep the promise of ADR 0009: a marker stands only for a text delivered
\* in full, for that command, inside the window, and points at a snapshot of it.
Promise == INSTANCE DedupPromise
           WITH Keys <- Keys, Texts <- Texts, Ttl <- Ttl,
                memory <- memory, answers <- answers, snaps <- snaps
PromiseKept == Promise!Spec

\* The lock file excludes writers from one another until one of them is robbed of it:
\* without that, no two processes are inside the read-modify-write.
ExclusiveUntilRobbed ==
    ~robbed => \A p, q \in Procs : Holding(p) /\ Holding(q) => p = q

\* And then no entry another invocation stored is lost to a merge with an older copy:
\* what a writer read is still what is on disk when its rename lands (unless it could
\* not be read at all, which empties the store).
NoLostUpdate ==
    ~robbed => \A p \in Procs : proc[p].pc = "write" => proc[p].base \in Readable

\* An invocation is never held up by the store: it ends, by itself or by a crash.
InvocationEnds == \A p \in Procs : proc[p].pc # "idle" ~> proc[p].pc = "idle"

\* prune runs on every write: the store never outgrows its limit, whatever was merged
\* into it and however the writers raced.
StoreBounded == Cardinality({k \in Keys : store[k] # NoEntry}) <= MaxEntries

\* The claim of the header of core/dedupStore.ts: a lost update never causes a wrong
\* "unchanged since <time>": no different output of the same command was delivered in
\* full after that time and up to the run the marker answers.
NeverWrongUnchanged ==
    \A a \in answers, m \in memory :
        m.key = a.key /\ a.since < m.at /\ m.at < a.at => m.text = a.text
=============================================================================
