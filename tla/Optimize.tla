------------------------------ MODULE Optimize ------------------------------
(***************************************************************************)
(* `ctx optimize` (context/applySafe.ts, patchPlan.ts, vscodeSettings.ts)  *)
(* writes to files of the user: it sets one key in each context file that  *)
(* an earlier `ctx inspect` found without it, and turns on one key of the  *)
(* VS Code settings.  Before a file is written a copy goes into a backup   *)
(* set, a directory named for the time of the command with a manifest;     *)
(* --backup makes such a set without writing, and --restore copies the     *)
(* latest set back.  Nothing is locked: the user, the editor and other     *)
(* commands work on the same files, and a command may be killed anywhere.  *)
(***************************************************************************)
EXTENDS Naturals, FiniteSets

CONSTANTS
    Files,    \* the context files and the settings
    Settings, \* settings.json, one of them
    Bodies,   \* what a file may say besides the key
    Malformed,\* those with a front matter that is never closed, or that do not parse
    Blank,    \* a file with nothing in it
    MaxEdits, \* bound on the edits of the user
    Procs,    \* commands that may run side by side
    MaxRuns,  \* bound on the number of commands; each has a time of its own
    None      \* no file, no finding, no copy

ASSUME BoundsAssumption == Blank \in Bodies \ Malformed /\ Settings \in Files /\ MaxRuns \in Nat

VARIABLES
    doc,      \* the user's files
    bucket,   \* the findings of the last inspection: each file as it was, or none
    saved,    \* the copies of each backup set
    listed,   \* the manifest of each backup set
    sidecar,  \* vscode-compress.json: the settings before they were changed
    proc,     \* the commands
    runs,     \* commands begun: the time of the latest
    edits,    \* edits of the user
    author,   \* the apply that wrote a file last, unless someone else did
    before,   \* what that apply found there
    raced,    \* the files that had changed between its plan and its write
    base      \* the files as the last apply that touched one found them

vars == <<doc, bucket, saved, listed, sidecar, proc, runs, edits, author, before,
          raced, base>>

\* The key: missing, as the user wants it, or as optimize sets it.
Content == [body : Bodies, key : {"absent", "own", "ours"}]
File == Content \cup {None}
ASSUME NoneAssumption == None \notin Content \cup {"apply", "backup", "restore"}
Times == 1 .. MaxRuns
Nothing == [f \in Files |-> None]

Idle == [pc |-> "idle", job |-> None, ts |-> 0, todo |-> {}, plan |-> Nothing,
         file |-> None, orig |-> None]
Proc == [pc : {"idle", "next", "copy", "list", "sidecar", "write"},
         job : {"apply", "backup", "restore", None}, ts : Nat, todo : SUBSET Files,
         plan : [Files -> File], file : Files \cup {None}, orig : File]

Init ==
    /\ doc \in [Files -> {c \in Content : c.key = "absent"}]
    /\ bucket = None /\ sidecar = None
    /\ saved = [t \in Times |-> Nothing] /\ listed = [t \in Times |-> {}]
    /\ proc = [p \in Procs |-> Idle] /\ runs = 0 /\ edits = 0
    /\ author = [f \in Files |-> 0] /\ before = Nothing /\ raced = {}
    /\ base = [ts |-> 0, doc |-> doc, calm |-> TRUE]

Backups == <<saved, listed, sidecar>>
Ghosts == <<author, before, raced>>
Goes(p, w) == proc' = [proc EXCEPT ![p] = w]
Disturbed == base' = [base EXCEPT !.calm = FALSE]
StaysCalm == base' = [base EXCEPT !.calm = @ /\ \A q \in Procs : proc[q] = Idle]

-----------------------------------------------------------------------------
(* The user and the inspection *)

UserWrites(f, c) ==
    /\ c # doc[f] /\ edits < MaxEdits /\ edits' = edits + 1
    /\ doc' = [doc EXCEPT ![f] = c]
    /\ author' = [author EXCEPT ![f] = 0] /\ raced' = raced \ {f}
    /\ Disturbed
    /\ UNCHANGED <<bucket, Backups, proc, runs, before>>

\* The rules find a context file without the key, and settings that do not have it on.
Missing(f, c) == c # None /\ IF f = Settings THEN c.key # "ours" /\ c.body \notin Malformed
                             ELSE c.key = "absent"
Findings == [f \in Files |-> IF Missing(f, doc[f]) THEN doc[f] ELSE None]

Inspect ==
    /\ bucket # Findings /\ bucket' = Findings
    /\ UNCHANGED <<doc, Backups, proc, runs, edits, Ghosts, base>>

-----------------------------------------------------------------------------
(* Apply *)

\* The slip of adding the key beside one that is there.
AddKey(c) == [c EXCEPT !.key = IF @ = "absent" THEN "ours" ELSE "twice"]
\* setFrontmatterKey: a front matter that is never closed is left as it is.
SetKey(c) == IF c.body \notin Malformed THEN [c EXCEPT !.key = "ours"] ELSE c

\* The slip of comparing the body alone, which the front matter is not part of.
UnchangedBody(found, live) == found # None /\ live # None /\ live.body = found.body
\* planForFinding: a finding counts only while the whole file is as it was inspected.
Unchanged(found, live) == found # None /\ live = found

Planned(f, found) == IF f = Settings THEN found[f] # None
                     ELSE Unchanged(found[f], doc[f]) /\ SetKey(doc[f]) # doc[f]

\* The plan of all files; without an inspection one is made first.
ApplyBegin(p) ==
    LET found == IF bucket = None THEN Findings ELSE bucket
        todo == {f \in Files : Planned(f, found)}
    IN
    /\ proc[p].pc = "idle" /\ runs < MaxRuns
    /\ runs' = runs + 1 /\ bucket' = found
    /\ Goes(p, [Idle EXCEPT !.pc = "next", !.job = "apply", !.ts = runs + 1, !.todo = todo,
                            !.plan = [f \in Files |-> IF f \in todo THEN doc[f] ELSE None]])
    /\ StaysCalm
    /\ UNCHANGED <<edits, doc, Backups, Ghosts>>

\* runBackup: the files named, or all that are found.
BackupBegin(p, files) ==
    /\ proc[p].pc = "idle" /\ runs < MaxRuns
    /\ runs' = runs + 1
    /\ Goes(p, [Idle EXCEPT !.pc = "next", !.job = "backup", !.ts = runs + 1, !.todo = files])
    /\ Disturbed
    /\ UNCHANGED <<edits, doc, bucket, Backups, Ghosts>>

\* applyCompress leaves settings alone that do not parse, or have the key already.
Skipped(p, f) ==
    IF proc[p].job = "backup" THEN doc[f] = None
    ELSE f = Settings /\ doc[f] # None /\ (doc[f].body \in Malformed \/ doc[f].key = "ours")

\* The settings come first and are read again; the others are written as planned.
TakeNext(p, f) ==
    LET w == proc[p]
        orig == IF w.job = "backup" \/ f = Settings THEN doc[f] ELSE w.plan[f]
    IN
    /\ w.pc = "next" /\ w.job # "restore" /\ f \in w.todo
    /\ w.job = "apply" /\ Settings \in w.todo => f = Settings
    /\ Goes(p, IF Skipped(p, f) THEN [w EXCEPT !.todo = @ \ {f}]
               ELSE [w EXCEPT !.todo = @ \ {f}, !.file = f, !.orig = orig,
                              !.pc = IF orig = None THEN "sidecar" ELSE "copy"])
    /\ UNCHANGED <<doc, bucket, Backups, runs, edits, Ghosts, base>>

\* The files as this apply finds them, when it is about to leave its first trace.
Touch(w) ==
    base' = IF w.job # "apply" \/ base.ts = w.ts THEN base
            ELSE IF base.ts > w.ts THEN [base EXCEPT !.calm = FALSE]
            ELSE [ts |-> w.ts, doc |-> doc,
                  calm |-> /\ \A q \in Procs : proc[q] = w \/ proc[q] = Idle
                           /\ \A f \in w.todo \cup {w.file} :
                                  doc[f] = IF f = w.file THEN w.orig ELSE w.plan[f]]

\* Where a copy leads: a backup is done with the file, the settings note what was there.
AfterList(w) == IF w.job = "backup" THEN [w EXCEPT !.pc = "next", !.file = None, !.orig = None]
                ELSE [w EXCEPT !.pc = IF w.file = Settings THEN "sidecar" ELSE "write"]

\* The slip of writing the file before its copy is on record.
CopyUnlisted(p) ==
    LET w == proc[p] IN
    /\ w.pc = "copy"
    /\ saved' = [saved EXCEPT ![w.ts] = [@ EXCEPT ![w.file] = w.orig]]
    /\ Goes(p, AfterList(w))
    /\ Touch(w)
    /\ UNCHANGED <<doc, bucket, listed, sidecar, runs, edits, Ghosts>>

\* writeBackup: the copy first, then the manifest.
Copy(p) ==
    LET w == proc[p] IN
    /\ w.pc = "copy"
    /\ saved' = [saved EXCEPT ![w.ts] = [@ EXCEPT ![w.file] = w.orig]]
    /\ Goes(p, [w EXCEPT !.pc = "list"])
    /\ Touch(w)
    /\ UNCHANGED <<doc, bucket, listed, sidecar, runs, edits, Ghosts>>

List(p) ==
    LET w == proc[p] IN
    /\ w.pc = "list"
    /\ listed' = [listed EXCEPT ![w.ts] = @ \cup {w.file}]
    /\ Goes(p, AfterList(w))
    /\ UNCHANGED <<doc, bucket, saved, sidecar, runs, edits, Ghosts, base>>

Sidecar(p) ==
    LET w == proc[p] IN
    /\ w.pc = "sidecar"
    /\ sidecar' = w.orig
    /\ Goes(p, [w EXCEPT !.pc = "write"])
    /\ Touch(w)
    /\ UNCHANGED <<doc, bucket, saved, listed, runs, edits, Ghosts>>

\* Settings that are gone by now are made anew.
Created == [body |-> Blank, key |-> "ours"]

Write(p) ==
    LET w == proc[p]
        f == w.file
    IN
    /\ w.pc = "write"
    /\ doc' = [doc EXCEPT ![f] = IF w.orig = None THEN Created ELSE SetKey(w.orig)]
    /\ author' = [author EXCEPT ![f] = w.ts]
    /\ before' = [before EXCEPT ![f] = doc[f]]
    /\ raced' = IF doc[f] = w.orig THEN raced \ {f} ELSE raced \cup {f}
    /\ Goes(p, [w EXCEPT !.pc = "next", !.file = None, !.orig = None])
    /\ UNCHANGED <<bucket, Backups, runs, edits, base>>

-----------------------------------------------------------------------------
(* Restore *)

\* The latest directory counts, with a manifest or without.
Sets == {t \in Times : saved[t] # Nothing}
Latest == CHOOSE t \in Sets : \A u \in Sets : u <= t

\* The slip of taking the first set instead of the last.
OldestEntries == IF Sets = {} THEN [ts |-> 0, files |-> {}]
                 ELSE LET t == CHOOSE t \in Sets : \A u \in Sets : t <= u
                      IN [ts |-> t, files |-> listed[t]]
Entries == IF Sets = {} THEN [ts |-> 0, files |-> {}]
           ELSE [ts |-> Latest, files |-> listed[Latest]]

RestoreBegin(p) ==
    /\ proc[p].pc = "idle"
    /\ Goes(p, [Idle EXCEPT !.pc = "next", !.job = "restore", !.ts = Entries.ts,
                            !.todo = Entries.files])
    /\ StaysCalm
    /\ UNCHANGED <<doc, bucket, Backups, runs, edits, Ghosts>>

RestoreOne(p, f) ==
    LET w == proc[p] IN
    /\ w.pc = "next" /\ w.job = "restore" /\ f \in w.todo
    /\ doc' = [doc EXCEPT ![f] = saved[w.ts][f]]
    /\ author' = [author EXCEPT ![f] = 0] /\ raced' = raced \ {f}
    /\ Goes(p, [w EXCEPT !.todo = @ \ {f}])
    /\ UNCHANGED <<bucket, Backups, runs, edits, before, base>>

Done(p) ==
    /\ proc[p].pc = "next" /\ proc[p].todo = {}
    /\ Goes(p, Idle)
    /\ UNCHANGED <<doc, bucket, Backups, runs, edits, Ghosts, base>>

Crash(p) ==
    /\ proc[p].pc # "idle"
    /\ Goes(p, Idle)
    /\ UNCHANGED <<doc, bucket, Backups, runs, edits, Ghosts, base>>

-----------------------------------------------------------------------------
Next ==
    \/ \E f \in Files, c \in Content : UserWrites(f, c)
    \/ UserWrites(Settings, None)
    \/ Inspect
    \/ \E p \in Procs :
        \/ ApplyBegin(p) \/ RestoreBegin(p)
        \/ \E files \in SUBSET Files \ {{}} : BackupBegin(p, files)
        \/ \E f \in Files : TakeNext(p, f) \/ RestoreOne(p, f)
        \/ Copy(p) \/ List(p) \/ Sidecar(p) \/ Write(p) \/ Done(p) \/ Crash(p)

Spec == Init /\ [][Next]_vars

-----------------------------------------------------------------------------
TypeOK ==
    /\ doc \in [Files -> File] /\ bucket \in [Files -> File] \cup {None}
    /\ saved \in [Times -> [Files -> File]] /\ listed \in [Times -> SUBSET Files]
    /\ sidecar \in File /\ proc \in [Procs -> Proc]
    /\ runs \in Nat /\ edits \in Nat
    /\ author \in [Files -> Nat] /\ before \in [Files -> File] /\ raced \subseteq Files
    /\ base \in [ts : Nat, doc : [Files -> File], calm : BOOLEAN]

\* "Every touched file is backed up" (context/applySafe.ts:5): at every moment, also in the
\* middle of an apply and after one that was killed, what an apply has overwritten is in
\* its backup set and in the manifest, unless it changed under the plan.
Reversible ==
    \A f \in Files : author[f] # 0 /\ f \notin raced /\ before[f] # None =>
        f \in listed[author[f]] /\ saved[author[f]][f] = before[f]

\* A key the user has set since the inspection is not replaced (patchPlan.ts:41), unless it
\* was set after the plan was made.
OwnKeyKept ==
    [][\A f \in Files \ {Settings} : doc[f] # None /\ doc'[f] # None =>
           (doc[f].key = "own" /\ doc'[f].key = "ours" /\ author'[f] # 0 => f \in raced')]_vars

\* A restore that ends, at the first try or after one that was killed, has given back
\* everything the last apply found, whether that had been killed or not, if nothing else
\* happened to the files since and no --backup ran beside it.
GivenBack ==
    \A p \in Procs : proc[p].job = "restore" /\ proc[p].todo = {} /\ base.calm
                     /\ Sets # {} /\ base.ts = Latest =>
        \A f \in Files : base.doc[f] # None => doc[f] = base.doc[f]
=============================================================================
