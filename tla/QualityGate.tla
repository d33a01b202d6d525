---------------------------- MODULE QualityGate ----------------------------
(***************************************************************************)
(* handlers/base.ts makeFilteredResult: the gate every handler's output    *)
(* passes before it is shipped.  The gate decides between the handler's    *)
(* compressed text and the captured raw text, and owns the promise of      *)
(* ADR 0001: evidence may be dropped only if the reader is handed a        *)
(* pointer to a snapshot that holds it.                                    *)
(*                                                                         *)
(* A text is abstracted to what the gate asks of it:                       *)
(*   raw  [len, exit]       characters without ANSI (0: blank), exit code  *)
(*   view [len, same, marker, omission, safeFull]                          *)
(*        same      equal to raw up to whitespace at the edges             *)
(*        marker    a line looks like a "+N more" omission marker          *)
(*        omission  what the handler declared: none, digest, replacement   *)
(*        safeFull  a masking handler supplied a lossless masked listing   *)
(***************************************************************************)
EXTENDS Naturals

CONSTANTS
    Structural,   \* handlers whose output is a reformat, exempt from the size check
    Masking,      \* handlers whose raw output holds values they mask
    Ladder        \* handlers that always declare what they omit

SaveModes == {"always", "auto", "never"}
OmissionKinds == {"digest", "replacement"}
Statuses == {"passed", "inflated", "empty_output"}

\* handlers/base.ts: growth tolerated before a compression counts as inflation.
InflationBudget(n) ==
    IF n <= 200 THEN 0
    ELSE IF (n * 5) \div 100 >= 80 THEN (n * 5) \div 100 ELSE 80

Inflates(h, raw, view) ==
    /\ h \notin Structural
    /\ ~view.same
    /\ raw.len > 0
    /\ view.len > raw.len + InflationBudget(raw.len)

\* The prose sniff: only the net for handlers that neither declare nor mask.
UndeclaredOmission(h, raw, view) ==
    /\ view.omission = "none"
    /\ h \notin Masking \cup Ladder
    /\ raw.len > 0 /\ view.len > 0
    /\ view.marker

InitialStatus(h, raw, view) ==
    IF view.len = 0 /\ raw.len > 0 THEN "empty_output"
    ELSE IF Inflates(h, raw, view) \/ UndeclaredOmission(h, raw, view) THEN "inflated"
    ELSE "passed"

Declared(h, raw, view) ==
    view.omission # "none" /\ InitialStatus(h, raw, view) = "passed"

\* core/rawStore.ts maybeSaveRawOutput: which captures get a snapshot.
ShouldSave(save, exit, len) ==
    save = "always" \/ (save = "auto" /\ (exit # 0 \/ len > 20000))

\* Whether a snapshot file exists afterwards.  A masking handler snapshots its
\* masked text, never the raw; a declared omission forces the save unless the
\* user opted out; a failed write (diskOk = FALSE) yields no pointer, no error.
SnapshotTaken(h, raw, view, save, diskOk) ==
    LET mode == IF Declared(h, raw, view) /\ save # "never" THEN "always" ELSE save
        len  == IF h \in Masking THEN view.len ELSE raw.len
    IN  diskOk /\ ShouldSave(mode, raw.exit, len)

\* The slip of trusting a snapshot that could not be written.
GateResultTrusting(h, raw, view, save, diskOk) ==
    LET initial == InitialStatus(h, raw, view)
    IN  [content  |-> IF initial = "passed" THEN "filtered" ELSE "raw",
         status   |-> initial,
         pointer  |-> SnapshotTaken(h, raw, view, save, diskOk),
         omission |-> IF Declared(h, raw, view) THEN view.omission ELSE "none"]

\* What makeFilteredResult ships: content "filtered", "raw" or "safeFull".
GateResult(h, raw, view, save, diskOk) ==
    LET saved    == SnapshotTaken(h, raw, view, save, diskOk)
        initial  == InitialStatus(h, raw, view)
        lost     == /\ Declared(h, raw, view)
                    /\ view.omission = "replacement"
                    /\ ~saved
        degraded == lost /\ h \in Masking /\ ~view.safeFull
        failOpen == lost /\ h \notin Masking
        status   == IF failOpen \/ degraded THEN "inflated" ELSE initial
        full     == lost /\ h \in Masking /\ view.safeFull
        content  == IF full THEN "safeFull"
                    ELSE IF status = "passed" \/ degraded THEN "filtered" ELSE "raw"
    IN  [content  |-> content,
         status   |-> status,
         pointer  |-> saved,
         omission |-> IF Declared(h, raw, view) /\ ~failOpen /\ ~full
                      THEN view.omission ELSE "none"]

=============================================================================
