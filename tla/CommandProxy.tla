---------------------------- MODULE CommandProxy ----------------------------
(***************************************************************************)
(* One `ctx <command>` invocation, from the routing decision of cli.ts     *)
(* main() to the exit code: which way the command is run, the child        *)
(* processes of the executor, the filter pipeline and its quality gate,    *)
(* the session-dedup decision, the emit-then-commit seam, and every place  *)
(* where the program fails open.                                           *)
(*                                                                         *)
(* The invocation is fixed by Init; everything the program reads once      *)
(* (environment, terminal, disk, the tool's behaviour) is chosen by the    *)
(* action that reads it.                                                   *)
(***************************************************************************)
EXTENDS QualityGate, Sequences

CONSTANTS
    Handlers,     \* the specific handlers of the router
    NoHandler,    \* the router found no specific match
    AuxSpawn,     \* handlers that run a second child after a clean first one
    Respawn,      \* handlers that rerun the tool when it rejects their flags
    Internal,     \* handlers that may answer from the file system, no child
    Cacheable,    \* handlers that opt in to session dedup
    Codes,        \* exit codes a tool may return
    Signals,      \* numbers of the signals that may end a tool
    NoExit,       \* no exit code yet; no code or no signal in a 'close' event
    RawLens,      \* sizes of captured text to consider (0: blank)
    ViewLens      \* sizes of compressed text to consider (0: blank)

ASSUME HandlersAssumption ==
    /\ NoHandler \notin Handlers
    /\ AuxSpawn \subseteq Handlers /\ Respawn \subseteq Handlers
    /\ Internal \subseteq Handlers /\ Cacheable \subseteq Handlers
    /\ AuxSpawn \cap Respawn = {}
ASSUME CodesAssumption == Codes \subseteq Nat /\ Signals \subseteq Nat /\ NoExit \notin Nat
ASSUME LensAssumption == RawLens \subseteq Nat /\ ViewLens \subseteq Nat

VARIABLES
    inv,      \* the invocation: flags and the handler it routes to
    pc,       \* where the program is
    route,    \* how the command is being run
    child,    \* the child process the program waits for
    runs,     \* how often the user's command has been started
    toolExit, \* exit code of the last attempt at the user's command
    raw,      \* the captured RawResult, NoRaw before execute() resolves
    result,   \* the FilteredResult to be shown, and the dedup decision
    shown,    \* what has been written for the reader, in order
    ledger,   \* the accounting written so far
    exit      \* the exit code of ctx

vars == <<inv, pc, route, child, runs, toolExit, raw, result, shown, ledger, exit>>

MinDedupBytes == 256   \* core/sessionDedup.ts MIN_DEDUP_BYTES

Invocation == [raw : BOOLEAN, stats : BOOLEAN, save : SaveModes,
               handler : Handlers \cup {NoHandler}]
Routes == {"none", "stream", "capture", "passthrough", "compress", "failOpen"}
Body == {"tool", "raw", "filtered", "safeFull", "marker"}
Notes == {"refusal", "hint", "stats", "error"}
Ledgers == {"rawLite", "history", "dedupEvent", "dedupEntry", "telemetry"}
NoRaw == [len |-> 0, exit |-> NoExit]
NoResult == [content |-> "raw", pointer |-> FALSE, omission |-> "none",
             status |-> "passed", len |-> 0, dedup |-> "none"]

\* How a child may end: a code, a signal (0: one the host has no number for), neither.
ChildEnd == [code : Codes, signal : {NoExit}] \cup
            [code : {NoExit}, signal : Signals \cup {0, NoExit}]

\* The slip of passing the signal number on as it is.
ResolveExitCodeBare(end) == IF end.code # NoExit THEN end.code ELSE end.signal

\* executor.ts resolveExitCode: the shell's convention for a child ended by a signal.
ResolveExitCode(end) ==
    IF end.code # NoExit THEN end.code
    ELSE IF end.signal # NoExit THEN 128 + end.signal ELSE 1

\* Every exit code there is: the tool's, ctx's own (0, 1), 127, and 128 + signal.
ExitCodes == Codes \cup {0, 1, 127} \cup {128 + s : s \in Signals \cup {0}}

Init ==
    /\ inv \in Invocation
    /\ pc = "dispatch" /\ route = "none"
    /\ child = "none" /\ runs = 0 /\ toolExit = NoExit
    /\ raw = NoRaw /\ result = NoResult
    /\ shown = <<>> /\ ledger = {} /\ exit = NoExit

-----------------------------------------------------------------------------
(* Routing *)

\* shim/gate.ts gateDecision
WillCompress(interactive, tty, compressTty) ==
    /\ inv.handler # NoHandler
    /\ ~interactive
    /\ tty => compressTty

\* cli.ts main(): --raw streams unless the bytes are needed for --stats or --save-raw.
DispatchRaw ==
    /\ pc = "dispatch" /\ inv.raw
    /\ route' = IF inv.stats \/ inv.save = "always" THEN "capture" ELSE "stream"
    /\ pc' = "spawn"
    /\ UNCHANGED <<inv, child, runs, toolExit, raw, result, shown, ledger, exit>>

\* cli.ts main(): an unknown word typed at a plain `ctx` is never started (U2).
Refuse ==
    /\ pc = "dispatch" /\ ~inv.raw
    /\ inv.handler = NoHandler
    /\ pc' = "exit" /\ exit' = 1
    /\ shown' = Append(shown, "refusal")
    /\ UNCHANGED <<inv, route, child, runs, toolExit, raw, result, ledger>>

\* cli.ts main(): the gate.  With no handler the command gets here only through a
\* shim or because the program is one ctx fronts; both need no further choice.
Gate ==
    /\ pc = "dispatch" /\ ~inv.raw
    /\ \E interactive, tty, compressTty \in BOOLEAN :
          route' = IF WillCompress(interactive, tty, compressTty)
                   THEN "compress" ELSE "passthrough"
    /\ pc' = "spawn"
    /\ UNCHANGED <<inv, child, runs, toolExit, raw, result, shown, ledger, exit>>

-----------------------------------------------------------------------------
(* Running the tool: executor.ts executeCommand and executePassthrough *)

Captures == route \in {"capture", "compress"}

\* Only a streamed --raw run is accounted for; ordinary passthrough records nothing.
AfterStream == IF route = "stream" THEN "account" ELSE "exit"

\* Where control goes when starting a child throws before anything ran: the
\* recursion guard, the %-neutralisation, spawn() itself.
ThrowTo ==
    IF route = "compress" THEN pc' = "failOpen" /\ UNCHANGED <<shown, exit>>
    ELSE pc' = "exit" /\ exit' = 1 /\ shown' = Append(shown, "error")

\* buildChildEnv / buildSpawnTarget / spawn() throw: no child exists.
SpawnThrows ==
    /\ pc \in {"spawn", "spawnAux", "respawn"}
    /\ ThrowTo
    /\ UNCHANGED <<inv, route, child, runs, toolExit, raw, result, ledger>>

\* A handler that answers from the file system without a child (deps, read, log, dir,
\* diff): exit 0, or 1 where a file could not be read or two files differ.
AnswerInternally(len, code) ==
    /\ pc = "spawn" /\ Captures /\ inv.handler \in Internal
    /\ raw' = [len |-> len, exit |-> code] /\ toolExit' = code
    /\ pc' = "captured"
    /\ UNCHANGED <<inv, route, child, runs, result, shown, ledger, exit>>

Start ==
    /\ pc \in {"spawn", "respawn"} /\ child # "running"
    /\ child' = "running" /\ runs' = runs + 1 /\ toolExit' = NoExit
    /\ pc' = IF pc = "spawn" THEN "wait" ELSE "waitAgain"
    /\ shown' = IF Captures THEN shown ELSE Append(shown, "tool")
    /\ UNCHANGED <<inv, route, raw, result, ledger, exit>>

\* The slip of not listening for the 'error' event.
StartFailsUnheard(code) ==
    /\ pc \in {"spawn", "respawn"} /\ child # "running"
    /\ child' = "failed" /\ pc' = "wait"
    /\ UNCHANGED <<inv, route, runs, toolExit, raw, result, shown, ledger, exit>>

\* The 'error' event: the child could not be started (ENOENT 127, otherwise 1).
\* A captured run becomes a RawResult whose stderr says so; a streamed one prints it.
StartFails(code) ==
    /\ pc \in {"spawn", "respawn"} /\ child # "running"
    /\ child' = "failed" /\ toolExit' = code
    /\ IF Captures
       THEN /\ raw' = [len |-> 1, exit |-> code] /\ pc' = "captured"
            /\ UNCHANGED <<shown, exit>>
       ELSE /\ shown' = Append(shown, "error") /\ exit' = code
            /\ pc' = AfterStream /\ UNCHANGED raw
    /\ UNCHANGED <<inv, route, runs, result, ledger>>

\* The tool ends: code and signal of the 'close' event.
ToolEnds(end) ==
    /\ pc \in {"wait", "waitAgain"} /\ child = "running"
    /\ child' = "ended" /\ toolExit' = ResolveExitCode(end)
    /\ UNCHANGED <<inv, pc, route, runs, raw, result, shown, ledger, exit>>

\* executePassthrough resolves with the exit code.
StreamDone ==
    /\ pc = "wait" /\ child = "ended" /\ ~Captures
    /\ exit' = toolExit /\ pc' = AfterStream
    /\ UNCHANGED <<inv, route, child, runs, toolExit, raw, result, shown, ledger>>

\* executeCommand resolves; the handler's execute() may go on to a second child:
\* git-add and git-status look at the repository after a clean first run, tree is
\* rerun with the user's own flags when the rewritten ones were rejected.
CaptureDone(len) ==
    /\ pc \in {"wait", "waitAgain"} /\ child = "ended" /\ Captures
    /\ raw' = [len |-> len, exit |-> toolExit]
    /\ \/ pc' = "captured"
       \/ pc' = "spawnAux" /\ inv.handler \in AuxSpawn /\ toolExit = 0
       \/ pc' = "respawn" /\ inv.handler \in Respawn /\ toolExit # 0 /\ pc = "wait"
    /\ UNCHANGED <<inv, route, child, runs, toolExit, result, shown, ledger, exit>>

\* The second child of git-add / git-status only adds auxStdout: whether it fails
\* to start or ends with any code, the first child's result stands.
AuxRuns ==
    /\ pc = "spawnAux"
    /\ child' = "running" /\ pc' = "waitAux"
    /\ UNCHANGED <<inv, route, runs, toolExit, raw, result, shown, ledger, exit>>

AuxEnds ==
    /\ pc = "waitAux" /\ child = "running"
    /\ child' = "ended" /\ pc' = "captured"
    /\ UNCHANGED <<inv, route, runs, toolExit, raw, result, shown, ledger, exit>>

\* cli.ts failOpenPassthrough: hand the command to the real tool, uncompressed.
FailOpen ==
    /\ pc = "failOpen"
    /\ route' = "failOpen" /\ pc' = "spawn" /\ raw' = NoRaw
    /\ UNCHANGED <<inv, child, runs, toolExit, result, shown, ledger, exit>>

-----------------------------------------------------------------------------
(* The capture path of --raw *)

\* Bytes first, then best-effort accounting whose failure is swallowed.
PrintCaptured ==
    /\ pc = "captured" /\ route = "capture"
    /\ shown' = Append(shown, "raw")
    /\ exit' = raw.exit /\ pc' = "account"
    /\ UNCHANGED <<inv, route, child, runs, toolExit, raw, result, ledger>>

\* recordRawLitePassthrough (streamed --raw) or recordRawPassthrough (captured
\* --raw, then the --stats line).  History may be switched off, the row may be
\* lost, and a failure after the row still costs the --stats line.
Account ==
    /\ pc = "account"
    /\ ledger' \in {ledger, ledger \cup {IF route = "stream" THEN "rawLite" ELSE "history"}}
    /\ \/ UNCHANGED shown
       \/ shown' = Append(shown, "stats") /\ route = "capture" /\ inv.stats
    /\ pc' = "exit"
    /\ UNCHANGED <<inv, route, child, runs, toolExit, raw, result, exit>>

-----------------------------------------------------------------------------
(* The compression pipeline: runPipeline, the gate, session dedup *)

Views == [len : ViewLens, same : BOOLEAN, marker : BOOLEAN,
          omission : OmissionKinds \cup {"none"}, safeFull : BOOLEAN]

WithDedup(r, len, dedup) == [content |-> r.content, pointer |-> r.pointer,
    omission |-> r.omission, status |-> r.status, len |-> len, dedup |-> dedup]

\* handler.filter() through the quality gate.
Filter(view, diskOk) ==
    /\ pc = "captured" /\ route = "compress"
    /\ LET r == GateResult(inv.handler, raw, view, inv.save, diskOk)
       IN  result' = WithDedup(r, IF r.content = "raw" THEN raw.len ELSE view.len, "none")
    /\ pc' = "dedup"
    /\ UNCHANGED <<inv, route, child, runs, toolExit, raw, shown, ledger, exit>>

\* core/fallback.ts: the filter threw; the generic handler ships the text as it is.
FilterFallback(diskOk) ==
    /\ pc = "captured" /\ route = "compress"
    /\ LET saved == diskOk /\ ShouldSave(inv.save, raw.exit, raw.len)
       IN  result' = [content |-> "raw", pointer |-> saved, omission |-> "none",
                      status |-> "passed", len |-> raw.len, dedup |-> "none"]
    /\ pc' = "dedup"
    /\ UNCHANGED <<inv, route, child, runs, toolExit, raw, shown, ledger, exit>>

\* The slip of letting a failure after the run reach the fail-open.
PipelineThrowsOut ==
    /\ pc = "captured" /\ route = "compress"
    /\ pc' = "failOpen"
    /\ UNCHANGED <<inv, route, child, runs, toolExit, raw, result, shown, ledger, exit>>

\* The slip of reporting ctx's own failure as the command's.
PipelineThrowsExitOne ==
    /\ pc = "captured" /\ route = "compress"
    /\ shown' = Append(shown, "raw") /\ exit' = 1
    /\ pc' = "flush"
    /\ UNCHANGED <<inv, route, child, runs, toolExit, raw, result, ledger>>

\* The fallback filter threw as well: cli.ts runCompress absorbs it, prints what
\* was captured and keeps the exit code; the command is not run again.
PipelineThrows ==
    /\ pc = "captured" /\ route = "compress"
    /\ shown' = Append(shown, "raw") /\ exit' = raw.exit
    /\ pc' = "flush"
    /\ UNCHANGED <<inv, route, child, runs, toolExit, raw, result, ledger>>

\* core/sessionDedup.ts: the gates that precede the look into the store.
DedupEligible ==
    /\ inv.save # "never"
    /\ raw.exit = 0
    /\ inv.handler \in Cacheable \ Masking
    /\ result.len >= MinDedupBytes

\* Dedup off, not eligible, not provably read-only, or the decision threw.
DedupPass ==
    /\ pc = "dedup"
    /\ pc' = "emit"
    /\ UNCHANGED <<inv, route, child, runs, toolExit, raw, result, shown, ledger, exit>>

\* A repeat: the marker replaces the text, if a snapshot can be pointed at.
DedupHit ==
    /\ pc = "dedup" /\ DedupEligible
    /\ result' = [content |-> "marker", pointer |-> TRUE, omission |-> "none",
                  status |-> "passed", len |-> 1, dedup |-> "hit"]
    /\ pc' = "emit"
    /\ UNCHANGED <<inv, route, child, runs, toolExit, raw, shown, ledger, exit>>

DedupMiss ==
    /\ pc = "dedup" /\ DedupEligible
    /\ result' = [result EXCEPT !.dedup = "miss"]
    /\ pc' = "emit"
    /\ UNCHANGED <<inv, route, child, runs, toolExit, raw, shown, ledger, exit>>

-----------------------------------------------------------------------------
(* core/emit.ts emitThenCommit *)

\* Every write to stdout: the text, the failure hint, the --stats summary.
Notices(hint) == (IF raw.exit # 0 /\ hint THEN <<"hint">> ELSE <<>>) \o
                 (IF inv.stats THEN <<"stats">> ELSE <<>>)
Emit ==
    /\ pc = "emit"
    /\ \E hint \in BOOLEAN :
          shown' = shown \o <<result.content>> \o Notices(hint)
    /\ pc' = "commit"
    /\ UNCHANGED <<inv, route, child, runs, toolExit, raw, result, ledger, exit>>

\* The slip of booking a suppressed repeat as a filtered run too.
CommitRowsSummed == IF result.dedup = "hit" THEN {"dedupEvent", "dedupEntry", "history"}
                    ELSE {"dedupEntry", "history"}

\* The deferred accounting; each write may fail and is then dropped.  A dedup hit
\* is booked in its own ledger only, never as a history row.
CommitRows == CASE result.dedup = "hit"  -> {"dedupEvent", "dedupEntry"}
                [] result.dedup = "miss" -> {"dedupEntry", "history"}
                [] OTHER                 -> {"history"}

\* The slip of a commit that throws into the catch which prints the captured text.
CommitThrows ==
    /\ pc = "commit"
    /\ shown' = Append(shown, "raw")
    /\ exit' = raw.exit /\ pc' = "flush"
    /\ UNCHANGED <<inv, route, child, runs, toolExit, raw, result, ledger>>

Commit ==
    /\ pc = "commit"
    /\ \E rows \in SUBSET CommitRows : ledger' = ledger \cup rows
    /\ exit' = raw.exit /\ pc' = "flush"
    /\ UNCHANGED <<inv, route, child, runs, toolExit, raw, result, shown>>

\* cli.ts main(): opportunistic telemetry, only in builds that bake an endpoint.
Flush ==
    /\ pc = "flush"
    /\ ledger' \in {ledger, ledger \cup {"telemetry"}}
    /\ pc' = "exit"
    /\ UNCHANGED <<inv, route, child, runs, toolExit, raw, result, shown, exit>>

\* process.exitCode is set and the process ends.
Exited == pc = "exit" /\ UNCHANGED vars

-----------------------------------------------------------------------------
Tool ==
    \/ \E end \in ChildEnd : ToolEnds(end)
    \/ AuxEnds

Ctx ==
    \/ DispatchRaw \/ Refuse \/ Gate
    \/ SpawnThrows \/ Start \/ AuxRuns \/ StreamDone \/ FailOpen
    \/ \E code \in {127, 1} : StartFails(code)
    \/ \E len \in RawLens :
          CaptureDone(len) \/ \E code \in {0, 1} : AnswerInternally(len, code)
    \/ PrintCaptured \/ Account
    \/ \E diskOk \in BOOLEAN : FilterFallback(diskOk) \/ \E view \in Views : Filter(view, diskOk)
    \/ PipelineThrows
    \/ DedupPass \/ DedupHit \/ DedupMiss
    \/ Emit \/ Commit \/ Flush

Next == Ctx \/ Tool \/ Exited

\* ctx keeps taking its own steps; nothing is assumed of the tool it runs.
Spec == Init /\ [][Next]_vars /\ WF_vars(Ctx)

-----------------------------------------------------------------------------
TypeOK ==
    /\ inv \in Invocation
    /\ pc \in {"dispatch", "spawn", "wait", "waitAgain", "spawnAux", "waitAux", "respawn",
              "captured", "account", "dedup", "emit", "commit", "flush", "failOpen", "exit"}
    /\ route \in Routes
    /\ child \in {"none", "running", "ended", "failed"}
    /\ runs \in Nat
    /\ toolExit \in ExitCodes \cup {NoExit} /\ exit \in ExitCodes \cup {NoExit}
    /\ raw \in [len : Nat, exit : ExitCodes \cup {NoExit}]
    /\ result \in [content : Body, pointer : BOOLEAN,
                   omission : OmissionKinds \cup {"none"}, status : Statuses,
                   len : Nat, dedup : {"none", "hit", "miss"}]
    /\ shown \in Seq(Body \cup Notes)
    /\ ledger \subseteq Ledgers

BodyAt(i) == i \in DOMAIN shown /\ shown[i] \in Body

\* The reader gets the command's output at most once, whatever fails after it was
\* written (cli.ts runCompress absorbs, core/pipeline.ts commit never throws), and a
\* program that has ended has said something.
AnsweredOnce ==
    /\ \A i, j \in DOMAIN shown : BodyAt(i) /\ BodyAt(j) => i = j
    /\ pc = "exit" => shown # <<>>

\* Exit identity: when output was shown, ctx exits with the code of the run that
\* produced it, across compression, dedup, fallback and fail-open.
ExitIdentity ==
    pc = "exit" => /\ exit # NoExit
                   /\ (\E i \in DOMAIN shown : BodyAt(i)) => exit = toolExit

\* C6: the handlers that drive a single child never run the user's command twice;
\* every failure after the capture is absorbed instead of being failed open.
SingleChildRunsOnce ==
    inv.handler \notin AuxSpawn \cup Respawn => runs <= 1

\* Accounting never precedes the answer, and the saving of a suppressed repeat is
\* never also booked as a history row (ADR 0009: the two ledgers are not summed).
LedgerHonest ==
    /\ ledger # {} => shown # <<>>
    /\ "dedupEvent" \in ledger =>
          "history" \notin ledger /\ \E i \in DOMAIN shown : shown[i] = "marker"
    /\ "history" \in ledger => \A i \in DOMAIN shown : shown[i] # "marker"

\* ADR 0001: a shipped replacement has a snapshot behind it; without one the text
\* goes out whole, except a masked count with no safe rendering, which is flagged.
LossyIsRecoverable ==
    /\ result.content = "marker" => result.pointer
    /\ result.content = "filtered" /\ result.omission = "replacement" /\ ~result.pointer
         => inv.handler \in Masking /\ result.status = "inflated"
    /\ inv.handler \notin Masking /\ result.omission = "replacement" => result.pointer

\* The promise of the comment above runCompress's try block: control reaches the
\* fail-open, which starts the command, only when nothing has run yet.
FailOpenOnlyIfNothingRan == pc = "failOpen" => runs = 0

\* ctx exits unless a child it waits for runs for ever.
ExitsUnlessToolHangs == <>(pc = "exit") \/ <>[](child = "running")
=============================================================================
