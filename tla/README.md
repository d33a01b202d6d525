# Contexa (`ctx`): a TLA+ verification project

Contexa wraps the commands a coding agent runs, shortens their output, keeps the full
output recoverable, and books what was saved. This directory holds TLA+ modules translated
from its source (`src/` of the repository), TLC configurations that check them on small
instances, and TLAPS proofs for all values of the constants.

## How to run

    tlc -config MCCommandProxy.cfg MCCommandProxy     # one configuration
    tlapm CommandProxyProofs.tla                      # one proof module

`PROJECT.json` lists the components, the runs with their properties, for each property a
mutation of the model that breaks it, the source lines every definition stands for, the
hazards of the code, the disagreements found and the theorems.

## Inventory

| component | state | operations | what is hard | what makes it correct |
|---|---|---|---|---|
| running a command (`cli.ts`, `executor.ts`, `shim/gate.ts`, `core/pipeline.ts`, `core/emit.ts`) | child process, captured text, output written, exit code, rows | dispatch, gate, spawn, capture, filter, emit, commit, two fallbacks, fail-open | failure at any step, each with its own catch; children that do not start, are signalled, or hang | output once, the tool's exit code, at most one run, honest accounting |
| quality gate (`handlers/base.ts`) | none | `makeFilteredResult` | sizes at the boundaries, a snapshot that cannot be written | nothing lossy without a way back |
| session dedup (`core/sessionDedup.ts`, `core/dedupStore.ts`) | store file, lock file, snapshots | decide, emit, lock, merge, prune, write | processes side by side, stale locks, crashes, a clock, collected snapshots | a marker is justified by an earlier full answer; the store stays bounded |
| raw snapshots (`core/rawStore.ts`, `core/gc.ts`) | files | save, collect | a pointer outliving its file | a printed pointer names the right text |
| ledgers (`core/history.ts`, `core/dedupLedger.ts`, `core/governance.ts`, `core/ledger.ts`) | append-only files | append, read | a lost, torn or doubled row | no saving counted twice |
| rollup cache (`core/rollup.ts`) | `rollup.json` per project | stat, load, count, rebuild, save | no lock, a file that grows while it is read, a cache written in place | a trusted cache has every row of the file |
| records repair (`core/recordsHealth.ts`, `shim/doctor.ts`) | the projects directory | merge, recover, archive, prune, rebuild | copy-then-remove against recorders and crashes | every row kept, once |
| telemetry client (`telemetry/`) | state file | consent, window, build, send, forget | processes at the end of one window, a torn state file | at most one attempt per window, nothing without consent |
| telemetry server (`server/app/`) | table of reports | ingest, forget | repeated and late reports | one report counted once |
| optimisation of the context (`context/`) | the user's files, backups | plan, apply, restore | a plan gone stale, an apply cut short | a restore gives back what was there |
| install and uninstall (`shim/init.ts`, `shim/install.ts`, `hook/`) | shims, shell profile, host settings | three delivery tiers, their removal | partial failure, installing twice | uninstall undoes install |
| shim resolution (`shim/install.ts`, `shim/path.ts`, `executor.ts`) | wrappers, search path, baked path | install, look up, guard, start; batch lines of cmd.exe | a tool that moved, a wrapper that finds itself, a `%` in an argument | the tool the shell would start, with the words that were typed |
| hook runtime (`hook/`) | none | read a payload, decide, rewrite, book | input of any shape, quotes, groups and pipes | `ctx` only in front of a command whose output goes to the reader |
| capture (`executor.ts`) | buffers | chunk, cap, decode | the cap within a chunk, a character cut in two | the tail is decodable |
| handlers' filters (`handlers/`, some sixty of them) | none | choose lines, count, judge | a failure the filter does not know, a cap on the line that matters | the evidence of a failure is shown or recoverable, a verdict is earned |
| inspection of sessions (`inspect/`) | two caches | scan, parse, persist | a transcript that grows while it is read | a cached parse is that of the file |
| configuration, reports, support, benchmark scripts | - | parsing and formatting | - | - |

The components interact through files (snapshots, the store, ledgers, caches, state) shared by
processes that never talk to each other, and within one process through calls whose exceptions
decide which fallback runs. Every `ctx` command is a process of its own, so almost every hard
behaviour is an interleaving of processes over files, a crash between two file operations, or
an exception between two steps.

## Modules

| module | models | proved | runs |
|---|---|---|---|
| `QualityGate` | `makeFilteredResult` as a function of the two texts | in `CommandProxyProofs` | `command_proxy` |
| `CommandProxy` | one invocation, command line to exit code | `CommandProxyProofs` | `command_proxy`, `fail_open_reruns` |
| `DedupPromise` | what ADR 0009 promises of a marker | refined by `SessionDedup` | `session_dedup` |
| `SessionDedup` | decision, store, lock, collector, crashes | `SessionDedupProofs` | `session_dedup`, `dedup_store`, `dedup_unchanged_since` |
| `RollupCache` | one project's history and its cache | `SharedFilesProofs` | `shared_files` |
| `RecordsRepair` | `ctx doctor --fix` on the projects directory | `RecordsRepairProofs` | `records_repair`, `leftover_harmless`, `named_never_archived` |
| `TelemetryPromise` | what a row in the server's table means | refined by `Telemetry` | `shared_files` |
| `Telemetry` | consent, state file, window, dispatch, network, server | `SharedFilesProofs` | `shared_files` |
| `Optimize` | `ctx optimize`: backup, apply, restore | `OptimizeProofs` | `user_files` |
| `Install` | install, uninstall, `shim install`, `doctor --fix` | `InstallProofs` | `user_files` |
| `Hook` | one call of `ctx hook` | `OneCommandProofs` | `one_command` |
| `ShimResolution` | which file a wrapped command starts | `OneCommandProofs` | `one_command`, `wrapper_bakes_itself` |
| `SpawnTarget` | percent signs on their way through cmd.exe | `OneCommandProofs` | `one_command` |
| `Capture` | chunks, the cap, decoding | `OneCommandProofs` | `one_command` |
| `Filters`, over `FilterText`, `FiltersGit`, `FiltersSystem`, `FiltersBuild`, `FiltersCloud` | every handler's filter, and the gate behind it | `FiltersProofs` | `one_command` |

Each `MC*` module gives constants that a `.cfg` cannot write and the symmetry sets. Three of them
compose components that have no variable in common: `MCSharedFiles` (`RollupCache`, `Telemetry`),
`MCUserFiles` (`Optimize`, `Install`) and `MCOneCommand` (`Hook`, `ShimResolution`, `SpawnTarget`, `Capture`,
`Filters`). They extend the modules they compose, so a theorem and a run speak of the same definition. A
variable `area` says which of them a behaviour is one of; the others stand still, as
interleaving steps that share nothing would only multiply the states. The components that do interact
share a module: filter, gate, dedup, ledgers and fallbacks in `CommandProxy`, a filter and the gate in
`Filters`, client, network and server in `Telemetry`, all that writes to the host's files in `Install`.

### CommandProxy and QualityGate

One behaviour is one invocation. `inv` is what was asked and which handler the router finds; `pc` and
`route` say where the program is and how the command is being run; `child`, `runs` and `toolExit`
are the process it waits for, how often the user's command was started and how it ended; `raw` and
`result` are held in memory; `shown`, `ledger` and `exit` are what the world gets. Actions are named
for the code: `DispatchRaw`, `Refuse` and `Gate` are the branches of `main` in `cli.ts`; `Start`,
`StartFails` and `ToolEnds` are `executeCommand`; `AuxRuns` and `AuxEnds` the second child some handlers
start; `Filter` and `FilterFallback` the filter with its fallback; `DedupPass`, `DedupHit` and `DedupMiss`, `Emit` and
`Commit` the steps of `runPipeline`; `PipelineThrows` is the catch in `runCompress`, `FailOpen` the one around
it. Each step that can throw in the code has an alternative that does. A text is abstracted to what
the gate asks of it (`QualityGate`): its size, whether it omits content, whether it says so.

`AnsweredOnce`, `ExitIdentity`, `SingleChildRunsOnce`, `LedgerHonest` and `LossyIsRecoverable` relate what the world
saw to what the tool did; `ExitsUnlessToolHangs` says the invocation ends whenever the tool does.
Fairness is weak fairness of `ctx`'s own steps: the event loop runs whatever is ready.
The tool itself has none, so it may hang.

The run `fail_open_reruns` refutes a comment (`cli.ts:466-472`): a failure after `execute()` has
started the command is said to be unable to reach the fail-open, but handlers with two children
start the second one inside `execute()`. `SingleChildRunsOnce` is the part that does hold.

### SessionDedup and DedupPromise

The processes share the store (`core/dedupStore.ts`), its lock file and the snapshots. A process
runs its command, reads the store without a lock, decides (`HitLive`, `HitSnapshot`, `HitDeclined`, `Miss`), emits,
and only then upserts: create the lock or find it taken, judge its age (`LockStat`) and steal it
(`LockSteal`) or try again up to `MAX` attempts, read, merge, prune, rename, unlock. A process may crash at any
point; a write may fail; `Collect` removes a snapshot; the clock moves. The lock file records who created it,
so a steal from a living holder is a step of the model and not an accident outside it.

`DedupPromise` is the abstract side: full outputs delivered, and markers, each of which may
only be printed when that very output was delivered in full within the window in the same
session scope, with a snapshot of it. `PromiseKept` is `DedupPromise`'s specification under a
refinement mapping. `ExclusiveUntilRobbed` and `NoLostUpdate` say what the lock gives until a steal
from a living holder; after that the code accepts lost updates, so the properties stop there.
`StoreBounded` is the limit of the store and `InvocationEnds` that no process waits for a lock for
ever, under weak fairness of each process's own steps (a process that is not killed is scheduled;
its retries are counted).

The run `dedup_unchanged_since` refutes the header of `core/dedupStore.ts` ("never a wrong
unchanged"): a lost upsert leaves an entry that later vouches for an output although another
was delivered in between. What does hold is `PromiseKept`, which only claims an earlier delivery.

### RollupCache

The history is a sequence of rows; a torn append (`RecordTorn`) leaves a line without its end, cut within
its row, when it does not parse, or just before the newline, when it does and is counted. The next write
runs into it (`WriteLine`): the two are one line, which does not parse, and the number of lines stays what it
was. Rows that were complete and are swallowed that way are in `fused`. The size counts writes, so it grows with every
append, which is all the stamp relies on. A rollup is the set of rows it sums, the number of
lines it was built from and its stamp. A reader (`ensureProjectRollup`, or `listProjectRollups` with `user`)
goes through `Stat`, `Load`, `Count`, `Rebuild`, `SaveOpen`, `SaveWrite`, each a step of its own because each is an
await; `writeFile` truncates first and writes next, in place, so another reader may see it in
between. It may end or be killed anywhere. `Remove` is the repair removing the directory.

`StampProvesCurrent` is the claim at the fast path as far as it is true: a cache with the stamp of the file has
every row of it, and beyond them only fused ones, which it had counted while they were still to be read
(`rollup.ts:544` refreshes the stamp over them). `ReportIsCurrent` says a report covers all that was recorded
before its reader began and has not been fused since. Both are stated while the directory has never been removed:
the code's comment makes the claim for an append-only history, and a removal followed by new
rows is a new history. That a reader holding an old rollup can then write it beside the new
history is why the guard is there.

### RecordsRepair

A bucket is a directory under `projects/`: whether it exists, what its `meta.json` says (`label`),
and how many copies of each row its ledgers hold. A project has two, one for each spelling of
its fingerprint, and there is the archive. Commands record (`Record`), with the label written later
by the same process (`Heal`, or `HealFails`). A repair is `Start`, then the passes of `repairRecords`:
merge, recover, archive, prune. Each pass diagnoses once (`Diagnose...`, `Recover`) and works off that list
(`MoveNext`, `PruneNext`), one ledger after the other: `Read`, `AppendRead` or `AppendFails`, then `RemoveBucket` or
`RemoveFails`, whose error the code swallows. `Crash` may come anywhere.

The code takes no lock, and some losses are real: a row recorded in a ledger the repair is through
with is removed with the directory. The history variable `mishaps` records what has happened, so that each
property says exactly what it depends on. `NeverLost` holds whatever crashes, fails or runs
side by side, as long as no row came too late (`late`). `NeverDoubled` also excludes a crash between
a copy and its removal, a removal that fails after a copy, and two repairs at once, all of which
leave a row in two buckets. `RepairedIsHealthy` is for a repair that had the store to itself,
in any state an earlier one left it in. `NameSurvives` says, of either spelling, that no name is taken from a
bucket with a history unless the name came after the diagnosis, but for one exception (`MergedAway`): a merge
takes the rows of the second spelling to the first and removes its `meta.json`, with the name if only it had one.

The run `leftover_harmless` refutes a comment (`core/recordsHealth.ts:273`): the directory a failed removal
leaves behind is summed a second time. The run `named_never_archived` refutes ADR 0014: the recovery of
names writes the label under this platform's spelling, also if the rows are under the other; that
bucket stays without a label and is archived in the pass that follows.

### Telemetry and TelemetryPromise

Dispatching processes (`ctx gain` and `ctx inspect` "cold", wrapped commands "hot", `ctx telemetry status` only
looking) share `config.jsonc` and `telemetry-state.json`, both written in place, so every write is two steps
with an empty file between them. A dispatch is `Begin`, `ReadConfig`, `Peek` (hot only), `LoadState`, `MintOpen` and
`MintWrite` if there is no usable state, `Caches` (hot only), a second `LoadState` within `setLastSentAt`, `StampOpen`,
`StampWrite`, `Send`, and for a cold one `Answered` or `NoAnswer`. `ToggleOpen`, `ToggleWrite` and `ToggleCrash` are `ctx telemetry
enable|disable`. The network may deliver a report once, again or never (`Ingest`), and the answer may be
lost or late; the server inserts on a unique runId. A process may be killed at any step.

`TelemetryPromise` is the abstract side: a run is handed in at most once and counted at most once,
after that. `ReportedOnce` is its specification under a refinement mapping. `OneAttemptPerWindow` is the
comment at `telemetry/dispatch.ts:71`; it holds as long as no dispatch looks at the stamp while another
one, begun, has yet to set it (`mishaps`): the code reads the stamp before and sets it after its decision,
without a lock. `OneDevice` says that all reports name one salt, also of dispatches that overlap, unless two of them were
about to make one at once or the file was found empty. `SilentWithoutConsent` has no exception. The time a dispatch goes by is the one at which it
began, so two reports may be closer in real time than the window; the property speaks of the former, as
the code does.

### Optimize

`ctx optimize` sets one key in files of the user. A command makes a plan from what an earlier inspection
found (`ApplyBegin`), takes one file after the other (`TakeNext`), copies it (`Copy`), lists it in the manifest
(`List`), writes the note beside the settings (`Sidecar`) and then the file (`Write`). `BackupBegin` and `RestoreBegin` with
`RestoreOne` are the other two jobs. The user edits in between, and any command may be killed. `Reversible`
is the header of `context/applySafe.ts`: at every moment, what an apply has overwritten is in its backup set
and in the manifest. `GivenBack`: a restore that ends, also the second one after the first was killed, has
given back all the last apply found. `OwnKeyKept`: a key the user set since the inspection is not replaced.
Each has an exception for a file that changed between the plan and the write, which the code
reads only once.

### Install

A command is a list of writes, decided when it starts from the host it detects (`InstallOps`, `UninstallOps`,
`ShimOps`, `Repair`); each write is an action (`WriteText`, `WriteClaudeHook`, `SwapHook`, `WriteShim`, `WriteSettings`, `Probe`,
`Record` and their removals). A text file is a sequence of the user's words, line ends and ctx's blocks; a
settings file is the set of what is in it. The user types, adds hooks, moves to a terminal of another
host or upgrades ctx between and during the commands, which may be killed between any two writes or end
at a file that does not parse. `UsersKept`: ctx keeps the user's words, their order and that they stand apart,
but for two lines between which its block was the only end of line (`Borrowed`, see "Observations"), hooks that are not its own, and what it reformats in the backup. `UninstalledClean` and `InstalledIsLive` say what
a command that comes to its end has achieved, whatever killed commands left behind. `InstalledIsLive` looks for
the hook in the file the command registers it in (`HookFile`): with `--project`, the repository's.

### Hook

One call: the payload arrives in pieces or not at all (`ReadData`, `Settle`), is decided on (`Decide...`) and booked
(`Answer`). A command line is a sequence of tokens. `RewriteCommand` is the code's splitter and its rules;
`HookHarmless` compares its result with what a shell makes of the same line (`Shell`, written independently,
for bash and for PowerShell: quotes, bash's backslash, groups and keywords; to bash a brace groups only where a command
can begin, to PowerShell anywhere). What it says of the places of `ctx` it says of every line whose groups ctx can see
(`Plain`): no parenthesis, no keyword, no backslash of bash, and no brace that bash takes for an argument; see
"Observations" for those. That a line is changed once, or not at all, it says of every line.

### ShimResolution, SpawnTarget, Capture

`ShimResolution`: the user installs, moves a tool, edits the search path, removes the wrappers, and runs a
command, from a plain shell or below another wrapper. `Spawn` is `buildChildEnv` with `stripShimDir`,
`assertNoRecursion` and the baked path with its fingerprint. `RunsTheRealTool`: what is started is what the
shell would start without the wrappers. It holds where the fingerprint can know: as long as no file
came or went on an unchanged path, and the installation met the shim directory under its own name. The
run `wrapper_bakes_itself` shows what happens otherwise: an installation while the search path spells the
shim directory with a trailing separator, or by a link, bakes the wrapper as the real tool, and at run
time ctx starts itself without end.

`SpawnTarget`: a line for a batch script is expanded by cmd.exe (`Expand`, external) after ctx has replaced
every `%`; `PercentSurvives` says the script is given what was typed. `Capture`: two streams, in chunks of any
size, each cut at the cap and freed of a character cut in two; `CaptureHonest` says that what a handler is
given is a prefix, marked if it is cut, and decoded as what the tool wrote: as UTF-8, of which nothing but a byte order
mark is gone (`Unmarked`), or else by the code page of the console or with what is broken replaced. Of a cut stream in
another encoding it says nothing of that kind: what is left may be UTF-8 by chance.

### Filters

What a tool printed is a record: how it was asked (`ask`), its exit code and its lines on both streams, a
line being one of the kinds the handler tells apart (an error, a test result, a hunk, a row, noise). A
filter answers with the lines it shows, a verdict (`says`), whether a marker stands for the rest (`more`) and
what it declares to the gate (`omission`). The gate is `QualityGate`, so `EvidenceKept` and `VerdictEarned` are about
what the reader gets in the end. `EvidenceKept` is ADR 0001 for the lines that say what went wrong: each is
shown, or is in a snapshot the reader has a pointer to. `VerdictEarned`: "ok" or "nothing found" stands over
all that reports an error, and over a failing tool only if it said why.

What a tool may print is written down once (`Printed`): for each handler the forms in which its tool is asked and
answers (`Forms`: the exit codes and the kinds of lines on either stream), where a line can stand (`Placed`: a
change in a hunk of a file, an issue below the name of its file, no planned change below the rule that
ends a plan), that a tool that worked reports no error on standard error, and that one that failed does not say all
is clean. The run enumerates what has this form and is short; the proofs assume it and nothing else of the input.

Both properties have exceptions, named in `Filters.tla`, where the code does otherwise:

- `Selective`, lines dropped without a word: pytest says "N passed" when there are only collection errors;
  `ctx test` of an unknown runner shows totals and last lines; `log` shows a repeated error once;
  `summary` shows the first items; the gradle tests drop Kotlin's `e:` lines; kubectl answers "No pods" to
  a question about one pod; a failed wget shows the first phrase it recognises.
- `Shortening`, declared a digest, which `common/budget.ts:18-26` calls lossless, but dropping lines: maven and
  gradle keep 40, glab's release list a half, curl 500 bytes, grep has caps per file, find and pipes leave
  out generated directories, and the patches of a log are declared as the first of them that was cut.
- `Excused`: who asks `type` for the first or last lines of a file, or for its symbols, gets no other, error
  or not; and if git says that there is nothing to be done, nothing else it says is looked at.
- `SkippedBy`: a removed line `-- x` is printed as `--- x` and an added `++ x` as `+++ x` (a "marked" line), which the
  parser of diffs takes for the name of a file: it and the rest of its hunk are gone without a word. The filter of `ctx
  diff` loses the marked line alone. `Mistaken`: a changed line that reads `---` or `+++` with no blank after it
  ("dashes") is taken for context, which a digest leaves out.
- `Credulous`, verdicts that are right by luck: mypy reports success whatever the exit code; the
  comparison of files calls binary and mode-only changes identical; black's exit code 123 is "All files
  formatted"; npm says "ok" when only noise was printed; pytest and `summary` as above.

## Bounds

- `command_proxy`, `fail_open_reruns`: one invocation; one handler per way of executing and set of gate
  traits; two exit codes and one signal; texts on both sides of the thresholds of the gate and the
  snapshot (0, 201 and 20001 characters raw; 0, 200, 281 and 282 compressed). The state space is
  finite without a cut.
- `session_dedup`: two processes, one command, two outputs, three runs (`MaxRuns`), two snapshots
  (`MaxSnaps`): what it takes to store a text, replace it and repeat one of them while another
  process is between its read and its write. The clock (`MaxTime`) goes one tick past the window and
  past the age of a stale lock; one retry of the lock instead of the code's several. Crashes and
  failed writes are not limited.
- `dedup_store`: two commands for a store with room for one, so that every second write prunes.
- `dedup_unchanged_since`: as the first, with a window of two ticks, for a third output in between.
- `shared_files`: for the rollup cache two readers, two writes (`MaxSize`), one removal (`MaxGens`), two clock values
  (`MaxTime`). Two writes put a row before, between and after any two steps of a reader, and allow
  a torn line, readable or not, and the row it swallows; the proofs cover any number. For telemetry two dispatches of any kind (`MaxRuns`), a
  window of one tick and a clock up to its edge (`MaxClock`): the second one is seen inside the window and
  at its end, and they overlap anywhere. 2.9 million states, under three minutes.
- `records_repair`: one project in both spellings and the archive; a row of the history and one of another
  ledger (`Ledgers` = 2 for the code's three: what matters is that a ledger is done while another is
  not), each recorded before or during the repair; two doctors, two repairs (`MaxRuns`), one after the other or
  side by side. Every initial store is tried, with any label in either spelling. 1.6 million states,
  under two minutes. The two refutations need one doctor.
- `user_files`: two commands in all (`MaxRuns`, `MaxCommands`) and one edit of each kind (`MaxEdits`, `MaxUserEdits`); for `Optimize` two
  processes and two files, one of them the settings, with a body that parses and one that does not; for
  `Install` a bare machine, a lived-in and a broken one, a shell file whose last line has its end or has not,
  with any host detected. Two commands are what it takes
  to install over something, or to remove it, with the first one killed anywhere. 4.2 million states, under three minutes.
- `one_command`: for `Hook` all joins of up to three simple commands, groups by brackets or by keywords and blocks
  that are arguments, with a brace as a plain argument too (`ShellLines`), and every host, event and kind of tool; for `ShimResolution` two directories, five spellings, paths of up to three entries (`MaxEntries`)
  and two changes (`MaxChanges`); for `SpawnTarget` pairs of words of up to three pieces and all environments
  over three names; for `Capture` outputs of up to five bytes with the cap (`MaxCapture`) at four, in every division into
  chunks, a byte order mark among them; for `Filters` up to three lines on one stream (a diff has a fourth, for a change
  after one that is skipped: `Longest`) and two on the other (`MaxOut`, `MaxErr`) and exit codes up to two, with the
  budgets and caps of the code, which lie between 5 and 500, at two (`Budget`, `Cap`), so that a cap is met
  and exceeded.

## Proofs

All theorems are of the form `Spec => []P` and hold for all values of the constants that satisfy
the named assumptions in the modules (bounds are numbers; markers such as `Garbage` are not
rows; a call of the shell tool comes with a command line and no other target).

- `CommandProxyProofs`: `IInv` relates, for every value of `pc`, what was printed, run and booked so
  far; it is needed because none of the properties mentions the program counter while every
  exception edge depends on it. Proved: type correctness, `AnsweredOnce`, `ExitIdentity`,
  `SingleChildRunsOnce`, `LedgerHonest` and `LossyIsRecoverable`.
- `SessionDedupProofs`: `Typed`, `LockInv` (who owns the lock file, and that between the read and
  the write of an unrobbed holder the store does not change) and `HonestInv` (every entry in the
  store, and every entry a process carries, stands for a full delivery that was really made).
  Proved: type correctness, `ExclusiveUntilRobbed`, `NoLostUpdate`, and `PromiseKept`, the refinement. For a
  finite set of commands also `StoreBounded`: what is read from the store, merged and pruned is within the limit
  whatever a process that was robbed of the lock does.
- `SharedFilesProofs`, on `RollupCache`: `Good` says of every rollup in existence, in the file or in a reader's hands,
  that it covers the lines it counted, but for fused ones, and counts nothing that was never written whole
  (`Written`), that its stamp is no newer than the file, and that it covers whatever a reader with an older
  stamp has seen. The last part is what makes the fast
  path safe for a reader that took its stamp before another one rebuilt the cache.
  Proved: type correctness, `StampProvesCurrent`, `ReportIsCurrent`.
- `SharedFilesProofs`, on `Telemetry`: `TelemetryInv` gives types and, for each place of a dispatch, what it holds; it suffices for type
  correctness, `SilentWithoutConsent` and the refinement `ReportedOnce`. `OneAttemptPerWindow` needs `WindowInv`: of
  the moments at which reports were, or are about to be, sent (`Times`) it says that the file, if it lets
  everybody through, was emptied when all of them were a window ago (`OpenClear`), that its stamp is
  otherwise the last of them (`StampLast`), that who has decided to send is a window past all of them
  (`CommittedClear`), and that of two dispatches at work one began after the other had looked (`OneLooked`). A killed
  dispatch that leaves the file empty is covered by the second: it had looked, so the window was open.
  `OneDevice` needs `DeviceInv`, over all places a salt can be (`Devices`: a report, a dispatch's hands, the file):
  unless the file was found empty or two were about to make it at once, they all name one salt, a salt is only
  generated while there is no file, by one dispatch alone (`MintsAlone`), and while there is no file there is no salt
  anywhere. So whoever has a state in his hands may write it over another's: there is a name, and nobody makes one.
- `RecordsRepairProofs`: a removal is safe because of steps taken long before it, so `IInv` follows every
  repair through its pass. `Copied`: a row of the source in a ledger that is done has a copy in one of
  the homes of the pass; a merge has two homes, as another repair may archive the canonical bucket
  meanwhile. `Holds`: what is held in memory covers the ledger at hand. `StillEmpty`: what is going to
  be pruned is still empty. For names, `NInv` says that no bucket an archiving repair still has on its list
  has a name; a merge removes only second spellings, which is the exception. Proved: type correctness, `NeverLost`, `NameSurvives`.
  On top of it: in between, a row is there twice and the store has duplicates, also some that
  the repair has made itself (a directory made for a recovered name is a duplicate of the orphan it names),
  so both further invariants say what is still going to be put right, and by which step. `OnceInv`: unless a
  mishap came, one repair is at work, and a row that is in two buckets is in the source and the destination of
  that repair, which has appended it and not yet removed the source (`Copying`); hence `NeverDoubled`. `HInv`: for
  each pass of an undisturbed repair, what its diagnosis would find is on its list (`Merging`, `Archiving`,
  `Pruning`) and what earlier passes were for is gone, or is an orphan the archiving is about to take; hence
  `RepairedIsHealthy`.
- `OptimizeProofs`: everything the run checks of `Optimize`. A copy, its entry in the manifest and the write are
  steps of their own with other commands and kills between them, so `IInv` says what each command has written
  down (`Recorded`) and has not come to yet (`Ahead`), and that no two commands have one time (`OwnTimes`): their
  sets cannot mix. It gives type correctness and `Reversible`. `KeyInv`: a context file is found and planned
  without the key, which gives `OwnKeyKept`. `BackInv` is for the restore: a set is empty before the first trace
  of its apply (`Traces`), the files are undisturbed only while one command works (`Alone`), and then each file is
  as the last apply found it, or its copy is in the manifest (`Found`), which gives `GivenBack`.

- `InstallProofs`: what a command promises at its end is spread over its steps, with the user's edits between any
  two and jobs cut short before, so `IInv` says of each part that it is in order or that its step is still in
  the job (`Removed`, `Put`), and in which order steps come (`Ordered`, `ProbesLast`: what is probed is probed
  after it was written). Blocks are cut out by splicing, which is right only because a file has one at
  most, on lines of its own with an empty line before it (`Laid`): every write, the user's typing and an upgrade
  are shown to keep that. `HomeInv`: the guidance in the home directory has a block only on a machine without VS
  Code, which is where the uninstall looks for it. Proved: type correctness, `UninstalledClean`, `InstalledIsLive`, `UsersKept`.
- `OneCommandProofs`, for what a command passes on its way, each over recursive functions on sequences. An
  induction theorem of the library cannot be used, as it takes an operator; the least place at which such
  a function would go wrong does the same (`Least`, from `WFMin`). `CaptureInv`: what is kept of a stream is
  what has arrived, up to the cap, and `cut` says that there was more, however the chunks fell; a prefix from
  which a character cut in two is trimmed decodes as the beginning of the whole (`TrimmedPrefix`): `CaptureHonest`.
  `ShimInv`: a wrapper holds the first real tool of the path it was installed under (`Baked`), and a running command
  goes by its own wrapper as it is now and the path as it is now, or is on its second way through it
  (`Running`); with the shim directory stripped, a lookup finds the first entry that is not ctx's (`RealFound`):
  `RunsTheRealTool`. `SpawnInv`: a line in which every `%` is replaced mirrors the line that was typed, piece by
  piece (`Mirrors`), and cmd.exe, reading it from left to right, gives the original back, whatever else the
  environment binds (`ExpandMirror`): `PercentSurvives`.
  For `HookHarmless`, the two readings of a line are compared token by token. The shell's level is never above
  ctx's depth, which has a floor (`LevelUnder`), and the two go together from where they meet until a brace
  closes at level zero (`LevelSame`); so the first operator after a tool that the shell sees at its level is the
  one at which ctx ends the segment (`PrefixHarmless`). A rewritten line keeps the depth of its tokens and falls
  apart where it did (`Placed`, `Grows`, `Nests`, `SplitsAlike`), and a segment that got a `ctx` has a `ctx` for its program,
  so nothing is put in twice (`PrefixedOnce`). The last holds for every line, the first, for either shell, for those
  whose groups ctx can see (`Plain`): there a place opens or closes a level if and only if it is a brace.

- `FiltersProofs`: some sixty filters, and one fact about each. What the gate must know of a reply so that no
  evidence is lost behind it is stated once (`Kept`: it shows all of it, declares what it left out, or is one the
  gate sends back), as is what earns a verdict (`Earned`). `GateKeeps` follows such a reply through `QualityGate`, in
  whatever way the snapshot fails; `FiltersKeep` shows of every filter that its replies are such, for all a tool may print
  (`Printed`), of any length, and for every budget and cap. Each filter has its lemma, which is where its reasons stand:
  a change is found by the parser of diffs because its file and its hunk were (`Parses`), a directory under the cap is
  shown whole (`FirstOfFew`), a verdict of tsc rests on the line that says so and on an exit code that agrees. The
  masked listing of `env` is shipped without a snapshot if none could be written; it then holds all the
  evidence there is (`EnvInFull`). Proved: `EvidenceKept`, `VerdictEarned`. They rest on `BudgetAssumption` (the budget and
  the cap are numbers) and `FiltersAssumption` (the inputs are what a tool may print, only `env` masks,
  `deps` declares nothing), which TLC evaluates in the run.

Only model-checked:

- the liveness properties (`ExitsUnlessToolHangs`, `InvocationEnds`): liveness and `ENABLED` are beyond the prover;
- the five refutations, which are counterexamples.

## Abstractions

- In `CommandProxy` texts are classes of size and content. In `Filters` they are lines of the kinds a handler
  tells apart: the regular expressions that tell them apart, the wording, the columns and the length a
  line is cut to are left out, and a filter that reads structured output (JSON, a table) is given rows.
  String functions in `emit` are taken not to throw.
- Rows are identities; what is summed per row is not modelled, so a rollup "sums" a set of rows.
- Handlers are traits (one child or two, internal answer or not), not names.
- In `RecordsRepair` a diagnosis, the recovery of names and the writing of a label are one step each; a project has at most
  one label write outstanding. An append to a ledger is whole rows; the torn line and the row
  it swallows are in `RollupCache`, as is the rebuild of the caches.
- File operations are atomic one by one, except where the code's own call is two (truncate and
  write, read and rename).

- A test whether a file is there and the write that follows are one step in `Install`, but for the hook file,
  which the code looks at twice (`PlanHook`, `SwapHook`).
- The system's part in `SpawnTarget` and `ShimResolution` (cmd.exe, the lookup of a bare name) and the shell in
  `Hook` are modelled from what the code's comments and tests expect of them. PowerShell's own escape, the backtick,
  and the words of other shells are left out.

## Observations

What the modules had to take in, beyond the findings in `PROJECT.json`. Most are choices; a maintainer may want
to look at some.

- Filters: `git show` drops the paragraphs of a message after the first, and the log's block form all but the
  first line of a body. Handlers of the form `stdout || stderr` drop standard error when there is something
  on standard output. `ctx diff` calls files identical that differ in mode only (`common/diff.ts:115-155`).
  `kubectl get pod NAME` answers "No pods found" (`container.ts:270-274`). Jest and vitest print "FAIL (0)"
  when a coverage threshold was missed. `ctx next build` discards what it declared as left out. Terraform's
  plan ends at the closing rule. `ls` and `env` drop lines they cannot parse.
- Filters: the parser of diffs takes a removed line that begins with `-- ` (it reads `--- ` in the diff) or an added one
  with `++ ` for the name of a file, and loses it and the rest of its hunk (`git/compactDiff.ts:64-83`), and one that
  begins with `--` or `++` for context, though every changed line is to be kept (`git/compactDiff.ts:24-27`,
  `101-104`, `git/log.ts:57`): the exceptions `SkippedBy` and `Mistaken`. `git log -p` declares what the first commit it cut
  declares (`git/log.ts:75`): a digest, also if a later one became a summary. A git command that writes and fails with
  "nothing to commit" anywhere in its output is "ok", errors beside it or not (`git/extended.ts:103-108`). `pip list` with
  problems and no packages says "No packages installed" above the problems.
- Hook: parentheses and keywords are not tracked, so in `(true; git diff; git log) | grep -c +`, or in
  `for f in a; do true; git diff; done | wc -l`, a command that feeds the pipe is wrapped, against `rewrite.ts:368-372`. Every brace
  outside quotes is counted (`rewrite.ts:74-87`), which is how PowerShell reads it; to bash the brace in
  `grep -rn { src | wc -l` is an argument, and ctx does not see the pipe. Nor are backslashes tracked, so in
  `echo "say \"a; git status\" now"` an argument is changed; `;;`, `|&` and `;&` are torn apart. A command read
  from `commandLine`, `cmd` or `script` is answered under `command`, and the original stays as it was.
- Shim: the fingerprint covers the text of the search path only. A newcomer in an earlier directory, or a
  tool that is gone, is not noticed (`executor.ts:218-228`).
- Rollup: an append that is cut just before its newline is counted while it is the last line. The next write
  makes one unreadable line of the two, the line count stays, and the stamp is refreshed over a row that a
  full read would not find (`rollup.ts:544`, against the comment at `rollup.ts:531`). `listProjectRollups` leaves out a project that was rebuilt when only its cache could not be written
  (`rollup.ts:641`). Dedup: the collector may delete a snapshot after `existsSync` found it
  (`sessionDedup.ts:194`), which `core/gc.ts:13-18` accepts.
- Telemetry: two dispatches that find no state file each generate a salt (`telemetry/state.ts:52-57`) and send under
  their own (`telemetry/dispatch.ts:136-143`); the file keeps one of them.
- Repair: a name that only the second spelling of a project has is lost when its rows are merged
  (`core/recordsHealth.ts:298-304`).
- Capture: the strict decoder drops a byte order mark, while the comment above it says that UTF-8 is kept byte-exact
  (`executor.ts:31-32`); of a legacy stream that is cut, the part kept may be UTF-8 by chance.
- Install: with `--project` the hook is put into the repository only (`init.ts:445`, `464-469`, `hook/install.ts:135`), but
  the installation is recorded as a hook tier that status looks for in the home directory: it stays "missing", until
  `doctor --fix` puts one there. A block that was put below a last line without an end brings one, and takes it away
  again: if the user has typed below it, the two lines are joined (`hostConfig.ts:22`, `43-46`, against
  `hostConfig.ts:9`). `uninstall` removes the block of the host detected now; a Claude hook of an earlier place of ctx is
  not recognised; a settings file that does not parse ends an automatic install midway; `doctor --fix` cannot
  repair an installation recorded for the host "unknown" (`doctor.ts:55-58`). Optimize: a settings file that
  apply made is not removed by a restore, and the note beside the settings is written but not read.

## Not modelled, and next

- `InspectCache`: the two caches of parsed transcripts (`inspect/`) are the last stateful part without a module.
- The configuration beyond consent, the command line's options, reports, support and debug bundles and
  the scripts only read and format: there is no state a step could spoil.
- Of modelled parts: the sums within a rollup and the merge of several projects; the age and size limits
  of the collector; a torn last line at the destination of a repair (`recordsHealth.ts:268`); `--purge-data`.
