------------------------------ MODULE Telemetry ------------------------------
(***************************************************************************)
(* The report a consenting installation sends at most once in 23 hours     *)
(* (telemetry/, core/config.ts) and the server that keeps it (server/app). *)
(* `ctx gain` and `ctx inspect` dispatch it at their end (cold), a wrapped *)
(* command may after its output (hot).  The processes share two files,     *)
(* both written in place: config.jsonc with the consent and                *)
(* telemetry-state.json with the salt that names the device and the time   *)
(* of the last attempt.  A report is tried once and never again.           *)
(***************************************************************************)
EXTENDS Naturals, FiniteSets

CONSTANTS
    Senders,  \* processes that may dispatch
    Window,   \* WINDOW_MS, in ticks
    MaxClock, \* bound on the clock
    MaxRuns,  \* bound on the number of dispatches
    None,     \* no file, no time, no salt
    Emptied   \* a file that was emptied and not yet written

VARIABLES
    built,    \* what the build baked in: an endpoint or none, and the default consent
    config,   \* config.jsonc
    toggle,   \* a `ctx telemetry enable|disable` under way: what it is going to write
    state,    \* telemetry-state.json
    clock,
    sender,   \* the dispatching processes
    runs,     \* dispatches begun; the number is the runId of the next
    salts,    \* salts generated
    attempts, \* reports handed to the network, by whom and when
    rows,     \* how often each runId is in telemetry_events
    kept,     \* the runId in the local export file
    mishaps   \* what has gone wrong with the state file

telemetryVars ==
    <<built, config, toggle, state, clock, sender, runs, salts, attempts, rows, kept, mishaps>>

Files == {"on", "off", Emptied, None}
Message == [id : Nat, device : Nat \cup {None}, at : Nat]
State == [salt : Nat, sent : Nat \cup {None}]
\* The slip of leaving out the stamp of a new state.
FreshUnstamped(salt) == [salt |-> salt]
Fresh(salt) == [salt |-> salt, sent |-> None]
NoState == {None, Emptied}

\* The markers are no numbers and no states, and the bounds are numbers.
Constants == /\ Window \in Nat /\ MaxRuns \in Nat
             /\ None \notin Nat /\ Emptied \notin {None, "on", "off"}
             /\ NoState \cap State = {}
ASSUME TelemetryAssumption == Constants

AtRest == [pc |-> "idle", kind |-> None, now |-> 0, id |-> 0, held |-> None,
           device |-> None, asked |-> FALSE, ok |-> FALSE]
Sender == [pc : {"idle", "config", "peek", "load", "mint", "mintWrite", "keep", "caches",
                 "stampLoad", "stamp", "stampWrite", "send", "answer"},
           kind : {"hot", "cold", "look", None}, now : Nat, id : Nat,
           held : State \cup {None}, device : Nat \cup {None}, asked : BOOLEAN,
           ok : BOOLEAN]

\* core/config.ts readConfig: a missing file reads as the defaults, a torn one throws.
Consents(file) == file = "on" \/ (file = None /\ built.default)

\* The state may have been left half-written by a command that was killed.
TelemetryInit ==
    /\ built \in [endpoint : BOOLEAN, default : BOOLEAN]
    /\ config \in Files \ {Emptied} /\ toggle = None
    /\ state \in NoState /\ clock = 0 /\ salts = 0
    /\ sender = [p \in Senders |-> AtRest] /\ runs = 0
    /\ attempts = {} /\ rows = [i \in 1 .. MaxRuns |-> 0]
    /\ kept = None /\ mishaps = {}

Consent == <<built, config, toggle>>
Ghosts == <<attempts, mishaps>>
Goes(p, w) == sender' = [sender EXCEPT ![p] = w]

-----------------------------------------------------------------------------
(* Consent: `ctx telemetry enable|disable` (telemetry/cli.ts) *)

\* An unreadable config is refused; the new one is written in place.
ToggleOpen(to) ==
    /\ toggle = None /\ config # Emptied /\ to # config
    /\ config' = Emptied /\ toggle' = to
    /\ UNCHANGED <<built, state, clock, sender, runs, salts, kept, rows, Ghosts>>

ToggleWrite ==
    /\ toggle # None
    /\ config' = toggle /\ toggle' = None
    \* Those at work may have seen the consent that is given here.
    /\ sender' = [p \in Senders |-> [sender[p] EXCEPT !.asked = @ \/ toggle = "on"]]
    /\ UNCHANGED <<built, state, clock, runs, salts, kept, rows, Ghosts>>

ToggleCrash ==
    /\ toggle # None /\ toggle' = None
    /\ UNCHANGED <<built, config, state, clock, sender, runs, salts, kept, rows, Ghosts>>

TimePasses ==
    /\ clock < MaxClock /\ clock' = clock + 1
    /\ UNCHANGED <<Consent, state, sender, runs, salts, kept, rows, Ghosts>>

-----------------------------------------------------------------------------
(* Dispatch (telemetry/dispatch.ts) *)

\* The time and the runId are taken once.  A hot one is not even loaded without an
\* endpoint.
Begin(p, kind) ==
    /\ sender[p].pc = "idle" /\ runs < MaxRuns
    /\ kind = "hot" => built.endpoint
    /\ runs' = runs + 1
    /\ Goes(p, [AtRest EXCEPT !.pc = "config", !.kind = kind, !.now = clock,
                              !.id = runs + 1, !.asked = Consents(config)])
    /\ UNCHANGED <<Consent, state, clock, salts, kept, rows, Ghosts>>

\* Without consent, or with a config that does not parse, the dispatch is over; `ctx
\* telemetry status` and preview only need it to parse.
Proceeds(w, file) == IF w.kind = "look" THEN file # Emptied ELSE Consents(file)
Asks(p, file) ==
    LET w == sender[p] IN
    /\ w.pc = "config"
    /\ Goes(p, IF ~Proceeds(w, file) THEN AtRest
               ELSE [w EXCEPT !.pc = IF w.kind = "hot" THEN "peek" ELSE "load"])
    /\ UNCHANGED <<Consent, state, clock, runs, salts, kept, rows, Ghosts>>

\* The slip of reading the defaults from a config that does not parse.
ReadConfigLenient(p) == Asks(p, IF config = Emptied THEN None ELSE config)
ReadConfig(p) == Asks(p, config)

\* Some other command is under way and has not set its stamp yet.
Overlaps(p) == \E q \in Senders \ {p} : sender[q].pc \notin {"idle", "keep", "send", "answer"}
Noticed(p) == mishaps \cup {m \in {"overlap"} : Overlaps(p)}
                      \cup {m \in {"torn"} : state = Emptied}
\* Another one is about to make the state that this one does not find.
BothMint(p) == state = None /\ \E q \in Senders \ {p} : sender[q].pc = "mint"

\* The slip of a window one tick short.
TooSoonOff(now, sent) == sent # None /\ now < sent + Window - 1
TooSoon(now, sent) == sent # None /\ now < sent + Window

\* The window is open: report, or leave it.
Decided(w, sent) ==
    IF ~built.endpoint THEN [w EXCEPT !.pc = "keep"]
    ELSE IF TooSoon(w.now, sent) THEN AtRest
    ELSE [w EXCEPT !.pc = IF w.kind = "hot" THEN "caches" ELSE "stampLoad"]

\* peekLastSentAt: the hot one looks before it makes anything.
Peek(p) ==
    LET w == sender[p] IN
    /\ w.pc = "peek"
    /\ Goes(p, Decided(w, IF state \in NoState THEN None ELSE state.sent))
    /\ mishaps' = Noticed(p)
    /\ UNCHANGED <<Consent, state, clock, runs, salts, kept, attempts, rows>>

\* Hot: loadCachedProjectRollups; without a cached rollup nothing is sent or made.
Caches(p, some) ==
    /\ sender[p].pc = "caches"
    /\ Goes(p, IF some THEN [sender[p] EXCEPT !.pc = "load"] ELSE AtRest)
    /\ UNCHANGED <<Consent, state, clock, runs, salts, kept, rows, Ghosts>>

\* What the state was loaded for: to look at it, to report under its name, or to stamp it.
Loaded(w, found) ==
    IF w.device # None THEN [w EXCEPT !.pc = "stamp", !.held = found]
    ELSE LET named == [w EXCEPT !.device = found.salt, !.held = None] IN
         CASE w.kind = "look" -> AtRest
           [] w.kind = "hot"  -> [named EXCEPT !.pc = "stampLoad"]
           [] w.kind = "cold" -> Decided(named, found.sent)

\* loadOrCreateState: by itself, and a second time within setLastSentAt.
LoadState(p) ==
    LET w == sender[p] IN
    /\ w.pc \in {"load", "stampLoad"}
    /\ Goes(p, IF state \in NoState THEN [w EXCEPT !.pc = "mint"] ELSE Loaded(w, state))
    /\ mishaps' = Noticed(p) \cup {m \in {"mints"} : BothMint(p)}
    /\ UNCHANGED <<Consent, state, clock, runs, salts, kept, attempts, rows>>

\* writeState, a fresh salt: the file is emptied and then written.
MintOpen(p) ==
    LET w == sender[p] IN
    /\ w.pc = "mint"
    /\ salts' = salts + 1 /\ state' = Emptied
    /\ Goes(p, [w EXCEPT !.pc = "mintWrite", !.held = Fresh(salts + 1)])
    /\ UNCHANGED <<Consent, clock, runs, kept, rows, Ghosts>>

MintWrite(p) ==
    LET w == sender[p] IN
    /\ w.pc = "mintWrite"
    /\ state' = w.held
    /\ Goes(p, Loaded(w, w.held))
    /\ UNCHANGED <<Consent, clock, runs, salts, kept, rows, Ghosts>>

\* An empty endpoint leaves the report in the local file.
KeepLocal(p) ==
    /\ sender[p].pc = "keep"
    /\ kept' = sender[p].id
    /\ Goes(p, AtRest)
    /\ UNCHANGED <<Consent, state, clock, runs, salts, rows, Ghosts>>

\* setLastSentAt writes what it has loaded with the new stamp, in place.
StampOpen(p) ==
    /\ sender[p].pc = "stamp"
    /\ state' = Emptied
    /\ Goes(p, [sender[p] EXCEPT !.pc = "stampWrite"])
    /\ UNCHANGED <<Consent, clock, runs, salts, kept, rows, Ghosts>>

\* The slip of stamping a state that is made anew.
StampWriteAnew(p) ==
    LET w == sender[p] IN
    /\ w.pc = "stampWrite"
    /\ salts' = salts + 1
    /\ state' = [salt |-> salts + 1, sent |-> w.now]
    /\ Goes(p, [w EXCEPT !.pc = "send", !.held = None])
    /\ UNCHANGED <<Consent, clock, runs, kept, rows, Ghosts>>

StampWrite(p) ==
    LET w == sender[p] IN
    /\ w.pc = "stampWrite"
    /\ state' = [w.held EXCEPT !.sent = w.now]
    /\ Goes(p, [w EXCEPT !.pc = "send", !.held = None])
    /\ UNCHANGED <<Consent, clock, runs, salts, kept, rows, Ghosts>>

\* The file cannot be opened, or the disk is full: the exception ends the dispatch.
StateFails(p) ==
    /\ sender[p].pc \in {"mint", "mintWrite", "stamp", "stampWrite"}
    /\ Goes(p, AtRest)
    /\ UNCHANGED <<Consent, state, clock, runs, salts, kept, rows, Ghosts>>

\* sendTelemetry.  Nobody waits for the answer to a hot one.
Send(p) ==
    LET w == sender[p]
        report == [id |-> w.id, device |-> w.device, at |-> w.now]
    IN
    /\ w.pc = "send"
    /\ attempts' = attempts \cup {[report |-> report, asked |-> w.asked]}
    /\ Goes(p, IF w.kind = "hot" THEN AtRest
               ELSE [AtRest EXCEPT !.pc = "answer", !.kind = "cold", !.id = w.id])
    /\ UNCHANGED <<Consent, state, clock, runs, salts, kept, rows, mishaps>>

\* Refused, unreachable, or two seconds without an answer: the report is kept.
NoAnswer(p) ==
    /\ sender[p].pc = "answer" /\ ~sender[p].ok
    /\ kept' = sender[p].id
    /\ Goes(p, AtRest)
    /\ UNCHANGED <<Consent, state, clock, runs, salts, rows, Ghosts>>

Answered(p) ==
    /\ sender[p].pc = "answer" /\ sender[p].ok
    /\ Goes(p, AtRest)
    /\ UNCHANGED <<Consent, state, clock, runs, salts, kept, rows, Ghosts>>

\* The process is killed, or its event loop is empty: the socket does not hold it.
Crash(p) ==
    /\ sender[p].pc # "idle"
    /\ Goes(p, AtRest)
    /\ UNCHANGED <<Consent, state, clock, runs, salts, kept, rows, Ghosts>>

-----------------------------------------------------------------------------
(* The server (server/app) *)

\* The slip of an insert without its ON CONFLICT clause.
InsertAgain(m) == rows' = [rows EXCEPT ![m.id] = @ + 1]
\* insertEvent
Insert(m) == rows' = IF rows[m.id] = 0 THEN [rows EXCEPT ![m.id] = 1] ELSE rows

\* A request arrives, once, again or never, and is answered.  The answer may be lost.
Ingest(m, heard) ==
    /\ \E a \in attempts : a.report = m
    /\ Insert(m)
    /\ sender' = [p \in Senders |-> IF heard /\ sender[p].pc = "answer" /\ sender[p].id = m.id
                                    THEN [sender[p] EXCEPT !.ok = TRUE] ELSE sender[p]]
    /\ UNCHANGED <<Consent, state, clock, runs, salts, kept, Ghosts>>

-----------------------------------------------------------------------------
Dispatch(p) ==
    \/ ReadConfig(p) \/ Peek(p) \/ LoadState(p) \/ MintOpen(p) \/ MintWrite(p) \/ KeepLocal(p)
    \/ \E some \in BOOLEAN : Caches(p, some)
    \/ StampOpen(p) \/ StampWrite(p) \/ Send(p) \/ NoAnswer(p) \/ Answered(p)

TelemetryNext ==
    \/ \E to \in {"on", "off"} : ToggleOpen(to)
    \/ ToggleWrite \/ ToggleCrash \/ TimePasses
    \/ \E p \in Senders, kind \in {"hot", "cold", "look"} : Begin(p, kind)
    \/ \E p \in Senders : Dispatch(p) \/ StateFails(p) \/ Crash(p)
    \/ \E a \in attempts, heard \in BOOLEAN : Ingest(a.report, heard)

TelemetrySpec == TelemetryInit /\ [][TelemetryNext]_telemetryVars

-----------------------------------------------------------------------------
TelemetryTypeOK ==
    /\ built \in [endpoint : BOOLEAN, default : BOOLEAN]
    /\ config \in Files /\ toggle \in {"on", "off", None}
    /\ state \in State \cup NoState
    /\ clock \in Nat /\ runs \in Nat /\ salts \in Nat
    /\ sender \in [Senders -> Sender]
    /\ attempts \subseteq [report : Message, asked : BOOLEAN]
    /\ rows \in [1 .. MaxRuns -> Nat]
    /\ kept \in Nat \cup {None}
    /\ mishaps \subseteq {"overlap", "torn", "mints"}

\* "Strictly <=1 attempt per 23h window" (telemetry/dispatch.ts:71), hot and cold
\* together, whatever the endpoint answers and wherever a dispatch was killed: it holds
\* as long as no dispatch looks at the stamp while another one, begun, has not set it.
OneAttemptPerWindow ==
    "overlap" \notin mishaps =>
        \A a, b \in attempts : a = b \/ a.report.at >= b.report.at + Window
                                     \/ b.report.at >= a.report.at + Window

\* The salt is generated once (telemetry/state.ts:33-58): all reports of an installation
\* name the same device, also when dispatches overlap and stamp over each other, and when
\* they are killed.  Excepted is an installation whose file somebody found half-written, or
\* where two were about to make it at once: they generate two salts and send both.
OneDevice ==
    mishaps \cap {"torn", "mints"} = {} =>
        \A a, b \in attempts : a.report.device = b.report.device

\* No report leaves an installation that did not consent at any time since the dispatch
\* began, also while the config is being rewritten and after that was cut short.
SilentWithoutConsent == \A a \in attempts : a.asked

\* On the way to the table a report may be lost or doubled, and the answer too; what the
\* server keeps is still what TelemetryPromise says.
Promise == INSTANCE TelemetryPromise
           WITH Ids <- 1 .. MaxRuns,
                tried <- {a.report.id : a \in attempts},
                counted <- rows
ReportedOnce == Promise!Spec
=============================================================================
