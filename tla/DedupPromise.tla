---------------------------- MODULE DedupPromise ----------------------------
(***************************************************************************)
(* What session dedup promises the reader (ADR 0009), with no store, no    *)
(* lock and no process in sight: output is either delivered in full and    *)
(* remembered, or suppressed, and it may be suppressed only if the same    *)
(* text was delivered in full for the same command inside the freshness    *)
(* window, and the reader is pointed at a snapshot of exactly that text.   *)
(***************************************************************************)
EXTENDS Integers

CONSTANTS
    Keys,    \* normalised commands
    Texts,   \* raw outputs
    Ttl      \* freshness window of each command

VARIABLES
    memory,  \* outputs delivered in full: [key, text, at]
    answers, \* suppressed repeats: [key, text, at, since, pointer]
    snaps    \* the text of every snapshot ever taken, by number

pvars == <<memory, answers, snaps>>

Init == memory = {} /\ answers = {} /\ snaps = <<>>

Deliver(m) ==
    /\ memory' = memory \cup {m}
    /\ UNCHANGED <<answers, snaps>>

\* May a run of command a.key at time a.at be answered with "unchanged"?
Justified(a) ==
    /\ \E m \in memory : /\ m.key = a.key /\ m.text = a.text
                         /\ a.at - m.at <= Ttl[a.key]
    /\ a.pointer \in DOMAIN snaps /\ snaps[a.pointer] = a.text

Suppress(a) ==
    /\ Justified(a)
    /\ answers' = answers \cup {a}
    /\ UNCHANGED <<memory, snaps>>

\* A snapshot once taken keeps its text.
TakeSnapshot ==
    /\ DOMAIN snaps \subseteq DOMAIN snaps'
    /\ \A i \in DOMAIN snaps : snaps'[i] = snaps[i]
    /\ UNCHANGED <<memory, answers>>

Next ==
    \/ \E m \in memory' \ memory : Deliver(m)
    \/ \E a \in answers' \ answers : Suppress(a)
    \/ TakeSnapshot

Spec == Init /\ [][Next]_pvars
=============================================================================
