-------------------------- MODULE TelemetryPromise --------------------------
(***************************************************************************)
(* What the table of reports means to those who sum it (ADR 0004): each    *)
(* dispatch hands in one report at most and is counted at most once, and   *)
(* only after it was handed in.                                            *)
(***************************************************************************)
EXTENDS Naturals

CONSTANT Ids \* the runIds

VARIABLES
    tried,   \* the runIds handed in
    counted  \* how often each is in the table

tvars == <<tried, counted>>

Init == tried = {} /\ counted = [i \in Ids |-> 0]

Try(i) ==
    /\ i \notin tried
    /\ tried' = tried \cup {i}
    /\ UNCHANGED counted

Count(i) ==
    /\ i \in tried /\ counted[i] = 0
    /\ counted' = [counted EXCEPT ![i] = 1]
    /\ UNCHANGED tried

Next == \E i \in Ids : Try(i) \/ Count(i)

Spec == Init /\ [][Next]_tvars
=============================================================================
