---------------------------- MODULE MCSharedFiles ----------------------------
(***************************************************************************)
(* Two files that processes of ctx share without a lock, each on its own:  *)
(* the rollup.json of a project (RollupCache) and telemetry-state.json     *)
(* (Telemetry).  A behaviour is one of one of them, and the other stands   *)
(* still.                                                                  *)
(*                                                                         *)
(* Two readers over a history of up to two writes: enough for a row to     *)
(* land before, between and after the stat, the count, the rebuild and the *)
(* save of one reader while the other does any of them; a torn line and    *)
(* the row it swallows, which leaves the line count as it was; and one     *)
(* removal of the directory under both.                                    *)
(*                                                                         *)
(* Two dispatches, side by side or one after the other, the second inside  *)
(* the window of the first or at its edge: a window of one tick has both.  *)
(***************************************************************************)
EXTENDS RollupCache, Telemetry, TLC

VARIABLE area

\* No definition tells one process, or one row, from another.
Perms == Permutations(Procs) \cup Permutations(Rows) \cup Permutations(Senders)

MCInit ==
    /\ area \in {"rollup", "telemetry"}
    /\ Init /\ TelemetryInit
    /\ area = "rollup" => /\ built = [endpoint |-> FALSE, default |-> FALSE]
                          /\ config = None /\ state = None

MCNext ==
    \/ area = "rollup" /\ Next /\ UNCHANGED <<area, telemetryVars>>
    \/ area = "telemetry" /\ TelemetryNext /\ UNCHANGED <<area, vars>>

MCSpec == MCInit /\ [][MCNext]_<<area, vars, telemetryVars>>
=============================================================================
