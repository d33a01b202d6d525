---------------------------- MODULE MCUserFiles ----------------------------
(***************************************************************************)
(* The two parts of ctx that write files of the user, side by side: a      *)
(* behaviour is one of Optimize or one of Install, and the other part      *)
(* stands still.                                                           *)
(***************************************************************************)
EXTENDS Optimize, Install, TLC

VARIABLE area

Perms == Permutations(Procs)

\* The machines ctx is installed on: bare, lived in (with a shell file whose last line has its
\* end or not), and one with broken files.
NoText == text = [f \in TextFiles |-> Absent]
Bare == /\ NoText /\ settings = {"absent"}
        /\ hooks = [claude |-> {"absent"}, copilot |-> "absent", repo |-> "absent"]
Lived == /\ text \in {[f \in TextFiles |-> IF f \in {"rc", "homeMd"} THEN l ELSE <<"a", "nl">>] :
                          l \in {<<"a", "nl">>, <<"a">>}}
         /\ hooks = [claude |-> {"user", "rtk"}, copilot |-> "absent", repo |-> "foreign"]
         /\ settings = {"userPath", "comments"}
Broken == /\ NoText /\ settings = {"malformed"}
          /\ hooks = [claude |-> {"malformed"}, copilot |-> "foreign", repo |-> "absent"]
\* Bound: the hosts beside the one that is live.
Hosted == env.copilot => env.code
Alone == env = [live |-> "none", copilot |-> FALSE, code |-> FALSE, copilotDir |-> FALSE]

\* Bound: of two restores and two --backup only one pair at a time.
OneOfAKind == \A j \in {"restore", "backup"} : Cardinality({p \in Procs : proc[p].job = j}) < 2

MCInit ==
    /\ doc = [f \in Files |-> [body |-> Blank, key |-> "absent"]]
    /\ (area = "optimize" /\ Bare) \/ (area = "install" /\ (Bare \/ Lived \/ Broken))
    /\ Init /\ InstallInit
    /\ IF area = "optimize" THEN Alone ELSE Hosted

MCNext ==
    \/ area = "optimize" /\ Next /\ UNCHANGED <<area, installVars>>
    \/ area = "install" /\ InstallNext /\ UNCHANGED <<area, vars>>

MCSpec == MCInit /\ [][MCNext]_<<area, vars, installVars>>
=============================================================================
