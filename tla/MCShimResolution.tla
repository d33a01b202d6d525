-------------------------- MODULE MCShimResolution --------------------------
(***************************************************************************)
(* Two installations with the same PATH that spells the directory of the   *)
(* wrappers in another way, and then the wrapped command.                  *)
(***************************************************************************)
EXTENDS ShimResolution

\* Bound: the second program is there for its name only.
MCInit == ShimInit /\ files["grep"] = [a |-> "none", b |-> "exec"]
MCSpec == MCInit /\ [][ShimNext]_shimVars
=============================================================================
