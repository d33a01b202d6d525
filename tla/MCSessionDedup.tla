--------------------------- MODULE MCSessionDedup ---------------------------
(***************************************************************************)
(* Two invocations at a time.  One command with two different outputs, to  *)
(* see an output replaced and come back; or two commands for one place in  *)
(* the store, to see it pruned.  Three runs are what it takes to store a   *)
(* text, replace it and repeat one of them; the clock reaches one tick     *)
(* past the window, so entries are met fresh, at the edge and expired.     *)
(***************************************************************************)
EXTENDS SessionDedup, TLC

MCTtl == [k \in Keys |-> 1]
MCLongTtl == [k \in Keys |-> 2]

\* No definition tells one process, or one text, from another.
Perms == Permutations(Procs) \cup Permutations(Texts)
=============================================================================
