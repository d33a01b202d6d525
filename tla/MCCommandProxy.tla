--------------------------- MODULE MCCommandProxy ---------------------------
(***************************************************************************)
(* One handler per way of executing and per set of gate traits:            *)
(*   "ladder"  one child, declares its omissions, opts in to dedup (rg)    *)
(*   "env"     one child, masks and restructures                           *)
(*   "gitAdd"  a second child after a clean first one                      *)
(*   "tree"    rerun on rejected flags, no declarations, opts in to dedup  *)
(*   "deps"    answers from the file system, restructures                  *)
(* The sizes straddle the thresholds of the code: 0 (blank), 201 (the      *)
(* smallest text with a budget, which is 80: a view of 281 still fits, one *)
(* of 282 is inflation; too small for dedup) and 20001 (the smallest that  *)
(* is snapshotted of its own accord; large enough for dedup).              *)
(***************************************************************************)
EXTENDS CommandProxy

MCHandlers == {"ladder", "env", "gitAdd", "tree", "deps"}
MCStructural == {"env", "deps"}
MCMasking == {"env"}
MCLadder == {"ladder"}
MCAuxSpawn == {"gitAdd"}
MCRespawn == {"tree"}
MCInternal == {"deps"}
MCCacheable == {"ladder", "tree"}
=============================================================================
