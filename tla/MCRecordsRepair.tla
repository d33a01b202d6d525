--------------------------- MODULE MCRecordsRepair ---------------------------
(***************************************************************************)
(* One project in up to two spellings, a row in its history and one in     *)
(* another ledger, each recorded before or during the repair; two repairs, *)
(* one after the other, which is what it takes to see what a failed one    *)
(* leaves to the next, or side by side.                                    *)
(***************************************************************************)
EXTENDS RecordsRepair, TLC

CONSTANTS p1, r1, r2

MCProjectOf == [r \in Rows |-> p1]
MCLedgerOf == r1 :> 1 @@ r2 :> 2
Perms == Permutations(Doctors)
=============================================================================
