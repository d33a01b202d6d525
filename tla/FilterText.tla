----------------------------- MODULE FilterText -----------------------------
(***************************************************************************)
(* What the filters of handlers/ have in common.  What a tool printed is a *)
(* record r: the form in which it was asked, its exit code, and the lines  *)
(* of its standard output and error, each line by its kind.  A filter is   *)
(* an operator from r to a reply: which lines the reader is shown (as they *)
(* are, shortened, or folded into a line that stands for them), what the   *)
(* reply says of the rest, and what it declares to have left out.          *)
(***************************************************************************)
EXTENDS Naturals, Sequences, FiniteSets

CONSTANTS
    Budget,  \* lines that stand for the budget of tokens of a listing
    Cap      \* the cap on a list: 3, 5, 10, 25, 200 lines in the code

ASSUME BudgetAssumption == Budget \in Nat /\ Cap \in Nat

Lines(r) == r.out \o r.err
All(r) == DOMAIN Lines(r)
Of(r, kinds) == {i \in All(r) : Lines(r)[i] \in kinds}
\* Standard output, or standard error if that is empty.
Either(r) == IF r.out = <<>> THEN All(r) ELSE DOMAIN r.out
Out(r) == DOMAIN r.out
Has(r, kinds) == Of(r, kinds) # {}

\* says: "ok" (it worked), "clean" (nothing was found), "count" (how much there was).
Shows(s) == [shown |-> s, says |-> "nothing", omission |-> "none", more |-> FALSE]
Says(v, s) == [Shows(s) EXCEPT !.says = v]
Whole(r) == Shows(All(r))
Plus(reply, s) == [reply EXCEPT !.shown = @ \cup s]

\* The first n of a set of lines, and a list that ends in "... +N more".
FirstOf(s, n) == {i \in s : Cardinality({j \in s : j <= i}) <= n}
LastOf(s, n) == {i \in s : Cardinality({j \in s : j >= i}) <= n}
Listed(s, n) == [Shows(FirstOf(s, n)) EXCEPT !.more = Cardinality(s) > n]

\* overBudgetLadder: all of it, a digest that fits, or a summary instead.
Fits(reply) == Cardinality(reply.shown) <= Budget
\* The slip of cutting the list where the budget ends.
BudgetCut(full, digest, summary) ==
    IF Fits(full) THEN full ELSE [full EXCEPT !.shown = FirstOf(@, Budget)]
Budgeted(full, digest, summary) ==
    IF Fits(full) THEN full
    ELSE IF Fits(digest) THEN [digest EXCEPT !.omission = "digest"]
    ELSE [summary EXCEPT !.omission = "replacement"]
\* A listing without a step in between.
Listing(full, summary) == Budgeted(full, full, summary)
Count == Says("count", {})
=============================================================================
