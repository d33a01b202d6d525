--------------------------- MODULE FiltersProofs ---------------------------
(***************************************************************************)
(* Proofs about the filters of the handlers and the gate behind them: that *)
(* evidence is shown or can be found (EvidenceKept), and that a verdict is *)
(* earned (VerdictEarned), for everything the tools may print (Printed),   *)
(* of any length.                                                          *)
(*                                                                         *)
(* What the gate needs to know of a filter is stated once (Keeps, Earns),  *)
(* and shown of each filter in turn.                                       *)
(***************************************************************************)
EXTENDS Filters, FiniteSetTheorems, SequenceTheorems, WellFoundedInduction, TLAPS

-----------------------------------------------------------------------------
(* The lines of two streams *)

\* The lines of in are of the kinds A on standard output and B on standard error.
Streams(in, A, B) ==
    /\ Out(in) \subseteq All(in)
    /\ \A i \in Out(in) : Lines(in)[i] \in A
    /\ \A i \in All(in) \ Out(in) : Lines(in)[i] \in B
    /\ Either(in) = IF Out(in) = {} THEN All(in) ELSE Out(in)
    /\ in.out = <<>> <=> Out(in) = {}
    /\ in.err = <<>> => All(in) = Out(in)

\* The lines have the numbers from 1 on, first those on standard output.
Numbered(in) ==
    /\ All(in) \subseteq Nat /\ 0 \notin All(in) /\ IsFiniteSet(All(in))
    /\ \A i, j : i \in Out(in) /\ j \in 1 .. i => j \in Out(in) /\ j <= i
    /\ \A i, j : i \in All(in) /\ j \in 1 .. i => j \in All(in) /\ j <= i
    /\ All(in) # {} => 1 \in All(in)

LEMMA Joined ==
    ASSUME NEW A, NEW B, NEW s \in Seq(A), NEW e \in Seq(B)
    PROVE  /\ Len(s) \in Nat /\ Len(e) \in Nat /\ DOMAIN s = 1 .. Len(s)
           /\ DOMAIN (s \o e) = 1 .. Len(s) + Len(e)
           /\ \A i \in 1 .. Len(s) : (s \o e)[i] = s[i] /\ s[i] \in A
           /\ \A i \in Len(s) + 1 .. Len(s) + Len(e) : (s \o e)[i] \in B
           /\ (s = <<>> <=> Len(s) = 0) /\ (e = <<>> => Len(e) = 0)
<1>1. /\ Len(s) \in Nat /\ Len(e) \in Nat /\ DOMAIN s = 1 .. Len(s)
      /\ \A i \in 1 .. Len(s) : s[i] \in A
      /\ \A i \in 1 .. Len(e) : e[i] \in B
  BY LenProperties, ElementOfSeq
<1>2. s \in Seq(A \cup B) /\ e \in Seq(A \cup B)
  BY SeqMonotonic
<1>3. /\ s \o e \in Seq(A \cup B) /\ Len(s \o e) = Len(s) + Len(e)
      /\ \A i \in 1 .. Len(s) + Len(e) : (s \o e)[i] = IF i <= Len(s) THEN s[i] ELSE e[i - Len(s)]
  BY <1>2, ConcatProperties
<1>4. DOMAIN (s \o e) = 1 .. Len(s) + Len(e)
  BY <1>3, LenProperties
<1>5. (s = <<>> <=> Len(s) = 0) /\ (e = <<>> => Len(e) = 0)
  BY EmptySeq
<1>6. \A i \in Len(s) + 1 .. Len(s) + Len(e) : i - Len(s) \in 1 .. Len(e) /\ ~(i <= Len(s)) /\ i \in 1 .. Len(s) + Len(e)
  BY <1>1
<1>7. QED
  BY <1>1, <1>3, <1>4, <1>5, <1>6

LEMMA StreamsOf ==
    ASSUME NEW in, NEW A, NEW B, in.out \in Seq(A), in.err \in Seq(B)
    PROVE  /\ Streams(in, A, B) /\ Numbered(in)
           /\ Out(in) = 1 .. Len(in.out) /\ Len(in.out) \in Nat
           /\ \A i \in Out(in) : Lines(in)[i] = in.out[i]
<1>1. PICK s, e : s = in.out /\ e = in.err
  OBVIOUS
<1>2. s \in Seq(A) /\ e \in Seq(B)
  BY <1>1
<1>3. Lines(in) = s \o e /\ Out(in) = DOMAIN s /\ All(in) = DOMAIN (s \o e)
  BY <1>1 DEF Lines, Out, All
<1> DEFINE m == Len(s)  n == Len(e)
<1>4. /\ m \in Nat /\ n \in Nat
      /\ Out(in) = 1 .. m /\ All(in) = 1 .. m + n
      /\ \A i \in 1 .. m : Lines(in)[i] = s[i] /\ s[i] \in A
      /\ \A i \in m + 1 .. m + n : Lines(in)[i] \in B
      /\ (s = <<>> <=> m = 0) /\ (e = <<>> => n = 0)
  BY <1>2, <1>3, Joined
<1> HIDE DEF m, n
<1>5. Either(in) = IF Out(in) = {} THEN All(in) ELSE Out(in)
  <2>1. Either(in) = IF s = <<>> THEN All(in) ELSE Out(in)
    BY <1>1, <1>3 DEF Either
  <2>2. s = <<>> <=> Out(in) = {}
    BY <1>4
  <2>3. QED
    BY <2>1, <2>2
<1>6. IsFiniteSet(All(in))
  BY <1>4, FS_Interval
<1>7. /\ Out(in) \subseteq All(in) /\ All(in) \subseteq Nat /\ 0 \notin All(in)
      /\ \A i, j : i \in Out(in) /\ j \in 1 .. i => j \in Out(in) /\ j <= i
      /\ \A i, j : i \in All(in) /\ j \in 1 .. i => j \in All(in) /\ j <= i
      /\ All(in) # {} => 1 \in All(in)
  BY <1>4
<1>8. (in.out = <<>> <=> Out(in) = {}) /\ (in.err = <<>> => All(in) = Out(in))
  BY <1>1, <1>4
<1>9. /\ \A i \in Out(in) : Lines(in)[i] \in A
      /\ \A i \in All(in) \ Out(in) : Lines(in)[i] \in B
  BY <1>4
<1>10. Streams(in, A, B) /\ Numbered(in)
  BY <1>5, <1>6, <1>7, <1>8, <1>9 DEF Streams, Numbered
<1>11. QED
  BY <1>1, <1>4, <1>10 DEF m

-----------------------------------------------------------------------------
(* The gate *)

EvidenceOf(in) == Of(in, Evidence) \cap Either(in)
Silent(f) == f.shown = {} /\ f.says = "nothing" /\ ~f.more

\* A reply f that loses no evidence behind the gate: it shows all of it, or declares what
\* it left out, or is one that the gate sends back.
Kept(t, in, f) ==
    \/ EvidenceOf(in) \ SkippedBy(t, in) \subseteq f.shown
    \/ f.omission = "replacement"
    \/ /\ f.omission = "digest"
       /\ t \in Shortening \/ EvidenceOf(in) \ (SkippedBy(t, in) \cup Mistaken(in)) \subseteq f.shown
    \/ f.omission = "none" /\ Silent(f)
    \/ f.omission = "none" /\ f.more /\ t \notin Masking \cup Declaring
ExcusedFor(t, in) ==
    \/ t = "type" /\ in.ask \in {"head", "tail", "aggressive"}
    \/ t = "git" /\ in.exit # 0 /\ Has(in, Benign)
Keeps(t, in) == t \notin Selective /\ ~ExcusedFor(t, in) => Kept(t, in, Filter(t, in))

\* A reply whose verdict is earned.
Earned(in, f) ==
    f.says \in {"ok", "clean"} =>
        /\ Of(in, {"err", "fail", "bad"}) \subseteq f.shown \/ Has(in, Benign)
        /\ \/ in.exit = 0 \/ All(in) = {}
           \/ Has(in, Benign \cup {"err", "fail", "bad"})
Earns(t, in) == t \notin Credulous => Earned(in, Filter(t, in))

\* makeFilteredResult: what becomes of a reply.  A replacement without a snapshot is taken
\* back; of a handler that masks, only its full listing is shipped instead.
LEMMA GateKeeps ==
    ASSUME NEW t, NEW in, NEW f, Kept(t, in, f), All(in) # {},
           NEW save, NEW diskOk \in BOOLEAN, NEW grows \in BOOLEAN
    PROVE  LET a == Gate!GateResult(t, RawText(in), View(in, f, grows), save, diskOk)
           IN  \/ a.content = "raw" \/ a.pointer
               \/ a.content = "safeFull" /\ t \in Masking /\ f.omission = "replacement"
               \/ a.content = "filtered" /\ EvidenceOf(in) \ SkippedBy(t, in) \subseteq f.shown
               \/ /\ a.content = "filtered" /\ a.omission = "digest"
                  /\ t \in Shortening \/ EvidenceOf(in) \ (SkippedBy(t, in) \cup Mistaken(in)) \subseteq f.shown
<1> DEFINE raw == RawText(in)
           view == View(in, f, grows)
           a == Gate!GateResult(t, raw, view, save, diskOk)
           saved == Gate!SnapshotTaken(t, raw, view, save, diskOk)
           initial == Gate!InitialStatus(t, raw, view)
           declared == Gate!Declared(t, raw, view)
<1>1. /\ raw.len = 1000
      /\ view.len = 0 <=> Silent(f)
      /\ ~Silent(f) => view.len > 0
      /\ view.omission = f.omission /\ view.marker = f.more /\ view.safeFull = TRUE
  BY DEF RawText, View, Size, Silent, Gate!InflationBudget
<1>2. saved \in BOOLEAN
  BY DEF Gate!SnapshotTaken
<1>3. initial \in {"passed", "inflated", "empty_output"}
  BY DEF Gate!InitialStatus
<1>4. declared <=> f.omission # "none" /\ initial = "passed"
  BY <1>1 DEF Gate!Declared
<1>5. ASSUME initial = "passed" PROVE ~Silent(f) /\ ~(f.omission = "none" /\ f.more /\ t \notin Masking \cup Declaring)
  <2>1. ~(view.len = 0 /\ raw.len > 0) /\ ~Gate!UndeclaredOmission(t, raw, view)
    BY <1>5 DEF Gate!InitialStatus
  <2>2. ~Silent(f) /\ view.len > 0
    BY <1>1, <2>1
  <2>3. QED
    BY <1>1, <2>1, <2>2 DEF Gate!UndeclaredOmission
<1> DEFINE lost == declared /\ f.omission = "replacement" /\ ~saved
<1>6. /\ a.content = IF lost /\ t \in Masking THEN "safeFull"
                     ELSE IF ~lost /\ initial = "passed" THEN "filtered" ELSE "raw"
      /\ a.pointer = saved
      /\ a.omission = IF declared /\ ~lost THEN f.omission ELSE "none"
  BY <1>1, <1>3 DEF Gate!GateResult
<1> HIDE DEF a, raw, view, saved, initial, declared
<1>7. QED
  BY <1>2, <1>3, <1>4, <1>5, <1>6 DEF Kept, a, raw, view

-----------------------------------------------------------------------------
(* What a tool printed *)

Reads(in, f) == in.ask \in f.asks /\ in.exit \in f.exits /\ Streams(in, f.out, f.err)

\* A line of evidence is one of standard output, or there is none of that.
Heeds(in, A, B) ==
    \A i \in EvidenceOf(in) : /\ i \in All(in) /\ Lines(in)[i] \in Evidence
                             /\ \/ i \in Out(in) /\ Lines(in)[i] \in A
                                \/ Out(in) = {} /\ Lines(in)[i] \in B

LEMMA Heeded ==
    ASSUME NEW in, NEW A, NEW B, Streams(in, A, B) PROVE Heeds(in, A, B)
  BY DEF Streams, EvidenceOf, Of, Heeds

LEMMA Forming ==
    ASSUME NEW in, NEW asks, NEW exits, NEW A, NEW B, Reads(in, Form(asks, exits, A, B))
    PROVE  in.ask \in asks /\ in.exit \in exits /\ Streams(in, A, B) /\ Heeds(in, A, B)
<1> DEFINE f == Form(asks, exits, A, B)
<1>1. f.asks = asks /\ f.exits = exits /\ f.out = A /\ f.err = B
  BY DEF Form
<1> HIDE DEF f
<1>2. QED
  BY <1>1, Heeded DEF Reads, f

\* A tool that worked reports no error on standard error.
Quiet(in) == in.exit = 0 => \A i \in All(in) : i \in Out(in) \/ Lines(in)[i] \notin {"err", "error", "norepo"}

LEMMA Printing ==
    ASSUME NEW t, NEW in, Printed(t, in)
    PROVE  /\ \E f \in Forms(t) : Reads(in, f)
           /\ Numbered(in)
           /\ Quiet(in)
           /\ in.exit # 0 => ~Has(in, {"clean"})
           /\ Placed(t, in.out)
           /\ Len(in.out) \in Nat /\ Out(in) = 1 .. Len(in.out)
           /\ \A i \in Out(in) : Lines(in)[i] = in.out[i]
<1>1. PICK f \in Forms(t) : in.ask \in f.asks /\ in.exit \in f.exits
                            /\ in.out \in Seq(f.out) /\ in.err \in Seq(f.err)
  BY DEF Printed
<1>2. /\ Streams(in, f.out, f.err) /\ Numbered(in) /\ Len(in.out) \in Nat /\ Out(in) = 1 .. Len(in.out)
      /\ \A i \in Out(in) : Lines(in)[i] = in.out[i]
  BY <1>1, StreamsOf
<1>3. Quiet(in)
  BY DEF Printed, Of, Quiet
<1>4. QED
  BY <1>1, <1>2, <1>3 DEF Printed, Reads

\* The same of a tool with one form, and with two.
LEMMA OneForm ==
    ASSUME NEW t, NEW in, Printed(t, in),
           NEW asks, NEW exits, NEW A, NEW B, Forms(t) = {Form(asks, exits, A, B)}
    PROVE  in.ask \in asks /\ in.exit \in exits /\ Streams(in, A, B) /\ Heeds(in, A, B)
<1>1. Reads(in, Form(asks, exits, A, B))
  BY Printing
<1>2. QED
  BY <1>1, Forming

LEMMA TwoForms ==
    ASSUME NEW t, NEW in, Printed(t, in),
           NEW asks, NEW exits, NEW A, NEW B, NEW asks2, NEW exits2, NEW A2, NEW B2,
           Forms(t) = {Form(asks, exits, A, B), Form(asks2, exits2, A2, B2)}
    PROVE  \/ in.ask \in asks /\ in.exit \in exits /\ Streams(in, A, B) /\ Heeds(in, A, B)
           \/ in.ask \in asks2 /\ in.exit \in exits2 /\ Streams(in, A2, B2) /\ Heeds(in, A2, B2)
<1>1. Reads(in, Form(asks, exits, A, B)) \/ Reads(in, Form(asks2, exits2, A2, B2))
  BY Printing
<1>2. QED
  BY <1>1, Forming

LEMMA NoLines == Cardinality({}) <= 1 /\ Cardinality({}) <= Budget /\ Cardinality({}) <= Cap
  BY FS_EmptySet, BudgetAssumption

-----------------------------------------------------------------------------
(* Replies *)

\* f is a reply with these fields.
Is(f, shown, says, omission, more) ==
    /\ DOMAIN f = {"shown", "says", "omission", "more"}
    /\ f.shown = shown /\ f.says = says /\ f.omission = omission /\ (f.more <=> more)

LEMMA Replies ==
    /\ \A s : Is(Shows(s), s, "nothing", "none", FALSE)
    /\ \A v, s : Is(Says(v, s), s, v, "none", FALSE)
    /\ \A in : Is(Whole(in), All(in), "nothing", "none", FALSE)
    /\ \A s, n : Is(Listed(s, n), FirstOf(s, n), "nothing", "none", Cardinality(s) > n)
<1>1. \A s : Is(Shows(s), s, "nothing", "none", FALSE)
  BY DEF Is, Shows
<1>2. \A v, s : Is(Says(v, s), s, v, "none", FALSE)
  BY DEF Is, Shows, Says
<1>3. \A in : Is(Whole(in), All(in), "nothing", "none", FALSE)
  BY <1>1 DEF Whole
<1>4. \A s, n : Is(Listed(s, n), FirstOf(s, n), "nothing", "none", Cardinality(s) > n)
  BY DEF Is, Shows, Listed
<1>5. QED
  BY <1>1, <1>2, <1>3, <1>4

LEMMA Budgets ==
    ASSUME NEW fs, NEW fv, NEW full, Is(full, fs, fv, "none", FALSE),
           NEW ds, NEW dv, NEW digest, Is(digest, ds, dv, "none", FALSE),
           NEW ss, NEW sv, NEW summary, Is(summary, ss, sv, "none", FALSE)
    PROVE  \/ Is(Budgeted(full, digest, summary), fs, fv, "none", FALSE)
           \/ Is(Budgeted(full, digest, summary), ds, dv, "digest", FALSE)
           \/ Is(Budgeted(full, digest, summary), ss, sv, "replacement", FALSE)
  BY DEF Is, Budgeted

LEMMA Listings ==
    ASSUME NEW fs, NEW fv, NEW full, Is(full, fs, fv, "none", FALSE),
           NEW ss, NEW sv, NEW summary, Is(summary, ss, sv, "none", FALSE)
    PROVE  \/ Is(Listing(full, summary), fs, fv, "none", FALSE)
           \/ Is(Listing(full, summary), fs, fv, "digest", FALSE)
           \/ Is(Listing(full, summary), ss, sv, "replacement", FALSE)
  BY Budgets DEF Listing

LEMMA Shortened ==
    ASSUME NEW x, NEW y, NEW z
    PROVE  LET b == Budgeted(Shows(x), Shows(y), Says("count", z))
           IN  \/ Is(b, x, "nothing", "none", FALSE) \/ Is(b, y, "nothing", "digest", FALSE)
               \/ Is(b, z, "count", "replacement", FALSE)
  BY Budgets, Replies

LEMMA ShortenedSays ==
    \A u, v, w : Budgeted(Shows(u), Shows(v), Says("count", w)).says \in {"nothing", "count"}
  BY Shortened DEF Is

LEMMA Counted ==
    ASSUME NEW x, NEW y
    PROVE  LET b == Budgeted(Says("count", x), Says("count", y), Count)
           IN  \/ Is(b, x, "count", "none", FALSE) \/ Is(b, y, "count", "digest", FALSE)
               \/ Is(b, {}, "count", "replacement", FALSE)
  BY Budgets, Replies DEF Count

LEMMA Pluses ==
    ASSUME NEW f, NEW s, NEW v, NEW o, NEW m, Is(f, s, v, o, m), NEW x
    PROVE  Is(Plus(f, x), s \cup x, v, o, m)
  BY DEF Is, Plus

-----------------------------------------------------------------------------
(* The filters that show all there is *)

\* What a lemma about a filter says of it.
Good(t, in, f) == /\ ~ExcusedFor(t, in) => Kept(t, in, f)
                  /\ Earned(in, f)

LEMMA WholeGood ==
    ASSUME NEW t, NEW in PROVE Good(t, in, Whole(in))
  BY Replies DEF Good, Kept, Earned, Is, EvidenceOf, Of

LEMMA EitherGood ==
    ASSUME NEW t, NEW in PROVE Good(t, in, Shows(Either(in)))
  BY Replies DEF Good, Kept, Earned, Is, EvidenceOf, Of

\* Standard output alone; if it is empty, the gate sends the reply back.
LEMMA OutGood ==
    ASSUME NEW t, NEW in, NEW A, NEW B, Streams(in, A, B) PROVE Good(t, in, Shows(Out(in)))
  BY Replies DEF Good, Kept, Earned, Is, EvidenceOf, Of, Streams, Silent

\* Where there is no evidence, and the tool worked, any reply will do.
LEMMA WorkedGood ==
    ASSUME NEW t, NEW in, NEW A, NEW B, Streams(in, A, B), Heeds(in, A, B), Quiet(in), in.exit = 0,
           A \cap Evidence = {}, B \cap Evidence \subseteq {"err"}, NEW f
    PROVE  Good(t, in, f)
<1>1. \A i \in All(in) : Lines(in)[i] \notin {"err", "fail", "bad"}
  BY DEF Streams, Quiet, Evidence
<1>2. EvidenceOf(in) = {}
  BY DEF Heeds, Quiet
<1>3. Of(in, {"err", "fail", "bad"}) = {}
  BY <1>1 DEF Of
<1>4. QED
  BY <1>2, <1>3 DEF Good, Kept, Earned

-----------------------------------------------------------------------------
(* Diffs *)

\* Every changed line stands in a hunk of a file.
Hunked(in) ==
    \A i \in Out(in) : Lines(in)[i] \in ChangedLines =>
        \E f, h \in Out(in) : /\ f < h /\ h < i /\ f \in 1 .. f /\ f \in 1 .. h /\ f \in 1 .. i
                              /\ Lines(in)[f] = "file" /\ Lines(in)[h] = "hunk"
                              /\ \A j \in f + 1 .. i : Lines(in)[j] # "file"
                              /\ \A j \in h + 1 .. i : Lines(in)[j] # "boiler"

LEMMA Hunking ==
    ASSUME NEW in, InHunks(in.out), Len(in.out) \in Nat, Out(in) = 1 .. Len(in.out),
           \A i \in Out(in) : Lines(in)[i] = in.out[i]
    PROVE  Hunked(in)
<1> SUFFICES ASSUME NEW i \in Out(in), Lines(in)[i] \in ChangedLines
             PROVE  \E f, h \in Out(in) : /\ f < h /\ h < i /\ f \in 1 .. f /\ f \in 1 .. h /\ f \in 1 .. i
                                          /\ Lines(in)[f] = "file" /\ Lines(in)[h] = "hunk"
                                          /\ \A j \in f + 1 .. i : Lines(in)[j] # "file"
                                          /\ \A j \in h + 1 .. i : Lines(in)[j] # "boiler"
  BY DEF Hunked
<1>1. i \in 1 .. Len(in.out) /\ in.out[i] \in ChangedLines
  OBVIOUS
<1>2. PICK f, h \in 1 .. i : /\ f < h /\ in.out[f] = "file" /\ in.out[h] = "hunk"
                             /\ \A j \in f + 1 .. i : in.out[j] # "file"
                             /\ \A j \in h + 1 .. i : in.out[j] # "boiler"
  BY <1>1 DEF InHunks
<1>3. f \in Out(in) /\ h \in Out(in) /\ h < i /\ f \in 1 .. f /\ f \in 1 .. h /\ f \in 1 .. i
  BY <1>1, <1>2 DEF ChangedLines
<1>4. \A j \in f + 1 .. i : j \in Out(in)
  BY <1>1, <1>2
<1>5. \A j \in h + 1 .. i : j \in Out(in)
  BY <1>1, <1>2
<1>6. QED
  BY <1>2, <1>3, <1>4, <1>5

LEMMA HunksOfDiffs ==
    ASSUME NEW t \in {"git diff", "git show", "git log", "diff"}, NEW in, Printed(t, in)
    PROVE  Hunked(in)
<1>1. InHunks(in.out)
  BY DEF Printed, Placed
<1>2. QED
  BY <1>1, Printing, Hunking

LEMMA Compacts ==
    ASSUME NEW in, NEW s
    PROVE  \/ Is(CompactDiff(in, s), Parsed(in, s), "nothing", "none", FALSE)
           \/ Is(CompactDiff(in, s), Parsed(in, s) \cap Of(in, {"file", "rename", "hunk", "change"}),
                 "nothing", "digest", FALSE)
           \/ \E ss : Is(CompactDiff(in, s), ss, "count", "replacement", FALSE)
<1> DEFINE files == Says("count", Changed(in, s))
           digest == Parsed(in, s) \cap Of(in, {"file", "rename", "hunk", "change"})
           summary == IF Fits(files) THEN files ELSE Count
<1>1. \E ss : Is(summary, ss, "count", "none", FALSE)
  BY Replies DEF Count
<1>2. CompactDiff(in, s) = Budgeted(Shows(Parsed(in, s)), Shows(digest), summary)
  BY DEF CompactDiff
<1> HIDE DEF digest, summary
<1>3. QED
  BY <1>1, <1>2, Budgets, Replies DEF digest

\* Of the hunks above a line there is a last one.
LEMMA LastHunk ==
    ASSUME NEW in, NEW i \in Nat, NEW h \in Nat, h < i, Lines(in)[h] = "hunk"
    PROVE  \E l \in h .. i : Lines(in)[l] = "hunk" /\ \A j \in l + 1 .. i : Lines(in)[j] # "hunk"
<1> DEFINE D == {d \in 0 .. i - h : Lines(in)[i - d] = "hunk"}
<1>1. D \subseteq Nat
  OBVIOUS
<1>2. i - h \in D
  <2>1. i - (i - h) = h /\ i - h \in 0 .. i - h
    OBVIOUS
  <2>2. QED
    BY <2>1
<1> HIDE DEF D
<1>3. PICK d \in D : \A e \in D : ~(<<e, d>> \in OpToRel(<, Nat))
  BY <1>1, <1>2, WFMin, NatLessThanWellFounded
<1>4. \A e \in D : ~(e < d)
  BY <1>1, <1>3 DEF OpToRel
<1>5. d \in 0 .. i - h /\ Lines(in)[i - d] = "hunk"
  BY DEF D
<1>6. ASSUME NEW j \in i - d + 1 .. i, Lines(in)[j] = "hunk" PROVE FALSE
  <2>1. i - j \in 0 .. i - h /\ i - (i - j) = j /\ i - j < d
    BY <1>5
  <2>2. i - j \in D
    BY <2>1, <1>6 DEF D
  <2>3. QED
    BY <2>1, <2>2, <1>4
<1>7. i - d \in h .. i
  BY <1>5
<1>8. QED
  BY <1>5, <1>6, <1>7

\* A changed line is among the lines that are parsed, if its file and its hunk are and it
\* is not skipped; the last hunk above it is the one it stands in.
LEMMA Parses ==
    ASSUME NEW in, NEW s, NEW i \in s, Lines(in)[i] \in ChangedLines, i \in Nat,
           i \in All(in) \ Skipped(in),
           NEW f \in s, f \in Nat, NEW h \in s, h \in Nat, f < h, h < i,
           Lines(in)[f] = "file", Lines(in)[h] = "hunk",
           \A j \in f + 1 .. i : Lines(in)[j] # "file",
           \A j \in h + 1 .. i : Lines(in)[j] # "boiler",
           \A j \in h .. i : j \in s
    PROVE  i \in Parsed(in, s)
<1>1. PICK l \in h .. i : /\ Lines(in)[l] = "hunk"
                          /\ \A j \in l + 1 .. i : Lines(in)[j] # "hunk"
  BY LastHunk
<1>2. l \in Nat /\ l \in s /\ h <= l /\ l <= i /\ f < l
  BY <1>1
<1>3. l < i
  BY <1>1, <1>2 DEF ChangedLines
<1>4. ASSUME NEW j \in l + 1 .. i PROVE Lines(in)[j] # "marked"
  <2>1. j \in 1 .. i /\ \A k \in j + 1 .. i : k \in l + 1 .. i
    BY <1>2
  <2>2. QED
    BY <2>1, <1>1 DEF Skipped
<1>5. \A j \in l + 1 .. i : Lines(in)[j] \notin {"file", "boiler", "marked"}
  <2>1. \A j \in l + 1 .. i : j \in f + 1 .. i /\ j \in h + 1 .. i
    BY <1>2
  <2>2. QED
    BY <2>1, <1>4
<1>6. i \in l + 1 .. i /\ \A j \in l + 1 .. i - 1 : j \in l + 1 .. i
  BY <1>2, <1>3
<1>7. InHunk(in, s, i)
  BY <1>1, <1>2, <1>3, <1>5, <1>6 DEF InHunk
<1>8. Lines(in)[i] \notin {"boiler", "marked"} /\ f <= i
  BY <1>2, <1>5, <1>6
<1>9. QED
  BY <1>7, <1>8 DEF Parsed

\* It is parsed where all that stands below the name of a file is.
LEMMA Standing ==
    ASSUME NEW in, Hunked(in), Numbered(in), Out(in) \subseteq All(in),
           NEW s \in SUBSET Out(in), \A j \in Out(in) : (\E f \in 1 .. j : Lines(in)[f] = "file") => j \in s,
           NEW i \in Out(in), Lines(in)[i] \in ChangedLines
    PROVE  i \in s /\ (i \notin Skipped(in) => i \in Parsed(in, s))
<1>1. PICK f, h \in Out(in) : /\ f < h /\ h < i /\ f \in 1 .. f /\ f \in 1 .. h /\ f \in 1 .. i
                              /\ Lines(in)[f] = "file" /\ Lines(in)[h] = "hunk"
                              /\ \A j \in f + 1 .. i : Lines(in)[j] # "file"
                              /\ \A j \in h + 1 .. i : Lines(in)[j] # "boiler"
  BY DEF Hunked
<1>2. f \in Nat /\ h \in Nat /\ i \in Nat
  BY DEF Numbered
<1>3. \A j \in h .. i : j \in 1 .. i /\ f \in 1 .. j
  BY <1>1, <1>2
<1>4. \A j \in 1 .. i : j \in Out(in)
  BY DEF Numbered
<1>5. \A j \in h .. i : j \in s
  BY <1>1, <1>3, <1>4
<1>6. f \in s /\ h \in s /\ i \in s
  BY <1>1
<1>7. ASSUME i \notin Skipped(in) PROVE i \in Parsed(in, s)
  BY <1>1, <1>2, <1>5, <1>6, <1>7, Parses
<1>8. QED
  BY <1>6, <1>7

\* A changed line that is not skipped is in the digest, or is one taken for context.
LEMMA UnlessMistaken ==
    ASSUME NEW in, NEW i \in All(in) \ Skipped(in), Lines(in)[i] \in ChangedLines, Numbered(in)
    PROVE  i \in Of(in, {"file", "rename", "hunk", "change"}) \cup Mistaken(in)
<1>1. i \in 1 .. i /\ i + 1 .. i = {}
  BY DEF Numbered
<1>2. Lines(in)[i] # "marked"
  BY <1>1 DEF Skipped
<1>3. QED
  BY <1>2 DEF ChangedLines, Of, Mistaken

LEMMA GitDiffGood ==
    ASSUME NEW in, Printed("git diff", in) PROVE Good("git diff", in, GitDiff(in))
<1>0. Forms("git diff") = {Form(P, Nat, {"file", "boiler"} \cup Hunks, {"err"})}
  BY DEF Forms
<1>1. /\ Streams(in, {"file", "boiler"} \cup Hunks, {"err"})
      /\ Heeds(in, {"file", "boiler"} \cup Hunks, {"err"})
  BY <1>0, OneForm
<1>2. Hunked(in)
  BY HunksOfDiffs
<1>3. CASE Of(in, {"file"}) \cap Either(in) = {}
  BY <1>3, EitherGood DEF GitDiff
<1>4. CASE Of(in, {"file"}) \cap Either(in) # {}
  <2>1. Either(in) = Out(in) /\ Out(in) # {}
    BY <1>1, <1>4 DEF Streams, Of
  <2>2. GitDiff(in) = CompactDiff(in, Out(in))
    BY <1>4, <2>1 DEF GitDiff
  <2>3. \A i \in EvidenceOf(in) : i \in Out(in) /\ Lines(in)[i] \in ChangedLines /\ i \in All(in)
    BY <1>1, <2>1 DEF Evidence, Heeds, Hunks, ChangedLines
  <2>4. \A i \in EvidenceOf(in) \ Skipped(in) :
            i \in Of(in, {"file", "rename", "hunk", "change"}) \cup Mistaken(in)
    BY <2>3, Printing, UnlessMistaken
  <2>5. \A i \in EvidenceOf(in) \ Skipped(in) : i \in Parsed(in, Out(in))
    BY <1>1, <1>2, <2>3, Printing, Standing DEF Streams
  <2>6. PICK s, v, o : /\ Is(GitDiff(in), s, v, o, FALSE)
                       /\ v \in {"nothing", "count"}
                       /\ \/ EvidenceOf(in) \ Skipped(in) \subseteq s
                          \/ o = "replacement"
                          \/ o = "digest" /\ EvidenceOf(in) \ (Skipped(in) \cup Mistaken(in)) \subseteq s
    <3> DEFINE s == Parsed(in, Out(in))
               d == s \cap Of(in, {"file", "rename", "hunk", "change"})
    <3>1. EvidenceOf(in) \ Skipped(in) \subseteq s /\ EvidenceOf(in) \ (Skipped(in) \cup Mistaken(in)) \subseteq d
      BY <2>4, <2>5
    <3>2. \/ Is(GitDiff(in), s, "nothing", "none", FALSE)
          \/ Is(GitDiff(in), d, "nothing", "digest", FALSE)
          \/ \E ss : Is(GitDiff(in), ss, "count", "replacement", FALSE)
      BY <2>2, Compacts
    <3> HIDE DEF s, d
    <3>3. QED
      BY <3>1, <3>2
  <2>7. SkippedBy("git diff", in) = Skipped(in)
    BY DEF SkippedBy
  <2>8. QED
    BY <2>6, <2>7 DEF Good, Kept, Earned, Is
<1>5. QED
  BY <1>3, <1>4

LEMMA GitShowGood ==
    ASSUME NEW in, Printed("git show", in) PROVE Good("git show", in, GitShow(in))
<1>0. Forms("git show") = {Form(P, Nat, {"commit", "meta", "body", "file"} \cup Hunks, {"err"}),
                           Form({"format"}, Nat, {"file", "body"}, {"err"})}
  BY DEF Forms
<1>1. \/ in.ask \in P /\ Streams(in, {"commit", "meta", "body", "file"} \cup Hunks, {"err"})
                       /\ Heeds(in, {"commit", "meta", "body", "file"} \cup Hunks, {"err"})
      \/ in.ask \in {"format"}
  <2>1. \/ Reads(in, Form(P, Nat, {"commit", "meta", "body", "file"} \cup Hunks, {"err"}))
        \/ Reads(in, Form({"format"}, Nat, {"file", "body"}, {"err"}))
    BY <1>0, Printing
  <2>2. QED
    BY <2>1, Forming
<1>2. Hunked(in)
  BY HunksOfDiffs
<1>3. ASSUME in.ask = "plain", Has(in, {"commit"})
      PROVE  /\ Either(in) = Out(in) /\ Out(in) \subseteq Nat /\ Out(in) \subseteq All(in)
             /\ \A i \in EvidenceOf(in) : i \in Out(in) /\ Lines(in)[i] \in ChangedLines /\ i \in All(in)
  <2>1. /\ Streams(in, {"commit", "meta", "body", "file"} \cup Hunks, {"err"})
        /\ Heeds(in, {"commit", "meta", "body", "file"} \cup Hunks, {"err"})
    BY <1>1, <1>3
  <2>2. Either(in) = Out(in) /\ Out(in) # {} /\ Out(in) \subseteq All(in)
    BY <2>1, <1>3 DEF Streams, Has, Of
  <2>3. \A i \in EvidenceOf(in) : i \in Out(in) /\ Lines(in)[i] \in ChangedLines /\ i \in All(in)
    BY <2>1, <2>2 DEF Evidence, Heeds, Hunks, ChangedLines
  <2>4. All(in) \subseteq Nat
    BY Printing DEF Numbered
  <2>5. QED
    BY <2>2, <2>3, <2>4
<1> DEFINE diff == {i \in Either(in) : \E f \in 1 .. i : Lines(in)[f] = "file"}
           header == FirstOf(Of(in, {"commit"}), 1) \cup FirstOf(Of(in, {"meta"}), 1)
                     \cup FirstMessage(in) \cup Of(in, {"stat"})
           asis == in.ask # "plain" \/ ~Has(in, {"commit"}) \/ (diff = {} /\ Has(in, {"stat"}))
<1>4. CASE asis
  BY <1>4, EitherGood DEF GitShow
<1>5. CASE ~asis
  <2>1. ASSUME NEW i \in EvidenceOf(in)
        PROVE  /\ i \in diff
               /\ i \notin Skipped(in) =>
                      /\ i \in Parsed(in, diff)
                      /\ i \in Of(in, {"file", "rename", "hunk", "change"}) \cup Mistaken(in)
    <3>1. i \in diff /\ (i \notin Skipped(in) => i \in Parsed(in, diff))
      <4>1. diff \subseteq Out(in) /\ Out(in) \subseteq All(in)
        BY <1>3, <1>5
      <4>2. \A j \in Out(in) : (\E f \in 1 .. j : Lines(in)[f] = "file") => j \in diff
        BY <1>3, <1>5
      <4> HIDE DEF diff
      <4>3. QED
        BY <4>1, <4>2, <1>2, <1>3, <1>5, Printing, Standing
    <3>2. i \notin Skipped(in) =>
              i \in Of(in, {"file", "rename", "hunk", "change"}) \cup Mistaken(in)
      BY <1>3, <1>5, UnlessMistaken, Printing
    <3>3. QED
      BY <3>1, <3>2
  <2>2. CASE diff = {}
    <3>1. EvidenceOf(in) = {}
      BY <2>1, <2>2
    <3>2. \E s : Is(GitShow(in), s, "nothing", "none", FALSE)
      BY <1>5, <2>2, Pluses, Replies DEF GitShow
    <3>3. QED
      BY <3>1, <3>2 DEF Good, Kept, Earned, Is
  <2>3. CASE diff # {}
    <3>1. GitShow(in) = Plus(CompactDiff(in, diff), header \cap Either(in))
      BY <1>5, <2>3 DEF GitShow
    <3> HIDE DEF diff, header
    <3>2. PICK s, v, o : /\ Is(CompactDiff(in, diff), s, v, o, FALSE)
                         /\ v \in {"nothing", "count"}
                         /\ \/ EvidenceOf(in) \ Skipped(in) \subseteq s
                            \/ o = "replacement"
                            \/ /\ o = "digest"
                               /\ EvidenceOf(in) \ (Skipped(in) \cup Mistaken(in)) \subseteq s
      BY <2>1, Compacts
    <3>3. Is(Plus(CompactDiff(in, diff), header \cap Either(in)), s \cup (header \cap Either(in)), v, o, FALSE)
      BY <3>2, Pluses
    <3>4. SkippedBy("git show", in) = Skipped(in)
      BY DEF SkippedBy
    <3>5. QED
      BY <3>1, <3>2, <3>3, <3>4 DEF Good, Kept, Earned, Is
  <2>4. QED
    BY <2>2, <2>3
<1>6. QED
  BY <1>4, <1>5

LEMMA DiffGood ==
    ASSUME NEW in, Printed("diff", in) PROVE ~ExcusedFor("diff", in) => Kept("diff", in, Diff(in))
<1> DEFINE shown == Condensed(in)
           files == Of(in, {"file"}) \cap shown
<1>0. Forms("diff") = {Form(P, Nat, {"file", "other"} \cup Hunks, {"err"}),
                       Form({"stdin"}, {0}, {"file"} \cup Hunks, {})}
  BY DEF Forms
<1>1. \/ in.ask \in P /\ Streams(in, {"file", "other"} \cup Hunks, {"err"})
                       /\ Heeds(in, {"file", "other"} \cup Hunks, {"err"})
      \/ in.ask \in {"stdin"} /\ Streams(in, {"file"} \cup Hunks, {})
                             /\ Heeds(in, {"file"} \cup Hunks, {})
  BY <1>0, TwoForms
<1>2. Hunked(in)
  BY HunksOfDiffs
<1>3. CASE in.ask # "stdin" /\ ~Has(in, {"file"})
  <2>1. CASE All(in) = {}
    BY <2>1 DEF Kept, EvidenceOf, Of
  <2>2. CASE All(in) # {}
    BY <1>3, <2>2, WholeGood DEF Diff, Compared, Whole, Good
  <2>3. QED
    BY <2>1, <2>2
<1>4. CASE ~(in.ask # "stdin" /\ ~Has(in, {"file"}))
  <2>1. \A i \in EvidenceOf(in) : i \in Out(in) /\ Lines(in)[i] \in ChangedLines /\ i \in All(in) /\ i \in Nat
    <3>1. Out(in) # {} \/ All(in) = {}
      BY <1>1, <1>4 DEF Streams, Has, Of, P
    <3>2. Out(in) \subseteq All(in) /\ All(in) \subseteq Nat
      BY <1>1, Printing DEF Streams, Numbered
    <3>3. QED
      BY <1>1, <3>1, <3>2 DEF Evidence, Heeds, Hunks, ChangedLines
  <2>2. EvidenceOf(in) \ SkippedBy("diff", in) \subseteq shown
    <3> SUFFICES ASSUME NEW i \in EvidenceOf(in) \ SkippedBy("diff", in) PROVE i \in shown
      OBVIOUS
    <3>1. PICK f \in Out(in) : /\ f \in 1 .. i /\ f < i /\ Lines(in)[f] = "file"
                               /\ \A j \in f + 1 .. i : Lines(in)[j] # "file"
      <4>1. \A f, h \in Out(in) : f \in Nat /\ h \in Nat
        BY <1>1, Printing DEF Streams, Numbered
      <4>2. \A f, h \in Out(in) : f < h /\ h < i => f < i
        BY <4>1, <2>1
      <4>3. QED
        BY <2>1, <4>2, <1>2 DEF Hunked
    <3>2. Lines(in)[i] \in {"change", "dashes"}
      <4>1. Lines(in)[i] # "marked"
        BY <2>1 DEF SkippedBy, Of
      <4>2. QED
        BY <4>1, <2>1 DEF ChangedLines
    <3>3. i \in Of(in, {"file", "hunk", "change", "dashes"}) /\ i \in Of(in, {"change", "dashes"})
      BY <3>2, <2>1 DEF Of
    <3>4. QED
      BY <3>1, <3>3, <2>1 DEF Condensed
  <2>3. \/ Is(Diff(in), {}, "clean", "none", FALSE) /\ shown = {}
        \/ Is(Diff(in), shown, "nothing", "none", FALSE)
        \/ Is(Diff(in), shown, "nothing", "digest", FALSE)
        \/ Is(Diff(in), files, "count", "replacement", FALSE)
    <3> HIDE DEF shown, files
    <3>1. Diff(in) = IF shown = {} THEN Says("clean", {}) ELSE Listing(Shows(shown), Says("count", files))
      BY <1>4 DEF Diff, shown, files
    <3>2. QED
      BY <3>1, Listings, Replies
  <2>4. QED
    BY <2>2, <2>3 DEF Kept, Is
<1>5. QED
  BY <1>3, <1>4

-----------------------------------------------------------------------------
(* The log *)

LEMMA PatchLogGood ==
    ASSUME NEW in, Hunked(in), Numbered(in),
           Streams(in, {"commit", "body", "file"} \cup Hunks, {"err"}),
           Heeds(in, {"commit", "body", "file"} \cup Hunks, {"err"})
    PROVE  Good("git log", in, PatchLog(in))
<1> DEFINE t == Either(in)
           diff(c) == {i \in t : i >= c /\ \A j \in c .. i : Lines(in)[j] # "commit"}
           starts == {c \in t : /\ Lines(in)[c] = "file"
                                /\ \A j \in 1 .. c - 1 : Lines(in)[j] = "file" =>
                                       \E k \in j .. c : Lines(in)[k] = "commit"}
           cuts == {c \in starts : CompactDiff(in, diff(c)).omission # "none"}
           shown == (t \ UNION {diff(c) : c \in starts})
                    \cup UNION {CompactDiff(in, diff(c)).shown : c \in starts}
           says == IF \E c \in cuts : CompactDiff(in, diff(c)).says = "count" THEN "count" ELSE "nothing"
           omission == IF cuts = {} THEN "none"
                       ELSE CompactDiff(in, diff(CHOOSE c \in cuts : \A d \in cuts : c <= d)).omission
<1>1. Is(PatchLog(in), shown, says, omission, FALSE)
  BY DEF PatchLog, Is
<1>2. \A c \in starts : c \in t /\ Lines(in)[c] = "file"
  OBVIOUS
<1>3. \A c \in cuts : c \in starts /\ CompactDiff(in, diff(c)).omission # "none"
  OBVIOUS
<1>4. \A c \in starts : c \notin cuts => CompactDiff(in, diff(c)).omission = "none"
  OBVIOUS
<1>5. \A c, i : i \in diff(c) <=> i \in t /\ i >= c /\ \A j \in c .. i : Lines(in)[j] # "commit"
  OBVIOUS
<1>6. says \in {"nothing", "count"}
  OBVIOUS
<1>7. t \subseteq Nat /\ t \subseteq All(in)
  BY DEF Numbered, Either, Out, Streams
<1>8. cuts \subseteq t
  OBVIOUS
<1>9. CASE cuts = {}
  <2>1. ASSUME NEW i \in EvidenceOf(in) \ Skipped(in), NEW c \in starts, i \in diff(c)
        PROVE  i \in CompactDiff(in, diff(c)).shown
    <3>1. Out(in) # {} /\ t = Out(in)
      BY <1>2, <1>7 DEF Streams
    <3>2. i \in Out(in) /\ Lines(in)[i] \in ChangedLines /\ i \in Nat /\ c \in Nat /\ c <= i
      BY <2>1, <1>2, <1>5, <1>7, <3>1 DEF Heeds, Evidence, Hunks, ChangedLines
    <3>3. PICK f, h \in Out(in) : /\ f < h /\ h < i
                                  /\ Lines(in)[f] = "file" /\ Lines(in)[h] = "hunk"
                                  /\ \A j \in f + 1 .. i : Lines(in)[j] # "file"
                                  /\ \A j \in h + 1 .. i : Lines(in)[j] # "boiler"
      BY <3>2 DEF Hunked
    <3>4. f \in Nat /\ h \in Nat
      BY <3>1, <1>7
    <3>5. c <= f
      <4>1. ~(c \in f + 1 .. i)
        BY <3>3, <1>2
      <4>2. QED
        BY <4>1, <3>2, <3>4
    <3>6. f \in diff(c) /\ h \in diff(c)
      <4>1. \A j \in c .. i : Lines(in)[j] # "commit"
        BY <2>1, <1>5
      <4>2. \A j \in c .. h : j \in c .. i
        BY <3>2, <3>3, <3>4
      <4>3. \A j \in c .. f : j \in c .. i
        BY <3>2, <3>3, <3>4
      <4>4. c <= h
        BY <3>2, <3>3, <3>4, <3>5
      <4>5. QED
        BY <1>5, <3>1, <3>4, <3>5, <4>1, <4>2, <4>3, <4>4
    <3>7. \A j \in h .. i : j \in diff(c)
      <4>1. \A j \in c .. i : Lines(in)[j] # "commit"
        BY <2>1, <1>5
      <4>2. ASSUME NEW j \in h .. i PROVE j \in t /\ j >= c /\ \A k \in c .. j : k \in c .. i
        <5>1. j \in 1 .. i
          <6>1. h # 0
            BY DEF Numbered, Streams
          <6>2. QED
            BY <6>1, <3>2, <3>4, <3>3
        <5>2. j \in t
          <6>1. j \in Out(in)
            BY <5>1, <3>2 DEF Numbered
          <6>2. QED
            BY <6>1, <3>1
        <5>3. j >= c
          BY <3>2, <3>3, <3>4, <3>5
        <5>4. QED
          BY <5>2, <5>3, <3>2, <3>4
      <4>3. QED
        BY <1>5, <4>1, <4>2
    <3> HIDE DEF diff, starts, cuts, t
    <3>8. i \in Parsed(in, diff(c))
      <4>1. i \in All(in) \ Skipped(in)
        BY <2>1 DEF EvidenceOf, Of
      <4>2. QED
        BY <2>1, <3>2, <3>3, <3>4, <3>6, <3>7, <4>1, Parses
    <3>9. CompactDiff(in, diff(c)).omission = "none"
      BY <1>4, <1>9
    <3>10. CompactDiff(in, diff(c)).shown = Parsed(in, diff(c))
      BY <3>9, Compacts DEF Is
    <3>11. QED
      BY <3>8, <3>10
  <2>2. \A i \in EvidenceOf(in) : i \in t
    BY DEF EvidenceOf
  <2>3. EvidenceOf(in) \ Skipped(in) \subseteq shown
    <3> HIDE DEF diff, starts, cuts, t
    <3>1. QED
      BY <2>1, <2>2
  <2>4. SkippedBy("git log", in) = Skipped(in)
    BY DEF SkippedBy
  <2>5. QED
    BY <1>1, <1>6, <2>3, <2>4 DEF Good, Kept, Earned, Is
<1>10. CASE cuts # {}
  <2> DEFINE m == CHOOSE c \in cuts : \A d \in cuts : c <= d
  <2>1. \E c \in cuts : \A d \in cuts : c <= d
    <3> HIDE DEF cuts
    <3>1. cuts \subseteq Nat
      BY <1>7, <1>8
    <3>2. PICK c \in cuts : \A d \in cuts : ~(<<d, c>> \in OpToRel(<, Nat))
      BY <3>1, <1>10, WFMin, NatLessThanWellFounded
    <3>3. \A d \in cuts : ~(d < c)
      BY <3>1, <3>2 DEF OpToRel
    <3>4. QED
      BY <3>1, <3>3
  <2>2. m \in cuts
    <3> HIDE DEF cuts
    <3>1. QED
      BY <2>1
  <2>3. omission = CompactDiff(in, diff(m)).omission
    BY <1>10
  <2> HIDE DEF m, cuts, diff, starts, omission, says, shown
  <2>4. omission \in {"digest", "replacement"}
    BY <2>2, <2>3, <1>3, Compacts DEF Is
  <2>5. QED
    BY <1>1, <1>6, <2>4 DEF Good, Kept, Earned, Is, Shortening
<1>11. QED
  BY <1>9, <1>10

LEMMA GitLogGood ==
    ASSUME NEW in, Printed("git log", in) PROVE Good("git log", in, GitLog(in))
<1>0. Forms("git log") = {Form(P, Nat, {"head", "commit", "meta", "body"}, {"err"}),
                          Form({"patch"}, Nat, {"commit", "body", "file"} \cup Hunks, {"err"}),
                          Form({"rich"}, Nat, {"body"}, {"err"})}
  BY DEF Forms
<1>1. \/ Reads(in, Form(P, Nat, {"head", "commit", "meta", "body"}, {"err"}))
      \/ Reads(in, Form({"patch"}, Nat, {"commit", "body", "file"} \cup Hunks, {"err"}))
      \/ Reads(in, Form({"rich"}, Nat, {"body"}, {"err"}))
  BY <1>0, Printing
<1>2. CASE in.ask = "patch"
  <2>1. \/ in.ask \in P
        \/ /\ Streams(in, {"commit", "body", "file"} \cup Hunks, {"err"})
           /\ Heeds(in, {"commit", "body", "file"} \cup Hunks, {"err"})
        \/ in.ask \in {"rich"}
    BY <1>1, Forming
  <2>2. /\ Streams(in, {"commit", "body", "file"} \cup Hunks, {"err"})
        /\ Heeds(in, {"commit", "body", "file"} \cup Hunks, {"err"})
    BY <1>2, <2>1 DEF P
  <2>3. QED
    BY <1>2, <2>2, Printing, HunksOfDiffs, PatchLogGood DEF GitLog
<1>3. CASE in.ask = "rich"
  BY <1>3, EitherGood DEF GitLog
<1>4. CASE in.ask \notin {"patch", "rich"}
  <2>1. \/ /\ Streams(in, {"head", "commit", "meta", "body"}, {"err"})
           /\ Heeds(in, {"head", "commit", "meta", "body"}, {"err"})
        \/ in.ask \in {"patch"} \/ in.ask \in {"rich"}
    BY <1>1, Forming
  <2>2. /\ Streams(in, {"head", "commit", "meta", "body"}, {"err"})
        /\ Heeds(in, {"head", "commit", "meta", "body"}, {"err"})
    BY <1>4, <2>1
  <2>3. GitLog(in) = IF Either(in) = {} THEN Says("count", {})
                     ELSE IF Lines(in)[1] = "head" THEN OnelineLog(in) ELSE BlockLog(in)
    BY <1>4 DEF GitLog
  <2>4. OnelineLog(in).says \in {"nothing", "count"} /\ BlockLog(in).says \in {"nothing", "count"}
    <3>1. PICK x, y : OnelineLog(in) = Budgeted(Shows(x), Shows(y), Says("count", {}))
      BY DEF OnelineLog, Count
    <3>2. OnelineLog(in).says \in {"nothing", "count"}
      BY <3>1, ShortenedSays
    <3>3. \/ BlockLog(in) = Shows(Either(in))
          \/ \E u, v : BlockLog(in) = Budgeted(Says("count", u), Says("count", v), Count)
      BY DEF BlockLog
    <3>4. Shows(Either(in)).says = "nothing"
      BY Replies DEF Is
    <3>5. \A u, v : Budgeted(Says("count", u), Says("count", v), Count).says = "count"
      BY Counted DEF Is
    <3>6. QED
      BY <3>2, <3>3, <3>4, <3>5
  <2>5. GitLog(in).says \in {"nothing", "count"}
    <3>1. Says("count", {}).says = "count"
      BY Replies DEF Is
    <3>2. QED
      BY <2>3, <2>4, <3>1
  <2>6. CASE EvidenceOf(in) = {}
    BY <2>5, <2>6 DEF Good, Kept, Earned
  <2>7. CASE EvidenceOf(in) # {}
    <3>1. Out(in) = {} /\ Either(in) = All(in) /\ Either(in) # {}
      BY <2>2, <2>7 DEF Heeds, Evidence, Streams
    <3>2. 1 \in All(in) /\ \A i \in All(in) : Lines(in)[i] = "err"
      BY <2>2, <3>1, Printing DEF Numbered, Streams
    <3>3. Of(in, {"commit"}) \cap Either(in) = {}
      BY <3>2 DEF Of
    <3>4. BlockLog(in) = Shows(Either(in))
      BY <3>3, NoLines DEF BlockLog
    <3>5. QED
      BY <2>3, <3>1, <3>2, <3>4, EitherGood
  <2>8. QED
    BY <2>6, <2>7
<1>5. QED
  BY <1>2, <1>3, <1>4

-----------------------------------------------------------------------------
(* Status, branches, the commands that change something, hosting *)

LEMMA GitStatusGood ==
    ASSUME NEW in, Printed("git status", in) PROVE Good("git status", in, GitStatus(in))
<1>0. Forms("git status") = {Form(P, Nat, {"entry", "hint"}, {"err"}), Form(P, Nat, {"hint", "clean"}, {"err"}),
                             Form({"compact"}, Nat, {"entry"}, {"err"}),
                             Form({"compact"}, Nat, {}, {"norepo", "other"})}
  BY DEF Forms
<1>1. \/ Reads(in, Form(P, Nat, {"entry", "hint"}, {"err"})) \/ Reads(in, Form(P, Nat, {"hint", "clean"}, {"err"}))
      \/ Reads(in, Form({"compact"}, Nat, {"entry"}, {"err"}))
      \/ Reads(in, Form({"compact"}, Nat, {}, {"norepo", "other"}))
  BY <1>0, Printing
<1>2. \/ in.ask = "plain" /\ Streams(in, {"entry", "hint"}, {"err"}) /\ Heeds(in, {"entry", "hint"}, {"err"})
      \/ in.ask = "plain" /\ Streams(in, {"hint", "clean"}, {"err"}) /\ Heeds(in, {"hint", "clean"}, {"err"})
      \/ in.ask = "compact" /\ Streams(in, {"entry"}, {"err"}) /\ Heeds(in, {"entry"}, {"err"})
      \/ in.ask = "compact" /\ Streams(in, {}, {"norepo", "other"}) /\ Heeds(in, {}, {"norepo", "other"})
  <2>1. \/ in.ask \in P /\ Streams(in, {"entry", "hint"}, {"err"}) /\ Heeds(in, {"entry", "hint"}, {"err"})
        \/ in.ask \in P /\ Streams(in, {"hint", "clean"}, {"err"}) /\ Heeds(in, {"hint", "clean"}, {"err"})
        \/ in.ask \in {"compact"} /\ Streams(in, {"entry"}, {"err"}) /\ Heeds(in, {"entry"}, {"err"})
        \/ in.ask \in {"compact"} /\ Streams(in, {}, {"norepo", "other"}) /\ Heeds(in, {}, {"norepo", "other"})
    BY <1>1, Forming
  <2>2. QED
    BY <2>1 DEF P
<1>3. Quiet(in)
  BY Printing
<1>4. CASE in.exit # 0
  <2>1. CASE in.ask = "compact" /\ Has(in, {"norepo"})
    <3>1. GitStatus(in) = Shows(Of(in, {"norepo"}))
      BY <1>4, <2>1 DEF GitStatus
    <3>2. Heeds(in, {}, {"norepo", "other"})
      BY <1>2, <2>1 DEF Streams, Has, Of
    <3>3. EvidenceOf(in) = {}
      BY <3>2 DEF Heeds, Evidence
    <3>4. QED
      BY <3>1, <3>3, Replies DEF Good, Kept, Earned, Is
  <2>2. CASE ~(in.ask = "compact" /\ Has(in, {"norepo"}))
    BY <1>4, <2>2, WholeGood DEF GitStatus
  <2>3. QED
    BY <2>1, <2>2
<1>5. CASE in.exit = 0
  <2>1. Of(in, {"err", "fail", "bad"}) = {}
    BY <1>2, <1>3, <1>5 DEF Streams, Quiet, Of
  <2>2. \A i \in EvidenceOf(in) : i \in Out(in) /\ Lines(in)[i] = "entry" /\ i \in All(in)
    BY <1>2, <1>3, <1>5 DEF Heeds, Quiet, Evidence
  <2>3. CASE in.ask = "compact"
    <3>1. GitStatus(in) = CompactStatus(in)
      BY <1>5, <2>3 DEF GitStatus
    <3>2. Is(CompactStatus(in), Out(in), "clean", "none", FALSE) \/ Is(CompactStatus(in), Out(in), "nothing", "none", FALSE)
      BY Replies DEF CompactStatus
    <3>3. QED
      BY <1>5, <2>1, <2>2, <3>1, <3>2 DEF Good, Kept, Earned, Is
  <2>4. CASE in.ask # "compact"
    <3> DEFINE kept == {i \in Out(in) : /\ Lines(in)[i] \notin {"hint", "blank"}
                                        /\ \A c \in Of(in, {"clean"}) : i <= c}
    <3>1. GitStatus(in) = IF kept = {} THEN Says("ok", {}) ELSE Shows(kept)
      BY <1>5, <2>4 DEF GitStatus
    <3>2. ASSUME NEW i \in EvidenceOf(in) PROVE Of(in, {"clean"}) = {}
      BY <1>2, <2>2, <2>4 DEF Streams, Of
    <3>3. EvidenceOf(in) \subseteq kept
      BY <2>2, <3>2
    <3> HIDE DEF kept
    <3>4. \/ Is(GitStatus(in), {}, "ok", "none", FALSE) /\ kept = {}
          \/ Is(GitStatus(in), kept, "nothing", "none", FALSE)
      BY <3>1, Replies
    <3>5. QED
      BY <1>5, <2>1, <3>3, <3>4 DEF Good, Kept, Earned, Is
  <2>5. QED
    BY <2>3, <2>4
<1>6. QED
  BY <1>4, <1>5

LEMMA GitBranchGood ==
    ASSUME NEW in, Printed("git branch", in) PROVE Good("git branch", in, GitBranch(in))
<1>0. Forms("git branch") = {Form({"plain", "current", "write"}, Nat, {"star", "local", "remote"}, {"err"})}
  BY DEF Forms
<1>1. Streams(in, {"star", "local", "remote"}, {"err"}) /\ Heeds(in, {"star", "local", "remote"}, {"err"})
  BY <1>0, OneForm
<1>2. CASE in.exit # 0
  BY <1>2, WholeGood DEF GitBranch
<1>3. CASE in.exit = 0
  <2>1. {"star", "local", "remote"} \cap Evidence = {} /\ {"err"} \cap Evidence \subseteq {"err"}
    BY DEF Evidence
  <2>2. QED
    BY <1>1, <1>3, <2>1, Printing, WorkedGood
<1>4. QED
  BY <1>2, <1>3

\* A command of git that is not excused worked, or is shown.
LEMMA GitWriteGood ==
    ASSUME NEW in, Printed("git", in) PROVE Good("git", in, GitWrite(in))
<1> DEFINE A == {"nothing", "stat", "ref", "other"}
           B == {"err", "error", "alien"}
<1>0. Forms("git") = {Form({"push", "commit", "pull", "fetch", "add", "list", "stash", "other"}, Nat, A, B)}
  BY DEF Forms
<1> HIDE DEF A, B
<1>1. Streams(in, A, B) /\ Heeds(in, A, B)
  BY <1>0, OneForm
<1>2. CASE in.exit = 0
  <2>1. A \cap Evidence = {} /\ B \cap Evidence \subseteq {"err"}
    BY DEF Evidence, A, B
  <2>2. QED
    BY <1>1, <1>2, <2>1, Printing, WorkedGood
<1>3. CASE in.exit # 0 /\ Has(in, Benign)
  BY <1>3 DEF Good, ExcusedFor, Earned, Has, Of
<1>4. CASE in.exit # 0 /\ ~Has(in, Benign)
  BY <1>4, WholeGood DEF GitWrite, Refused
<1>5. QED
  BY <1>2, <1>3, <1>4

LEMMA GraphiteGood ==
    ASSUME NEW in, Printed("gt", in) PROVE Good("gt", in, Graphite(in))
<1>0. Forms("gt") = {Form({"log", "submit", "sync", "other"}, Nat, {"node", "pushed", "other"}, {"err"})}
  BY DEF Forms
<1>1. Streams(in, {"node", "pushed", "other"}, {"err"}) /\ Heeds(in, {"node", "pushed", "other"}, {"err"})
  BY <1>0, OneForm
<1>2. CASE in.exit # 0
  BY <1>2, WholeGood DEF Graphite
<1>3. CASE in.exit = 0
  <2>1. {"node", "pushed", "other"} \cap Evidence = {} /\ {"err"} \cap Evidence \subseteq {"err"}
    BY DEF Evidence
  <2>2. QED
    BY <1>1, <1>3, <2>1, Printing, WorkedGood
<1>4. QED
  BY <1>2, <1>3

LEMMA HostingGood ==
    ASSUME NEW in, Printed("gh", in) PROVE Good("gh", in, Hosting(in))
<1>0. Forms("gh") = {Form({"list", "view"}, Nat, {"row"}, {"err", "note"}),
                     Form({"checks"}, Nat, {"fail", "pass"}, {"err"}),
                     Form({"trace"}, Nat, {"fail", "section"}, {"err"})}
  BY DEF Forms
<1>1. \/ Reads(in, Form({"list", "view"}, Nat, {"row"}, {"err", "note"}))
      \/ Reads(in, Form({"checks"}, Nat, {"fail", "pass"}, {"err"}))
      \/ Reads(in, Form({"trace"}, Nat, {"fail", "section"}, {"err"}))
  BY <1>0, Printing
<1>2. \/ in.ask \in {"list", "view"} /\ Streams(in, {"row"}, {"err", "note"}) /\ Heeds(in, {"row"}, {"err", "note"})
      \/ in.ask \in {"checks"} /\ Streams(in, {"fail", "pass"}, {"err"}) /\ Heeds(in, {"fail", "pass"}, {"err"})
      \/ in.ask \in {"trace"} /\ Streams(in, {"fail", "section"}, {"err"}) /\ Heeds(in, {"fail", "section"}, {"err"})
  BY <1>1, Forming
<1> DEFINE rows == Of(in, {"row"})
           answered == ~Has(in, {"err", "note"})
<1>3. CASE in.ask = "checks"
  <2>1. Heeds(in, {"fail", "pass"}, {"err"}) /\ Streams(in, {"fail", "pass"}, {"err"})
    BY <1>2, <1>3
  <2>2. CASE Out(in) = {}
    <3>1. Of(in, {"fail"}) = {} /\ ~Has(in, {"pass"})
      BY <2>1, <2>2 DEF Streams, Of, Has
    <3>2. Is(Hosting(in), {}, "nothing", "none", FALSE)
      BY <1>3, <3>1, Replies DEF Hosting
    <3>3. QED
      BY <3>2 DEF Good, Kept, Earned, Is, Silent
  <2>3. CASE Out(in) # {}
    <3>1. EvidenceOf(in) \subseteq Of(in, {"fail"})
      BY <2>1, <2>3 DEF Heeds, Evidence, Of
    <3>2. \/ Is(Hosting(in), Of(in, {"fail"}), "nothing", "none", FALSE)
          \/ Is(Hosting(in), Of(in, {"fail"}), "count", "none", FALSE)
      BY <1>3, Replies DEF Hosting
    <3>3. QED
      BY <3>1, <3>2 DEF Good, Kept, Earned, Is
  <2>4. QED
    BY <2>2, <2>3
<1>4. CASE in.ask = "trace"
  <2>1. Heeds(in, {"fail", "section"}, {"err"})
    BY <1>2, <1>4
  <2>2. EvidenceOf(in) \subseteq All(in) \ Of(in, {"section"})
    BY <2>1 DEF Heeds, Evidence, Of
  <2>3. Is(Hosting(in), All(in) \ Of(in, {"section"}), "nothing", "none", FALSE)
    BY <1>4, Replies DEF Hosting
  <2>4. QED
    BY <2>2, <2>3 DEF Good, Kept, Earned, Is
<1>5. CASE in.ask \in {"list", "view"} /\ answered
  <2>1. Heeds(in, {"row"}, {"err", "note"}) /\ Streams(in, {"row"}, {"err", "note"})
    BY <1>2, <1>5
  <2>2. EvidenceOf(in) \subseteq rows /\ Of(in, {"err", "fail", "bad"}) = {} /\ (rows = {} => All(in) = {})
    BY <1>5, <2>1 DEF Heeds, Evidence, Of, Has, Streams
  <2>3. \/ Hosting(in) = Says("clean", {}) /\ rows = {}
        \/ Hosting(in) = Listing(Says("count", rows), Count)
        \/ Hosting(in) = Shows(rows)
    BY <1>5 DEF Hosting
  <2> HIDE DEF rows
  <2>4. \/ Is(Hosting(in), {}, "clean", "none", FALSE) /\ rows = {}
        \/ Is(Hosting(in), rows, "count", "none", FALSE) \/ Is(Hosting(in), rows, "count", "digest", FALSE)
        \/ Is(Hosting(in), {}, "count", "replacement", FALSE)
        \/ Is(Hosting(in), rows, "nothing", "none", FALSE)
    BY <2>3, Counted, Replies DEF Listing
  <2>5. QED
    BY <2>2, <2>4 DEF Good, Kept, Earned, Is
<1>6. CASE in.ask \in {"list", "view"} /\ ~answered
  BY <1>6, WholeGood DEF Hosting
<1>7. QED
  BY <1>2, <1>3, <1>4, <1>5, <1>6

LEMMA ReleasesGood ==
    ASSUME NEW in, Printed("glab release", in) PROVE Good("glab release", in, Releases(in))
<1> DEFINE n == Cardinality(All(in))
           half == FirstOf(All(in), (n + 1) \div 2)
<1>0. Forms("glab release") = {Form(P, {0}, {"row"}, {})}
  BY DEF Forms
<1>1. Streams(in, {"row"}, {}) /\ in.exit \in {0}
  BY <1>0, OneForm
<1>2. IsFiniteSet(All(in)) /\ (n = 0 => All(in) = {})
  BY Printing, FS_EmptySet DEF Numbered
<1>3. Releases(in) = IF n = 0 THEN Says("clean", {}) ELSE Budgeted(Whole(in), Shows(half), Count)
  BY DEF Releases
<1> HIDE DEF n, half
<1>4. \/ Is(Releases(in), {}, "clean", "none", FALSE) /\ All(in) = {}
      \/ Is(Releases(in), All(in), "nothing", "none", FALSE) \/ Is(Releases(in), half, "nothing", "digest", FALSE)
      \/ Is(Releases(in), {}, "count", "replacement", FALSE)
  BY <1>2, <1>3, Shortened, Replies DEF Count, Whole
<1>5. EvidenceOf(in) \subseteq All(in) /\ Of(in, {"err", "fail", "bad"}) \subseteq All(in)
  BY DEF EvidenceOf, Of
<1>6. QED
  BY <1>4, <1>5 DEF Good, Kept, Earned, Is, Shortening

-----------------------------------------------------------------------------
(* Searching, listing and reading *)

LEMMA SearchGood ==
    ASSUME NEW in, Printed("grep", in) PROVE Good("grep", in, Search(in))
<1> DEFINE matches == Of(in, {"match", "other"}) \cap Out(in)
<1>0. Forms("grep") = {Form({"plain", "minimal", "aggressive", "format"}, Nat, {"match", "other", "foreign"}, {"err"})}
  BY DEF Forms
<1>1. Streams(in, {"match", "other", "foreign"}, {"err"}) /\ Heeds(in, {"match", "other", "foreign"}, {"err"})
  BY <1>0, OneForm
<1>2. \/ Search(in) = Shows(Out(in))
      \/ Search(in) = Whole(in)
      \/ Search(in) = Says("clean", {}) /\ in.out = <<>> /\ in.err = <<>>
      \/ Search(in) = GroupGrep(in, matches)
  BY DEF Search
<1>3. CASE Search(in) = Shows(Out(in))
  BY <1>1, <1>3, OutGood
<1>4. CASE Search(in) = Whole(in)
  BY <1>4, WholeGood
<1>5. CASE Search(in) = Says("clean", {}) /\ in.out = <<>> /\ in.err = <<>>
  <2>1. All(in) = {}
    BY <1>1, <1>5 DEF Streams
  <2>2. EvidenceOf(in) = {} /\ Of(in, {"err", "fail", "bad"}) = {}
    BY <2>1 DEF EvidenceOf, Of
  <2>3. QED
    BY <2>1, <2>2 DEF Good, Kept, Earned
<1>6. CASE Search(in) = GroupGrep(in, matches)
  <2>1. GroupGrep(in, matches).omission = "digest" /\ GroupGrep(in, matches).says = "count"
    BY DEF GroupGrep, Says, Shows
  <2>2. QED
    BY <1>6, <2>1 DEF Good, Kept, Earned, Shortening
<1>7. QED
  BY <1>2, <1>3, <1>4, <1>5, <1>6

LEMMA FindGood ==
    ASSUME NEW in, Printed("find", in) PROVE Good("find", in, Find(in))
<1> DEFINE files == Of(in, {"path", "far"}) \cap Out(in)
           errs == Of(in, {"err"})
           dirs == {Lines(in)[i] : i \in files}
           small == Cardinality(dirs) <= Budget
<1>0. Forms("find") = {Form(P, Nat, {"path", "far", "generated"}, {"err"})}
  BY DEF Forms
<1>1. Streams(in, {"path", "far", "generated"}, {"err"}) /\ Heeds(in, {"path", "far", "generated"}, {"err"})
  BY <1>0, OneForm
<1>2. Quiet(in)
  BY Printing
<1>3. EvidenceOf(in) \subseteq files \cup errs
  BY <1>1 DEF Heeds, Evidence, Of
<1>4. Of(in, {"err", "fail", "bad"}) \subseteq errs
  BY <1>1 DEF Streams, Of
<1>5. CASE files = {}
  <2>1. Find(in) = Says(IF Has(in, {"generated"}) THEN "count" ELSE "clean", errs)
    BY <1>5 DEF Find
  <2>2. \/ Is(Find(in), errs, "count", "none", FALSE)
        \/ Is(Find(in), errs, "clean", "none", FALSE) /\ ~Has(in, {"generated"})
    BY <2>1, Replies
  <2>3. ~Has(in, {"generated"}) => All(in) = {} \/ Has(in, {"err"})
    BY <1>1, <1>5 DEF Streams, Has, Of
  <2>4. Has(in, {"err"}) => Has(in, Benign \cup {"err", "fail", "bad"})
    BY DEF Has, Of
  <2>5. QED
    BY <1>3, <1>4, <1>5, <2>2, <2>3, <2>4 DEF Good, Kept, Earned, Is
<1>6. CASE files # {} /\ Fits(Shows(files))
  <2>1. Find(in) = Plus(Says("count", errs), files)
    BY <1>6 DEF Find
  <2> HIDE DEF files, errs
  <2>2. Is(Plus(Says("count", errs), files), errs \cup files, "count", "none", FALSE)
    <3>1. Is(Says("count", errs), errs, "count", "none", FALSE)
      BY Replies
    <3>2. QED
      BY <3>1, Pluses
  <2>3. Is(Find(in), errs \cup files, "count", "none", FALSE)
    BY <2>1, <2>2
  <2>4. QED
    BY <1>3, <2>3 DEF Good, Kept, Earned, Is
<1>7. CASE files # {} /\ ~Fits(Shows(files))
  <2>1. Find(in) = [Says("count", errs) EXCEPT !.omission = IF small THEN "digest" ELSE "replacement"]
    BY <1>7 DEF Find
  <2> HIDE DEF files, errs, small
  <2>2. Find(in).says = "count" /\ Find(in).omission \in {"digest", "replacement"}
    BY <2>1 DEF Says, Shows
  <2>3. QED
    BY <2>2 DEF Good, Kept, Earned, Shortening
<1>8. QED
  BY <1>5, <1>6, <1>7

LEMMA DirListingGood ==
    ASSUME NEW in, Printed("dir", in) PROVE Good("dir", in, DirListing(in))
<1>0. Forms("dir") = {Form(P, Nat, {"path", "far", "generated"}, {"err"})}
  BY DEF Forms
<1>1. Streams(in, {"path", "far", "generated"}, {"err"}) /\ Heeds(in, {"path", "far", "generated"}, {"err"})
  BY <1>0, OneForm
<1>2. Is(DirListing(in), Of(in, {"path", "far"}), "nothing", "none", FALSE)
  BY Replies DEF DirListing
<1>3. CASE Out(in) = {}
  <2>1. Of(in, {"path", "far"}) = {}
    BY <1>1, <1>3 DEF Streams, Of
  <2>2. QED
    BY <1>2, <2>1 DEF Good, Kept, Earned, Is, Silent
<1>4. CASE Out(in) # {}
  <2>1. EvidenceOf(in) \subseteq Of(in, {"path", "far"})
    BY <1>1, <1>4 DEF Heeds, Evidence, Of
  <2>2. QED
    BY <1>2, <2>1 DEF Good, Kept, Earned, Is
<1>5. QED
  BY <1>3, <1>4

LEMMA ReadLikeGood ==
    ASSUME NEW in, Printed("type", in) PROVE Good("type", in, ReadLike(in))
<1>1. CASE in.ask \in {"head", "tail", "aggressive"}
  <2>1. ReadLike(in).says \in {"nothing", "count"}
    BY Replies DEF ReadLike, Symbols, Is
  <2>2. QED
    BY <1>1, <2>1 DEF Good, ExcusedFor, Earned
<1>2. CASE in.ask \notin {"head", "tail", "aggressive"}
  BY <1>2, WholeGood DEF ReadLike
<1>3. QED
  BY <1>1, <1>2

LEMMA ReadGood ==
    ASSUME NEW in, Printed("cat", in) PROVE Good("cat", in, Read(in))
<1> DEFINE s == Levelled(in)
           window == CASE in.ask = "tail" -> LastOf(s, Cap)
                       [] in.ask = "head" -> SmartTruncate(in, s)
                       [] OTHER -> s
<1>0. Forms("cat") = {Form({"plain", "minimal", "aggressive", "head", "tail"}, Nat, {"signature", "comment", "line"}, {"err"})}
  BY DEF Forms
<1>1. Streams(in, {"signature", "comment", "line"}, {"err"}) /\ Heeds(in, {"signature", "comment", "line"}, {"err"})
  BY <1>0, OneForm
<1>2. Read(in) = [Shows(window) EXCEPT !.omission = IF window = s THEN "none" ELSE "digest"]
  BY DEF Read
<1>3. CASE Out(in) = {}
  <2>1. s = {}
    BY <1>3 DEF Levelled
  <2>2. LastOf({}, Cap) = {} /\ SmartTruncate(in, {}) = {}
    BY NoLines DEF LastOf, SmartTruncate
  <2>3. window = {}
    BY <2>1, <2>2
  <2>4. Read(in) = [Shows({}) EXCEPT !.omission = "none"]
    BY <1>2, <2>1, <2>3
  <2>5. Read(in).shown = {} /\ Read(in).says = "nothing" /\ Read(in).omission = "none" /\ ~Read(in).more
    BY <2>4 DEF Shows
  <2>6. QED
    BY <2>5 DEF Good, Kept, Earned, Silent
<1>4. CASE Out(in) # {}
  <2>1. EvidenceOf(in) = {}
    BY <1>1, <1>4 DEF Heeds, Evidence
  <2> HIDE DEF window, s
  <2>2. Read(in).says = "nothing"
    BY <1>2 DEF Shows
  <2>3. QED
    BY <2>1, <2>2 DEF Good, Kept, Earned
<1>5. QED
  BY <1>3, <1>4

LEMMA LsGood ==
    ASSUME NEW in, Printed("ls", in) PROVE Good("ls", in, Ls(in))
<1> DEFINE A == {"entry", "tooldir", "total", "dotdir", "odd"}
           entries == Out(in) \cap Of(in, {"entry", "tooldir"})
<1>0. Forms("ls") = {Form(P, Nat, {"entry", "tooldir", "total", "dotdir", "odd"}, {"err"})}
  BY DEF Forms
<1> HIDE DEF A
<1>1. Streams(in, A, {"err"}) /\ Heeds(in, A, {"err"})
  BY <1>0, OneForm DEF A
<1>2. CASE in.exit # 0
  BY <1>2, WholeGood DEF Ls
<1>3. CASE in.exit = 0
  <2>1. EvidenceOf(in) \subseteq entries
    BY <1>1, <1>3, Printing DEF Heeds, Evidence, Of, A, Quiet
  <2>2. Of(in, {"err", "fail", "bad"}) = {}
    BY <1>1, <1>3, Printing DEF Streams, Of, A, Quiet
  <2>3. \/ Ls(in) = Says("clean", {}) /\ entries = {}
        \/ Ls(in) = Shows({}) /\ entries = {}
        \/ Ls(in) = Shows(entries)
    BY <1>3 DEF Ls
  <2> HIDE DEF entries
  <2>4. \/ Is(Ls(in), {}, "clean", "none", FALSE) /\ entries = {}
        \/ Is(Ls(in), {}, "nothing", "none", FALSE) /\ entries = {}
        \/ Is(Ls(in), entries, "nothing", "none", FALSE)
    BY <2>3, Replies
  <2>5. QED
    BY <1>3, <2>1, <2>2, <2>4 DEF Good, Kept, Earned, Is
<1>4. QED
  BY <1>2, <1>3

LEMMA TreeGood ==
    ASSUME NEW in, Printed("tree", in) PROVE Good("tree", in, Tree(in))
<1> DEFINE entries == Out(in) \ Of(in, {"total", "blank"})
<1>0. Forms("tree") = {Form(P, Nat, {"entry", "total", "blank"}, {"err"})}
  BY DEF Forms
<1>1. Heeds(in, {"entry", "total", "blank"}, {"err"})
  BY <1>0, OneForm
<1>2. Is(Tree(in), entries, "nothing", "none", FALSE)
  BY Replies DEF Tree
<1>3. CASE Out(in) = {}
  BY <1>2, <1>3 DEF Good, Kept, Earned, Is, Silent
<1>4. CASE Out(in) # {}
  <2>1. EvidenceOf(in) \subseteq entries
    BY <1>1, <1>4 DEF Heeds, Evidence, Of
  <2>2. QED
    BY <1>2, <2>1 DEF Good, Kept, Earned, Is
<1>5. QED
  BY <1>3, <1>4

LEMMA WcGood ==
    ASSUME NEW in, Printed("wc", in) PROVE Good("wc", in, Wc(in))
<1>0. Forms("wc") = {Form(P, Nat, {"entry", "total"}, {"err"})}
  BY DEF Forms
<1>1. Streams(in, {"entry", "total"}, {"err"})
  BY <1>0, OneForm
<1>2. QED
  BY <1>1, OutGood DEF Wc

-----------------------------------------------------------------------------
(* Values, formatters and the commands of ctx *)

LEMMA EnvGood ==
    ASSUME NEW in, Printed("env", in) PROVE Good("env", in, Env(in))
<1> DEFINE pairs == Out(in) \cap Of(in, {"pair", "secret"})
<1>0. Forms("env") = {Form(P, Nat, {"pair", "secret", "other"}, {"err"})}
  BY DEF Forms
<1>1. Heeds(in, {"pair", "secret", "other"}, {"err"})
  BY <1>0, OneForm
<1>2. Env(in) = Budgeted(Shows(pairs), Shows(pairs), Says("count", {}))
  BY DEF Env, EnvFull, Listing, Count
<1>3. CASE Out(in) = {}
  <2>1. pairs = {}
    BY <1>3
  <2>2. Fits(Shows({}))
    <3>1. Shows({}).shown = {}
      BY DEF Shows
    <3>2. QED
      BY <3>1, NoLines DEF Fits
  <2>3. Env(in) = Shows({})
    BY <1>2, <2>1, <2>2 DEF Budgeted
  <2>4. Is(Env(in), {}, "nothing", "none", FALSE)
    BY <2>3, Replies
  <2>5. QED
    BY <2>4 DEF Good, Kept, Earned, Is, Silent
<1>4. CASE Out(in) # {}
  <2>1. EvidenceOf(in) \subseteq pairs
    BY <1>1, <1>4 DEF Heeds, Evidence, Of
  <2> HIDE DEF pairs
  <2>2. \/ Is(Env(in), pairs, "nothing", "none", FALSE) \/ Is(Env(in), pairs, "nothing", "digest", FALSE)
        \/ Is(Env(in), {}, "count", "replacement", FALSE)
    BY <1>2, Shortened
  <2>3. QED
    BY <2>1, <2>2 DEF Good, Kept, Earned, Is
<1>5. QED
  BY <1>3, <1>4

\* The full listing holds the evidence whenever the gate ships it: it did not fit.
LEMMA EnvInFull ==
    ASSUME NEW in, Printed("env", in), Env(in).omission = "replacement"
    PROVE  EvidenceOf(in) \subseteq EnvFull(in).shown
<1> DEFINE pairs == Out(in) \cap Of(in, {"pair", "secret"})
<1>0. Forms("env") = {Form(P, Nat, {"pair", "secret", "other"}, {"err"})}
  BY DEF Forms
<1>1. Heeds(in, {"pair", "secret", "other"}, {"err"})
  BY <1>0, OneForm
<1>2. EnvFull(in) = Shows(pairs) /\ EnvFull(in).shown = pairs
  BY DEF EnvFull, Shows
<1>3. CASE Out(in) = {}
  <2>1. Fits(EnvFull(in))
    BY <1>2, <1>3, NoLines DEF Fits
  <2>2. Env(in) = EnvFull(in)
    BY <2>1 DEF Env, Listing, Budgeted
  <2>3. EnvFull(in).omission = "none"
    BY <1>2 DEF Shows
  <2>4. QED
    BY <2>2, <2>3
<1>4. CASE Out(in) # {}
  BY <1>1, <1>2, <1>4 DEF Heeds, Evidence, Of
<1>5. QED
  BY <1>3, <1>4

LEMMA JsonGood ==
    ASSUME NEW in, Printed("json", in) PROVE Good("json", in, Json(in))
<1> DEFINE lines == Out(in)
<1>0. Forms("json") = {Form(P, Nat, {"row", "bigint", "text"}, {"err"})}
  BY DEF Forms
<1>1. Streams(in, {"row", "bigint", "text"}, {"err"}) /\ Heeds(in, {"row", "bigint", "text"}, {"err"})
  BY <1>0, OneForm
<1>2. \/ Json(in) = Shows(lines)
      \/ Json(in) = Budgeted(Shows(lines), Shows(lines), Says("count", {})) /\ ~(lines = {} /\ Fits(Shows(lines)))
  BY DEF Json, Listing, Count, Budgeted
<1>3. CASE Json(in) = Shows(lines)
  BY <1>1, <1>3, OutGood
<1>4. CASE Json(in) # Shows(lines)
  <2>1. Out(in) # {}
    <3>1. Shows({}).shown = {}
      BY DEF Shows
    <3>2. Fits(Shows({}))
      BY <3>1, NoLines DEF Fits
    <3>3. QED
      BY <1>2, <1>4, <3>2
  <2>2. EvidenceOf(in) \subseteq lines
    BY <1>1, <2>1 DEF Heeds
  <2> HIDE DEF lines
  <2>3. \/ Is(Json(in), lines, "nothing", "none", FALSE) \/ Is(Json(in), lines, "nothing", "digest", FALSE)
        \/ Is(Json(in), {}, "count", "replacement", FALSE)
    BY <1>2, <1>4, Shortened
  <2>4. QED
    BY <2>2, <2>3 DEF Good, Kept, Earned, Is
<1>5. QED
  BY <1>3, <1>4

\* A list that is not cut is the whole set.
LEMMA FirstOfFew ==
    ASSUME NEW s, IsFiniteSet(s), s \subseteq Nat, NEW n \in Nat, ~(Cardinality(s) > n)
    PROVE  s \subseteq FirstOf(s, n)
<1>1. SUFFICES ASSUME NEW i \in s PROVE Cardinality({j \in s : j <= i}) <= n
  BY <1>1 DEF FirstOf
<1> DEFINE T == {j \in s : j <= i}
<1>2. T \in SUBSET s
  OBVIOUS
<1> HIDE DEF T
<1>3. Cardinality(T) <= Cardinality(s) /\ IsFiniteSet(T)
  BY <1>2, FS_Subset
<1>4. Cardinality(T) \in Nat /\ Cardinality(s) \in Nat
  BY <1>3, FS_CardinalityType
<1>5. Cardinality(T) <= n
  BY <1>3, <1>4
<1>6. QED
  BY <1>5 DEF T

LEMMA DepsGood ==
    ASSUME NEW in, Printed("deps", in) PROVE Good("deps", in, Deps(in))
<1> DEFINE named == Out(in) \cap Of(in, {"dep"})
           more == Cardinality(named) > Cap
<1>0. Forms("deps") = {Form(P, {0}, {"dep", "other"}, {})}
  BY DEF Forms
<1>1. Streams(in, {"dep", "other"}, {}) /\ Heeds(in, {"dep", "other"}, {}) /\ in.exit \in {0}
  BY <1>0, OneForm
<1>2. Of(in, {"err", "fail", "bad"}) = {}
  BY <1>1 DEF Streams, Of
<1>3. EvidenceOf(in) \subseteq named
  BY <1>1 DEF Heeds, Evidence, Of
<1>4. named \in SUBSET All(in) /\ IsFiniteSet(All(in)) /\ All(in) \subseteq Nat
  BY <1>1, Printing DEF Streams, Numbered
<1>5. IsFiniteSet(named) /\ named \subseteq Nat
  BY <1>4, FS_Subset
<1>6. ~more => EvidenceOf(in) \subseteq FirstOf(named, Cap)
  BY <1>3, <1>5, FirstOfFew, BudgetAssumption
<1>7. "deps" \notin Masking \cup Declaring
  BY FiltersAssumption
<1>8. Named(in).shown = FirstOf(named, Cap) /\ Named(in).says = "count" /\ Named(in).omission = "none"
      /\ (Named(in).more <=> more)
  BY DEF Named, Listed, Shows
<1> HIDE DEF named, more
<1>9. Good("deps", in, Named(in))
  BY <1>6, <1>7, <1>8 DEF Good, Kept, Earned
<1>10. CASE Out(in) = {}
  <2>1. Is(Deps(in), {}, "clean", "none", FALSE)
    BY <1>10, Replies DEF Deps
  <2>2. EvidenceOf(in) = {}
    BY <1>3, <1>10 DEF named
  <2>3. QED
    BY <1>1, <1>2, <2>1, <2>2 DEF Good, Kept, Earned, Is
<1>11. CASE Out(in) # {}
  <2>1. Deps(in) = Shows(Out(in)) \/ Deps(in) = Named(in)
    BY <1>11 DEF Deps
  <2>2. QED
    BY <1>1, <1>9, <2>1, OutGood
<1>12. QED
  BY <1>10, <1>11

LEMMA FormatKept ==
    ASSUME NEW in, Printed("format", in) PROVE ~ExcusedFor("format", in) => Kept("format", in, Format(in))
<1>0. Forms("format") = {Form({"prettier", "ruff", "black", "other"}, Nat, {"file", "unchanged", "ohno"}, {"err"})}
  BY DEF Forms
<1>1. Streams(in, {"file", "unchanged", "ohno"}, {"err"}) /\ Heeds(in, {"file", "unchanged", "ohno"}, {"err"})
  BY <1>0, OneForm
<1>2. CASE in.exit = 0 \/ Out(in) # {}
  <2>1. EvidenceOf(in) = {}
    BY <1>1, <1>2, Printing DEF Heeds, Evidence, Quiet
  <2>2. QED
    BY <2>1 DEF Kept
<1>3. CASE in.exit # 0 /\ Out(in) = {}
  <2>1. ~Has(in, {"file"}) /\ ~Has(in, {"unchanged"}) /\ ~Has(in, {"file", "ohno"})
    BY <1>1, <1>3 DEF Streams, Has, Of
  <2>2. Format(in) = Whole(in) \/ (Format(in) = Shows({}) /\ All(in) = {})
    BY <1>3, <2>1 DEF Format, FormatPrettier, FormatRuff, FormatBlack, Settled
  <2>3. All(in) = {} => EvidenceOf(in) = {}
    BY DEF EvidenceOf, Of
  <2>4. QED
    BY <2>2, <2>3, WholeGood DEF Good, Kept
<1>4. QED
  BY <1>2, <1>3

LEMMA ErrGood ==
    ASSUME NEW in, Printed("err", in) PROVE Good("err", in, Err(in))
<1> DEFINE errors == {i \in All(in) : ErrorLine(in, i) \/ InBlock(in, i)}
<1>0. Forms("err") = {Form(P, Nat, {"err", "detail", "blank", "other"}, {"err"})}
  BY DEF Forms
<1>1. /\ Streams(in, {"err", "detail", "blank", "other"}, {"err"})
      /\ Heeds(in, {"err", "detail", "blank", "other"}, {"err"})
  BY <1>0, OneForm
<1>2. EvidenceOf(in) \subseteq errors
  BY <1>1 DEF Heeds, Evidence, ErrorLine
<1>3. Of(in, {"err", "fail", "bad"}) \subseteq errors
  BY <1>1 DEF Streams, Of, ErrorLine
<1>4. CASE errors = {}
  <2>1. Err(in) = ErrVerdict(in)
    BY <1>4 DEF Err
  <2>2. Err(in).says = "ok" => in.exit = 0
    BY <2>1, Replies DEF ErrVerdict, Is
  <2>3. Err(in).says # "clean"
    BY <2>1, Replies DEF ErrVerdict, Is
  <2>4. EvidenceOf(in) = {} /\ Of(in, {"err", "fail", "bad"}) = {}
    BY <1>2, <1>3, <1>4
  <2>5. QED
    BY <2>2, <2>3, <2>4 DEF Good, Kept, Earned
<1>5. CASE errors # {}
  <2>1. Err(in) = Shows(errors)
    BY <1>5 DEF Err
  <2> HIDE DEF errors
  <2>2. Is(Err(in), errors, "nothing", "none", FALSE)
    BY <2>1, Replies
  <2>3. QED
    BY <1>2, <2>2 DEF Good, Kept, Earned, Is
<1>6. QED
  BY <1>4, <1>5

\* These two give no verdict.
LEMMA TestRunnerEarned == ASSUME NEW in PROVE Earned(in, TestRunner(in))
<1>1. PICK x, y, z : TestRunner(in) = Shows(x) \/ TestRunner(in) = Budgeted(Shows(x), Shows(y), Says("count", z))
  BY DEF TestRunner
<1>2. Shows(x).says = "nothing"
  BY Replies DEF Is
<1>3. TestRunner(in).says \in {"nothing", "count"}
  BY <1>1, <1>2, ShortenedSays
<1>4. QED
  BY <1>3 DEF Earned

LEMMA LogEarned == ASSUME NEW in PROVE Earned(in, Log(in))
<1>1. Log(in).says = "count"
  BY DEF Log, Says, Shows
<1>2. QED
  BY <1>1 DEF Earned

LEMMA PipeGood ==
    ASSUME NEW in, Printed("pipe", in) PROVE Good("pipe", in, Pipe(in))
<1> DEFINE t == Either(in)
           rows == Of(in, {"match"}) \cap t
           byFile == in.ask = "grep" \/ (in.ask = "auto" /\ rows # {})
<1>0. Forms("pipe") = {Form({"grep", "auto"}, {0}, {"match", "blank"}, {}),
                       Form({"find", "auto"}, {0}, {"path", "far", "blank"}, {})}
  BY DEF Forms
<1>1. \/ in.ask \in {"grep", "auto"} /\ Streams(in, {"match", "blank"}, {}) /\ Heeds(in, {"match", "blank"}, {})
      \/ /\ in.ask \in {"find", "auto"}
         /\ Streams(in, {"path", "far", "blank"}, {}) /\ Heeds(in, {"path", "far", "blank"}, {})
  <2>1. \/ Reads(in, Form({"grep", "auto"}, {0}, {"match", "blank"}, {}))
        \/ Reads(in, Form({"find", "auto"}, {0}, {"path", "far", "blank"}, {}))
    BY <1>0, Printing
  <2>2. QED
    BY <2>1, Forming
<1>2. EvidenceOf(in) \subseteq t
  BY DEF EvidenceOf
<1>3. byFile => EvidenceOf(in) \subseteq rows
  <2>1. ASSUME in.ask = "grep" \/ rows # {}
        PROVE  Heeds(in, {"match", "blank"}, {})
    BY <1>1, <2>1 DEF Streams, Of
  <2>2. byFile => Heeds(in, {"match", "blank"}, {})
    BY <2>1
  <2>3. QED
    BY <1>2, <2>2 DEF Heeds, Evidence, Of
<1>4. \/ Pipe(in) = Grouped(in, rows) /\ EvidenceOf(in) \subseteq rows
      \/ Pipe(in) = Grouped(in, t)
      \/ Pipe(in) = Shows(t)
  BY <1>3 DEF Pipe
<1>5. ASSUME NEW s, EvidenceOf(in) \subseteq s PROVE Good("pipe", in, Grouped(in, s))
  <2>1. PICK h : \/ Grouped(in, s) = Shows(Either(in))
                 \/ Grouped(in, s) = Budgeted(Says("count", s), Says("count", h), Count)
    BY DEF Grouped
  <2>2. \/ Is(Grouped(in, s), Either(in), "nothing", "none", FALSE)
        \/ Is(Grouped(in, s), s, "count", "none", FALSE) \/ Is(Grouped(in, s), h, "count", "digest", FALSE)
        \/ Is(Grouped(in, s), {}, "count", "replacement", FALSE)
    BY <2>1, Counted, Replies
  <2>3. QED
    BY <1>2, <1>5, <2>2 DEF Good, Kept, Earned, Is, Shortening
<1> HIDE DEF t, rows
<1>6. QED
  BY <1>2, <1>4, <1>5, EitherGood DEF t

LEMMA SmartGood ==
    ASSUME NEW in, Printed("smart", in) PROVE Good("smart", in, Smart(in))
<1> DEFINE from == {i \in All(in) : \E s \in 1 .. i : Lines(in)[s] = "summary"}
           shown == (IF from = {} THEN All(in) ELSE from) \ Of(in, {"prompt"})
<1>0. Forms("smart") = {Form(P, Nat, {"summary", "prompt", "other"}, {"err"})}
  BY DEF Forms
<1>1. Streams(in, {"summary", "prompt", "other"}, {"err"}) /\ Heeds(in, {"summary", "prompt", "other"}, {"err"})
  BY <1>0, OneForm
<1>2. Is(Smart(in), shown, "nothing", "none", FALSE)
  BY Replies DEF Smart
<1>3. EvidenceOf(in) \subseteq shown
  <2> SUFFICES ASSUME NEW i \in EvidenceOf(in) PROVE i \in shown
    OBVIOUS
  <2>1. i \in All(in) /\ Out(in) = {} /\ Lines(in)[i] = "err"
    BY <1>1 DEF Heeds, Evidence
  <2>2. \A j \in All(in) : Lines(in)[j] = "err"
    BY <1>1, <2>1 DEF Streams
  <2>3. \A j \in All(in) : \A k \in 1 .. j : Lines(in)[k] # "summary"
    BY <2>2, Printing DEF Numbered
  <2>4. from = {}
    BY <2>3
  <2>5. i \notin Of(in, {"prompt"})
    BY <2>1 DEF Of
  <2>6. QED
    BY <2>1, <2>4, <2>5
<1> HIDE DEF shown
<1>4. QED
  BY <1>2, <1>3 DEF Good, Kept, Earned, Is

-----------------------------------------------------------------------------
(* Linters, compilers, tests *)

\* A list that holds the evidence, counted or not, in full, as a digest or as a summary.
LEMMA ListGood ==
    ASSUME NEW t, NEW in, NEW s, EvidenceOf(in) \subseteq s
    PROVE  /\ Good(t, in, Shows(s)) /\ Good(t, in, Says("count", s))
           /\ Good(t, in, Listing(Says("count", s), Count))
           /\ \A z : Good(t, in, Listing(Shows(s), Says("count", z)))
<1>1. Good(t, in, Shows(s)) /\ Good(t, in, Says("count", s))
  BY Replies DEF Good, Kept, Earned, Is
<1>2. LET b == Listing(Says("count", s), Count)
      IN  Is(b, s, "count", "none", FALSE) \/ Is(b, s, "count", "digest", FALSE) \/ Is(b, {}, "count", "replacement", FALSE)
  BY Counted DEF Listing
<1>3. Good(t, in, Listing(Says("count", s), Count))
  BY <1>2 DEF Good, Kept, Earned, Is
<1>4. ASSUME NEW z PROVE Good(t, in, Listing(Shows(s), Says("count", z)))
  <2>1. LET b == Listing(Shows(s), Says("count", z))
        IN  Is(b, s, "nothing", "none", FALSE) \/ Is(b, s, "nothing", "digest", FALSE) \/ Is(b, z, "count", "replacement", FALSE)
    BY Shortened DEF Listing
  <2>2. QED
    BY <2>1 DEF Good, Kept, Earned, Is
<1>5. QED
  BY <1>1, <1>3, <1>4

LEMMA FailuresGood ==
    ASSUME NEW t, NEW in, NEW heads, NEW rest, EvidenceOf(in) \subseteq heads
    PROVE  Good(t, in, Failures(in, heads, rest))
<1> DEFINE b == Failures(in, heads, rest)
<1>1. \/ Is(b, heads \cup rest, "count", "none", FALSE) \/ Is(b, heads, "count", "digest", FALSE)
      \/ Is(b, {}, "count", "replacement", FALSE)
  BY Counted DEF Failures
<1>2. EvidenceOf(in) \subseteq heads \cup rest
  OBVIOUS
<1> HIDE DEF b
<1>3. Good(t, in, b)
  BY <1>1, <1>2 DEF Good, Kept, Earned, Is
<1>4. QED
  BY <1>3 DEF b

\* A verdict on a tool that worked and reported nothing.
LEMMA VerdictGood ==
    ASSUME NEW t, NEW in, EvidenceOf(in) = {}, Of(in, {"err", "fail", "bad"}) = {},
           in.exit = 0 \/ All(in) = {}, NEW f
    PROVE  Good(t, in, f)
  BY DEF Good, Kept, Earned

LEMMA EslintGood ==
    ASSUME NEW in, Printed("eslint", in) PROVE Good("eslint", in, Eslint(in))
<1> DEFINE issues == {i \in Of(in, {"err", "warn"}) : After(in, i, {"file"})}
<1>0. Forms("eslint") = {Form(P, Nat, {"file", "err", "warn", "other"}, {"other"})}
  BY DEF Forms
<1>1. /\ Streams(in, {"file", "err", "warn", "other"}, {"other"})
      /\ Heeds(in, {"file", "err", "warn", "other"}, {"other"})
  BY <1>0, OneForm
<1>2. UnderFiles(in.out)
  BY DEF Printed, Placed
<1>3. ASSUME NEW i \in Out(in), Lines(in)[i] = "err" PROVE i \in issues
  <2>1. \E h \in 1 .. i - 1 : in.out[h] = "file"
    BY <1>2, <1>3, Printing DEF UnderFiles, Below
  <2>2. \A h \in 1 .. i - 1 : h \in Out(in)
    BY Printing
  <2>3. After(in, i, {"file"})
    BY <2>1, <2>2, Printing DEF After
  <2>4. QED
    BY <1>1, <1>3, <2>3 DEF Of, Streams
<1>4. EvidenceOf(in) \subseteq issues \cup Of(in, {"file"})
  BY <1>1, <1>3 DEF Heeds, Evidence
<1>5. CASE issues # {}
  <2>1. Eslint(in) = Says("count", issues \cup Of(in, {"file"}))
    BY <1>5 DEF Eslint
  <2>2. QED
    BY <1>4, <2>1, ListGood
<1>6. CASE issues = {}
  <2>1. \/ Eslint(in) = Whole(in)
        \/ Eslint(in) = Says("clean", {}) /\ All(in) = {}
    BY <1>6 DEF Eslint
  <2>2. All(in) = {} => EvidenceOf(in) = {} /\ Of(in, {"err", "fail", "bad"}) = {}
    BY DEF EvidenceOf, Of
  <2>3. QED
    BY <2>1, <2>2, WholeGood, VerdictGood
<1>7. QED
  BY <1>5, <1>6

LEMMA TscGood ==
    ASSUME NEW in, Printed("tsc", in) PROVE Good("tsc", in, Tsc(in))
<1> DEFINE issues == Of(in, {"err"})
           notes == {i \in Of(in, {"detail"}) : After(in, i, {"err"})}
<1>0. Forms("tsc") = {Form(P, Nat, {"err", "detail", "clean", "other"}, {"other"})}
  BY DEF Forms
<1>1. /\ Streams(in, {"err", "detail", "clean", "other"}, {"other"})
      /\ Heeds(in, {"err", "detail", "clean", "other"}, {"other"})
  BY <1>0, OneForm
<1>2. EvidenceOf(in) \subseteq issues \cup notes /\ EvidenceOf(in) \subseteq issues
  BY <1>1 DEF Heeds, Evidence, Of
<1>3. Of(in, {"err", "fail", "bad"}) \subseteq issues
  BY <1>1 DEF Streams, Of
<1>4. CASE issues # {}
  BY <1>2, <1>4, ListGood DEF Tsc
<1>5. CASE issues = {} /\ Has(in, {"clean"})
  <2>1. in.exit = 0
    BY <1>5, Printing
  <2>2. QED
    BY <1>2, <1>3, <1>5, <2>1, VerdictGood
<1>6. CASE issues = {} /\ ~Has(in, {"clean"})
  BY <1>6, WholeGood DEF Tsc
<1>7. QED
  BY <1>4, <1>5, <1>6

LEMMA MypyKept ==
    ASSUME NEW in, Printed("mypy", in) PROVE ~ExcusedFor("mypy", in) => Kept("mypy", in, Mypy(in))
<1> DEFINE own == {i \in Of(in, {"detail"}) : After(in, i, {"err"})}
           heads == Of(in, {"err"}) \cup (Of(in, {"detail"}) \ own)
<1>0. Forms("mypy") = {Form(P, Nat, {"err", "detail", "total"}, {"other"})}
  BY DEF Forms
<1>1. Heeds(in, {"err", "detail", "total"}, {"other"})
  BY <1>0, OneForm
<1>2. EvidenceOf(in) \subseteq heads
  BY <1>1 DEF Heeds, Evidence, Of
<1>3. CASE heads = {}
  BY <1>2, <1>3 DEF Kept
<1>4. CASE heads # {}
  BY <1>2, <1>4, FailuresGood DEF Mypy, Good
<1>5. QED
  BY <1>3, <1>4

LEMMA RuffGood ==
    ASSUME NEW in, Printed("ruff", in) PROVE Good("ruff", in, Ruff(in))
<1> DEFINE issues == Of(in, {"err"})
<1>0. Forms("ruff") = {Form({"check", "format"}, Nat, {"err", "clean", "other"}, {"other"})}
  BY DEF Forms
<1>1. Streams(in, {"err", "clean", "other"}, {"other"}) /\ Heeds(in, {"err", "clean", "other"}, {"other"})
  BY <1>0, OneForm
<1>2. EvidenceOf(in) \subseteq issues
  BY <1>1 DEF Heeds, Evidence, Of
<1>3. Of(in, {"err", "fail", "bad"}) \subseteq issues
  BY <1>1 DEF Streams, Of
<1>4. Has(in, {"clean"}) => in.exit = 0
  BY Printing
<1>5. CASE issues # {}
  BY <1>2, <1>5, ListGood DEF Ruff
<1>6. CASE issues = {} /\ (All(in) = {} \/ Has(in, {"clean"}))
  BY <1>2, <1>3, <1>4, <1>6, VerdictGood
<1>7. CASE issues = {} /\ ~(All(in) = {} \/ Has(in, {"clean"}))
  BY <1>7, WholeGood DEF Ruff
<1>8. QED
  BY <1>5, <1>6, <1>7

LEMMA JavacGood ==
    ASSUME NEW in, Printed("javac", in) PROVE Good("javac", in, Javac(in))
<1> DEFINE shown == Of(in, {"err", "warn"}) \cup {i \in Of(in, {"detail"}) : After(in, i, {"err", "warn"})}
<1>0. Forms("javac") = {Form(P, Nat, {"err", "warn", "detail"}, {"other"})}
  BY DEF Forms
<1>1. Heeds(in, {"err", "warn", "detail"}, {"other"})
  BY <1>0, OneForm
<1>2. EvidenceOf(in) \subseteq shown
  BY <1>1 DEF Heeds, Evidence, Of
<1>3. Javac(in) = Says("count", shown)
  BY DEF Javac
<1>4. QED
  BY <1>2, <1>3, ListGood

LEMMA PrettierGood ==
    ASSUME NEW in, Printed("prettier", in) PROVE Good("prettier", in, Prettier(in))
<1> DEFINE files == Of(in, {"file"})
<1>0. Forms("prettier") = {Form({"check", "write"}, Nat, {"file", "clean", "other"}, {"err"})}
  BY DEF Forms
<1>1. Streams(in, {"file", "clean", "other"}, {"err"}) /\ Heeds(in, {"file", "clean", "other"}, {"err"})
  BY <1>0, OneForm
<1>2. CASE in.exit = 0
  <2>1. {"file", "clean", "other"} \cap Evidence = {} /\ {"err"} \cap Evidence \subseteq {"err"}
    BY DEF Evidence
  <2>2. QED
    BY <1>1, <1>2, <2>1, Printing, WorkedGood
<1>3. CASE in.exit # 0 /\ files # {}
  <2>1. Out(in) # {}
    BY <1>1, <1>3 DEF Streams, Of
  <2>2. EvidenceOf(in) = {}
    BY <1>1, <2>1 DEF Heeds, Evidence
  <2>3. Prettier(in) = Says("count", {}) \/ Prettier(in) = Listing(Says("count", files), Count)
    BY <1>3 DEF Prettier, Count
  <2>4. QED
    BY <2>2, <2>3, ListGood
<1>4. CASE in.exit # 0 /\ files = {}
  BY <1>4, WholeGood DEF Prettier
<1>5. QED
  BY <1>2, <1>3, <1>4

LEMMA TestReportGood ==
    ASSUME NEW t \in {"jest", "playwright"}, NEW in, Printed(t, in) PROVE Good(t, in, TestReport(in))
<1> DEFINE fails == Of(in, {"fail"})
           details == {i \in Of(in, {"detail"}) : After(in, i, {"fail"})}
<1>0. Forms(t) = {Form(P, Nat, {"fail", "detail", "total", "other"}, {"other"})}
  <2>1. CASE t = "jest"
    BY <2>1 DEF Forms
  <2>2. CASE t = "playwright"
    BY <2>2 DEF Forms
  <2>3. QED
    BY <2>1, <2>2
<1>1. Heeds(in, {"fail", "detail", "total", "other"}, {"other"})
  BY <1>0, OneForm
<1>2. EvidenceOf(in) \subseteq fails
  BY <1>1 DEF Heeds, Evidence, Of
<1>3. CASE ~Has(in, {"total"})
  BY <1>3, WholeGood DEF TestReport
<1>4. CASE Has(in, {"total"})
  <2>1. TestReport(in) = IF fails = {} THEN Says("count", {}) ELSE Failures(in, fails, details)
    BY <1>4 DEF TestReport, Count
  <2> HIDE DEF fails, details
  <2>2. QED
    BY <1>2, <2>1, ListGood, FailuresGood
<1>5. QED
  BY <1>3, <1>4

LEMMA DotnetGood ==
    ASSUME NEW in, Printed("dotnet", in) PROVE Good("dotnet", in, Dotnet(in))
<1> DEFINE fails == Of(in, {"fail"})
           details == {i \in Of(in, {"detail"}) : After(in, i, {"fail"})}
           totals == Of(in, {"total"})
           issues == Of(in, {"err", "warn"})
<1>0. Forms("dotnet") = {Form({"test", "trx"}, Nat, {"fail", "detail", "total"}, {}),
                         Form({"binlog"}, Nat, {"err", "text"}, {}),
                         Form({"format"}, Nat, {"file", "text"}, {}), Form({"other"}, Nat, {"text"}, {})}
  BY DEF Forms
<1>1. \/ /\ in.ask \in {"test", "trx"} /\ Streams(in, {"fail", "detail", "total"}, {})
         /\ Heeds(in, {"fail", "detail", "total"}, {})
      \/ in.ask \in {"binlog"} /\ Streams(in, {"err", "text"}, {}) /\ Heeds(in, {"err", "text"}, {})
      \/ in.ask \in {"format"} /\ Streams(in, {"file", "text"}, {}) /\ Heeds(in, {"file", "text"}, {})
      \/ in.ask \in {"other"} /\ Streams(in, {"text"}, {}) /\ Heeds(in, {"text"}, {})
  <2>1. \/ Reads(in, Form({"test", "trx"}, Nat, {"fail", "detail", "total"}, {}))
        \/ Reads(in, Form({"binlog"}, Nat, {"err", "text"}, {}))
        \/ Reads(in, Form({"format"}, Nat, {"file", "text"}, {}))
        \/ Reads(in, Form({"other"}, Nat, {"text"}, {}))
    BY <1>0, Printing
  <2>2. QED
    BY <2>1, Forming
<1>2. CASE in.ask \in {"test", "trx"}
  <2>1. EvidenceOf(in) \subseteq fails
    BY <1>1, <1>2 DEF Heeds, Evidence, Of
  <2>2. Dotnet(in) = DotnetTests(in)
    BY <1>2 DEF Dotnet
  <2>3. DotnetTests(in) =
           IF in.ask = "trx" THEN IF fails = {} THEN Says("count", {}) ELSE Failures(in, fails, details)
           ELSE IF fails # {}
                THEN Budgeted(Shows(fails \cup details \cup totals), Shows(fails \cup totals), Says("count", totals))
                ELSE IF totals # {} THEN Shows(totals) ELSE Whole(in)
    BY DEF DotnetTests, Count
  <2> HIDE DEF fails, details, totals
  <2>4. CASE in.ask = "trx"
    BY <2>1, <2>2, <2>3, <2>4, ListGood, FailuresGood
  <2>5. CASE in.ask # "trx" /\ fails # {}
    <3> DEFINE b == Dotnet(in)
               u == fails \cup details \cup totals
               v == fails \cup totals
    <3>1. EvidenceOf(in) \subseteq u /\ EvidenceOf(in) \subseteq v
      BY <2>1
    <3>2. b = Budgeted(Shows(u), Shows(v), Says("count", totals))
      BY <2>2, <2>3, <2>5
    <3> HIDE DEF u, v, b
    <3>3. \/ Is(b, u, "nothing", "none", FALSE) \/ Is(b, v, "nothing", "digest", FALSE)
          \/ Is(b, totals, "count", "replacement", FALSE)
      BY <3>2, Shortened
    <3>4. Good("dotnet", in, b)
      BY <3>1, <3>3 DEF Good, Kept, Earned, Is
    <3>5. QED
      BY <3>4 DEF b
  <2>6. CASE in.ask # "trx" /\ fails = {}
    <3>1. EvidenceOf(in) \subseteq totals
      BY <2>1, <2>6
    <3>2. QED
      BY <2>2, <2>3, <2>6, <3>1, ListGood, WholeGood
  <2>7. QED
    BY <2>4, <2>5, <2>6
<1>3. CASE in.ask = "binlog"
  <2>1. EvidenceOf(in) \subseteq issues
    BY <1>1, <1>3 DEF Heeds, Evidence, Of
  <2>2. Dotnet(in) = Whole(in) \/ Dotnet(in) = Shows(issues)
    BY <1>3 DEF Dotnet
  <2>3. QED
    BY <2>1, <2>2, WholeGood, ListGood
<1>4. CASE in.ask = "format"
  <2>1. EvidenceOf(in) = {} /\ Of(in, {"err", "fail", "bad"}) = {}
    BY <1>1, <1>4 DEF Heeds, Streams, Evidence, Of
  <2>2. ~Has(in, {"text"}) /\ ~Has(in, {"file"}) => All(in) = {}
    BY <1>1, <1>4 DEF Streams, Has, Of
  <2>3. \/ Dotnet(in) = Whole(in)
        \/ Dotnet(in) = Says("count", Of(in, {"file"}))
        \/ All(in) = {}
    BY <1>4, <2>2 DEF Dotnet
  <2>4. QED
    BY <2>1, <2>3, WholeGood, ListGood, VerdictGood
<1>5. CASE in.ask = "other"
  BY <1>5, WholeGood DEF Dotnet
<1>6. QED
  BY <1>1, <1>2, <1>3, <1>4, <1>5

-----------------------------------------------------------------------------
(* Builds *)

LEMMA Importants ==
    ASSUME NEW in, NEW s
    PROVE  \/ Important(in, s) = Whole(in) /\ s = {}
           \/ Is(Important(in, s), s, "nothing", "none", FALSE)
           \/ Is(Important(in, s), FirstOf(s, Cap), "nothing", "digest", FALSE)
           \/ Is(Important(in, s), {}, "count", "replacement", FALSE)
  BY Shortened DEF Important, Count

\* Gradle's filter gives no verdict.
LEMMA GradleEarned ==
    ASSUME NEW in PROVE Earned(in, Gradle(in))
<1>1. \E s : Gradle(in) = Whole(in) \/ Gradle(in) = Important(in, s)
  BY DEF Gradle
<1>2. Gradle(in).says \in {"nothing", "count"}
  BY <1>1, Importants, Replies DEF Is
<1>3. QED
  BY <1>2 DEF Earned

LEMMA MavenGood ==
    ASSUME NEW in, Printed("mvn", in) PROVE Good("mvn", in, Maven(in))
<1> DEFINE kept == JavaEcosystem(in) \cup Of(in, {"verdict", "fail", "err", "detail"}) \cup FirstOf(Of(in, {"warn"}), 1)
<1>0. Forms("mvn") = {Form({"test", "quiet", "other"}, Nat, {"fail", "detail", "warn", "verdict", "noise"}, {"err"})}
  BY DEF Forms
<1>1. Heeds(in, {"fail", "detail", "warn", "verdict", "noise"}, {"err"})
  BY <1>0, OneForm
<1>2. EvidenceOf(in) \subseteq Of(in, {"verdict", "fail", "err", "detail"})
  BY <1>1 DEF Heeds, Evidence, Of
<1>3. EvidenceOf(in) \subseteq kept
  BY <1>2
<1>4. Maven(in) = Whole(in) \/ Maven(in) = Important(in, kept)
  BY DEF Maven
<1>5. "mvn" \in Shortening
  BY DEF Shortening
<1> HIDE DEF kept
<1>6. \/ Maven(in) = Whole(in)
      \/ Is(Maven(in), kept, "nothing", "none", FALSE)
      \/ Is(Maven(in), FirstOf(kept, Cap), "nothing", "digest", FALSE)
      \/ Is(Maven(in), {}, "count", "replacement", FALSE)
  BY <1>4, Importants
<1>7. CASE Maven(in) = Whole(in)
  BY <1>7, WholeGood
<1>8. CASE Maven(in) # Whole(in)
  BY <1>3, <1>5, <1>6, <1>8 DEF Good, Kept, Earned, Is
<1>9. QED
  BY <1>7, <1>8

LEMMA NextBuildGood ==
    ASSUME NEW in, Printed("next", in) PROVE Good("next", in, NextBuild(in))
<1>0. Forms("next") = {Form({"build", "lint"}, Nat, {"route", "warn", "other"}, {"err"})}
  BY DEF Forms
<1>1. Streams(in, {"route", "warn", "other"}, {"err"}) /\ Heeds(in, {"route", "warn", "other"}, {"err"})
  BY <1>0, OneForm
<1>2. CASE in.exit = 0
  <2>1. {"route", "warn", "other"} \cap Evidence = {} /\ {"err"} \cap Evidence \subseteq {"err"}
    BY DEF Evidence
  <2>2. QED
    BY <1>1, <1>2, <2>1, Printing, WorkedGood
<1>3. CASE in.exit # 0
  BY <1>3, WholeGood DEF NextBuild
<1>4. QED
  BY <1>2, <1>3

LEMMA NpmKept ==
    ASSUME NEW in, Printed("npm", in) PROVE ~ExcusedFor("npm", in) => Kept("npm", in, Npm(in))
<1> DEFINE kept == All(in) \ Of(in, {"banner", "notice", "warn", "blank"})
<1>0. Forms("npm") = {Form(P, Nat, {"banner", "notice", "peer", "other"}, {"err", "warn"})}
  BY DEF Forms
<1>1. Heeds(in, {"banner", "notice", "peer", "other"}, {"err", "warn"})
  BY <1>0, OneForm
<1>2. EvidenceOf(in) \subseteq kept
  BY <1>1 DEF Heeds, Evidence, Of
<1>3. Npm(in) = IF kept = {} THEN Says("ok", {}) ELSE Shows(kept)
  BY DEF Npm
<1> HIDE DEF kept
<1>4. CASE kept = {}
  BY <1>2, <1>4 DEF Kept
<1>5. CASE kept # {}
  BY <1>2, <1>3, <1>5, ListGood DEF Good
<1>6. QED
  BY <1>4, <1>5

LEMMA PrismaGood ==
    ASSUME NEW in, Printed("prisma", in) PROVE Good("prisma", in, Prisma(in))
<1>0. Forms("prisma") = {Form({"generate", "dev", "status", "other"}, Nat, {"note"}, {"err"}),
                         Form({"deploy"}, Nat, {"note", "err"}, {})}
  BY DEF Forms
<1>1. \/ /\ in.ask \in {"generate", "dev", "status", "other"}
         /\ Streams(in, {"note"}, {"err"}) /\ Heeds(in, {"note"}, {"err"})
      \/ in.ask \in {"deploy"} /\ Streams(in, {"note", "err"}, {}) /\ Heeds(in, {"note", "err"}, {})
  <2>1. \/ Reads(in, Form({"generate", "dev", "status", "other"}, Nat, {"note"}, {"err"}))
        \/ Reads(in, Form({"deploy"}, Nat, {"note", "err"}, {}))
    BY <1>0, Printing
  <2>2. QED
    BY <2>1, Forming
<1>2. CASE in.exit # 0
  BY <1>2, WholeGood DEF Prisma
<1>3. CASE in.exit = 0 /\ in.ask # "deploy"
  <2>1. {"note"} \cap Evidence = {} /\ {"err"} \cap Evidence \subseteq {"err"}
    BY DEF Evidence
  <2>2. Streams(in, {"note"}, {"err"}) /\ Heeds(in, {"note"}, {"err"})
    BY <1>1, <1>3
  <2>3. QED
    BY <1>3, <2>1, <2>2, Printing, WorkedGood
<1>4. CASE in.exit = 0 /\ in.ask = "deploy"
  <2> DEFINE errs == Of(in, {"err"})
  <2>1. EvidenceOf(in) \subseteq errs /\ Of(in, {"err", "fail", "bad"}) \subseteq errs
    BY <1>1, <1>4 DEF Heeds, Streams, Evidence, Of
  <2>2. Prisma(in) = IF errs # {} THEN Shows(errs) ELSE Says("ok", {})
    BY <1>4 DEF Prisma, Has
  <2> HIDE DEF errs
  <2>3. CASE errs = {}
    BY <1>4, <2>1, <2>3, VerdictGood
  <2>4. CASE errs # {}
    BY <2>1, <2>2, <2>4, ListGood
  <2>5. QED
    BY <2>3, <2>4
<1>5. QED
  BY <1>2, <1>3, <1>4

LEMMA TerraformGood ==
    ASSUME NEW in, Printed("terraform", in) PROVE Good("terraform", in, Terraform(in))
<1> DEFINE closed(i) == \E t \in 1 .. i : Lines(in)[t] = "rule" /\ After(in, t, {"actions"})
           planned == {i \in All(in) \ Of(in, {"noise"}) : ~closed(i)}
           tested == All(in) \ Of(in, {"noise", "pass"})
<1>0. Forms("terraform") = {Form({"plan", "test", "other"}, Nat, {"noise", "actions", "change", "rule", "verdict"}, {"err"})}
  BY DEF Forms
<1>1. /\ Streams(in, {"noise", "actions", "change", "rule", "verdict"}, {"err"})
      /\ Heeds(in, {"noise", "actions", "change", "rule", "verdict"}, {"err"})
  BY <1>0, OneForm
<1>2. Planned(in.out)
  BY DEF Printed, Placed
<1>3. EvidenceOf(in) \subseteq tested
  BY <1>1 DEF Heeds, Evidence, Of
<1>4. ASSUME Out(in) # {} PROVE EvidenceOf(in) \subseteq planned
  <2> SUFFICES ASSUME NEW i \in EvidenceOf(in), NEW t \in 1 .. i, Lines(in)[t] = "rule", After(in, t, {"actions"})
               PROVE  FALSE
    BY <1>1 DEF Heeds, Evidence, Of
  <2>1. i \in Out(in) /\ Lines(in)[i] = "change"
    BY <1>1, <1>4 DEF Heeds, Evidence
  <2>2. i \in 1 .. Len(in.out) /\ in.out[i] = "change" /\ Len(in.out) \in Nat
    BY <2>1, Printing
  <2>3. t \in 1 .. Len(in.out) /\ i \in t .. Len(in.out) /\ t \in Out(in)
    BY <2>2, Printing
  <2>4. in.out[t] = "rule"
    BY <2>3, Printing
  <2>5. PICK h \in 1 .. t - 1 : Lines(in)[h] = "actions"
    BY DEF After
  <2>6. h \in Out(in)
    BY <2>2, <2>3, Printing
  <2>7. Below(in.out, t, "actions")
    BY <2>5, <2>6, Printing DEF Below
  <2>8. QED
    BY <1>2, <2>2, <2>3, <2>4, <2>7 DEF Planned
<1>5. ASSUME Out(in) = {} PROVE ~Has(in, {"actions", "verdict"})
  BY <1>1, <1>5 DEF Streams, Has, Of
<1>6. \/ Terraform(in) = Whole(in) \/ Terraform(in) = Shows(tested)
      \/ Terraform(in) = Shows(planned) /\ Out(in) # {}
  <2>1. Plan(in) = Whole(in) \/ (Plan(in) = Shows(planned) /\ Out(in) # {})
    BY <1>5 DEF Plan
  <2>2. QED
    BY <2>1 DEF Terraform
<1> HIDE DEF planned, tested
<1>7. QED
  BY <1>3, <1>4, <1>6, WholeGood, ListGood

-----------------------------------------------------------------------------
(* Packages *)

\* A listing of s, and more lines below it.
LEMMA AddedGood ==
    ASSUME NEW t, NEW in, NEW s, NEW x, EvidenceOf(in) \subseteq s \cup x
    PROVE  Good(t, in, Plus(Listing(Says("count", s), Count), x))
<1> DEFINE b == Listing(Says("count", s), Count)
<1>1. Is(b, s, "count", "none", FALSE) \/ Is(b, s, "count", "digest", FALSE) \/ Is(b, {}, "count", "replacement", FALSE)
  BY Counted DEF Listing
<1> HIDE DEF b
<1>2. \/ Is(Plus(b, x), s \cup x, "count", "none", FALSE)
      \/ Is(Plus(b, x), s \cup x, "count", "digest", FALSE)
      \/ Is(Plus(b, x), {} \cup x, "count", "replacement", FALSE)
  BY <1>1, Pluses
<1>3. Good(t, in, Plus(b, x))
  BY <1>2 DEF Good, Kept, Earned, Is
<1>4. QED
  BY <1>3 DEF b

LEMMA PackageListGood ==
    ASSUME NEW in, Printed("npm ls", in) PROVE Good("npm ls", in, PackageList(in))
<1> DEFINE deps == Of(in, {"dep"})
           problems == Of(in, {"problem"})
<1>0. Forms("npm ls") = {Form(P, Nat, {"dep", "problem", "other"}, {"problem"})}
  BY DEF Forms
<1>1. Heeds(in, {"dep", "problem", "other"}, {"problem"})
  BY <1>0, OneForm
<1>2. EvidenceOf(in) \subseteq deps \cup problems
  BY <1>1 DEF Heeds, Evidence, Of
<1>3. PackageList(in) = IF deps # {} THEN Plus(Listing(Says("count", deps), Count), problems)
                        ELSE IF problems # {} THEN Shows(problems) ELSE Whole(in)
  BY DEF PackageList
<1> HIDE DEF deps, problems
<1>4. CASE deps # {}
  BY <1>2, <1>3, <1>4, AddedGood
<1>5. CASE deps = {}
  <2>1. EvidenceOf(in) \subseteq problems
    BY <1>2, <1>5
  <2>2. QED
    BY <1>3, <1>5, <2>1, ListGood, WholeGood
<1>6. QED
  BY <1>4, <1>5

LEMMA PipGood ==
    ASSUME NEW in, Printed("pip", in) PROVE Good("pip", in, Pip(in))
<1> DEFINE deps == Of(in, {"dep"})
           problems == Of(in, {"problem"})
           listed == IF deps = {} THEN Says("clean", {}) ELSE Listing(Says("count", deps), Count)
<1>0. Forms("pip") = {Form({"list"}, {0}, {"dep", "problem", "other"}, {}),
                      Form({"list", "freeze", "outdated"}, Nat, {"dep", "other"}, {"err"})}
  BY DEF Forms
<1>1. \/ /\ in.ask \in {"list"} /\ in.exit \in {0}
         /\ Streams(in, {"dep", "problem", "other"}, {}) /\ Heeds(in, {"dep", "problem", "other"}, {})
      \/ /\ in.ask \in {"list", "freeze", "outdated"}
         /\ Streams(in, {"dep", "other"}, {"err"}) /\ Heeds(in, {"dep", "other"}, {"err"})
  BY <1>0, TwoForms
<1>2. ASSUME deps \cup problems # {} PROVE EvidenceOf(in) \subseteq deps \cup problems
  <2>1. Out(in) # {}
    BY <1>1, <1>2 DEF Streams, Of
  <2>2. QED
    BY <1>1, <2>1 DEF Heeds, Evidence, Of
<1>3. /\ Pip(in) = CASE in.ask = "freeze" -> Whole(in)
                     [] in.ask = "outdated" -> IF All(in) = {} THEN Says("clean", {})
                                               ELSE IF deps = {} THEN Whole(in) ELSE listed
                     [] OTHER -> IF deps \cup problems = {} THEN Whole(in) ELSE Plus(listed, problems)
  BY DEF Pip
<1>4. ASSUME in.ask = "outdated" PROVE problems = {}
  BY <1>1, <1>4 DEF Streams, Of
<1>5. ASSUME deps = {}, problems # {} PROVE in.exit = 0 /\ Of(in, {"err", "fail", "bad"}) = {}
  BY <1>1, <1>5 DEF Streams, Of
<1>6. All(in) = {} => EvidenceOf(in) = {} /\ Of(in, {"err", "fail", "bad"}) = {}
  BY DEF EvidenceOf, Of
<1> HIDE DEF deps, problems
<1>7. CASE Pip(in) = Whole(in)
  BY <1>7, WholeGood
<1>8. CASE in.ask = "outdated" /\ Pip(in) # Whole(in)
  <2>1. All(in) = {} \/ Pip(in) = Listing(Says("count", deps), Count)
    BY <1>3, <1>8
  <2>2. CASE All(in) = {}
    BY <1>6, <2>2, VerdictGood
  <2>3. CASE All(in) # {}
    <3>1. EvidenceOf(in) \subseteq deps
      BY <1>2, <1>3, <1>4, <1>8, <2>3
    <3>2. QED
      BY <2>1, <2>3, <3>1, ListGood
  <2>4. QED
    BY <2>2, <2>3
<1>9. CASE in.ask # "outdated" /\ Pip(in) # Whole(in)
  <2>1. deps \cup problems # {} /\ Pip(in) = Plus(listed, problems)
    BY <1>1, <1>3, <1>9
  <2>2. EvidenceOf(in) \subseteq deps \cup problems
    BY <1>2, <2>1
  <2>3. CASE deps # {}
    BY <2>1, <2>2, <2>3, AddedGood
  <2>4. CASE deps = {}
    <3>1. Is(Says("clean", {}), {}, "clean", "none", FALSE)
      BY Replies
    <3>2. Is(Plus(Says("clean", {}), problems), {} \cup problems, "clean", "none", FALSE)
      BY <3>1, Pluses
    <3>3. Is(Pip(in), {} \cup problems, "clean", "none", FALSE)
      BY <2>1, <2>4, <3>2
    <3>4. QED
      BY <1>5, <2>1, <2>2, <2>4, <3>3 DEF Good, Kept, Earned, Is
  <2>5. QED
    BY <2>3, <2>4
<1>10. QED
  BY <1>7, <1>8, <1>9

-----------------------------------------------------------------------------
(* Tools that reach over the network *)

\* If the tool worked, the only evidence is on standard output.
LEMMA WorkedOut ==
    ASSUME NEW in, NEW A, NEW B, Streams(in, A, B), Heeds(in, A, B), Quiet(in), in.exit = 0,
           B \cap Evidence \subseteq {"err"}
    PROVE  /\ EvidenceOf(in) \subseteq Out(in)
           /\ A \cap {"err", "fail", "bad"} = {} => Of(in, {"err", "fail", "bad"}) = {}
<1>1. EvidenceOf(in) \subseteq Out(in)
  BY DEF Heeds, Quiet
<1>2. \A i \in All(in) \ Out(in) : Lines(in)[i] \notin {"err", "fail", "bad"}
  BY DEF Streams, Quiet, Evidence
<1>3. A \cap {"err", "fail", "bad"} = {} => \A i \in Out(in) : Lines(in)[i] \notin {"err", "fail", "bad"}
  BY DEF Streams
<1>4. QED
  BY <1>1, <1>2, <1>3 DEF Of

LEMMA AwsGood ==
    ASSUME NEW in, Printed("aws", in) PROVE Good("aws", in, Aws(in))
<1> DEFINE rows == Out(in) \cap Of(in, {"row"})
           details == Out(in) \cap Of(in, {"detail"})
<1>0. Forms("aws") = {Form({"list", "other"}, Nat, {"row", "detail", "text"}, {"err"})}
  BY DEF Forms
<1>1. Streams(in, {"row", "detail", "text"}, {"err"}) /\ Heeds(in, {"row", "detail", "text"}, {"err"})
  BY <1>0, OneForm
<1>2. Aws(in) = Whole(in) \/ (in.exit = 0 /\ Aws(in) = Failures(in, rows, details))
  BY DEF Aws, AwsRows, Failures
<1>3. CASE Aws(in) = Whole(in)
  BY <1>3, WholeGood
<1>4. CASE Aws(in) # Whole(in)
  <2>1. {"err"} \cap Evidence \subseteq {"err"}
    BY DEF Evidence
  <2>2. EvidenceOf(in) \subseteq Out(in)
    BY <1>1, <1>2, <1>4, <2>1, Printing, WorkedOut
  <2>3. EvidenceOf(in) \subseteq rows
    BY <1>1, <2>2 DEF Heeds, Evidence, Of
  <2> HIDE DEF rows, details
  <2>4. QED
    BY <1>2, <1>4, <2>3, FailuresGood
<1>5. QED
  BY <1>3, <1>4

LEMMA DockerGood ==
    ASSUME NEW in, Printed("docker", in) PROVE Good("docker", in, Docker(in))
<1> DEFINE rows == Out(in) \cap Of(in, {"row"})
           first == FirstOf(Of(in, {"step"}), 1)
<1>0. Forms("docker") = {Form({"ps", "images"}, Nat, {"row", "odd"}, {"err"}),
                         Form({"compose build", "compose logs"}, Nat, {"step"}, {"err"})}
  BY DEF Forms
<1>1. \/ /\ in.ask \in {"ps", "images"}
         /\ Streams(in, {"row", "odd"}, {"err"}) /\ Heeds(in, {"row", "odd"}, {"err"})
      \/ /\ in.ask \in {"compose build", "compose logs"}
         /\ Streams(in, {"step"}, {"err"}) /\ Heeds(in, {"step"}, {"err"})
  <2>1. \/ Reads(in, Form({"ps", "images"}, Nat, {"row", "odd"}, {"err"}))
        \/ Reads(in, Form({"compose build", "compose logs"}, Nat, {"step"}, {"err"}))
    BY <1>0, Printing
  <2>2. QED
    BY <2>1, Forming
<1>2. CASE in.exit # 0
  BY <1>2, WholeGood DEF Docker
<1>3. CASE in.exit = 0 /\ in.ask \in {"ps", "images"}
  <2>1. Streams(in, {"row", "odd"}, {"err"}) /\ Heeds(in, {"row", "odd"}, {"err"})
    BY <1>1, <1>3
  <2>2. {"err"} \cap Evidence \subseteq {"err"} /\ {"row", "odd"} \cap {"err", "fail", "bad"} = {}
    BY DEF Evidence
  <2>3. EvidenceOf(in) \subseteq Out(in) /\ Of(in, {"err", "fail", "bad"}) = {}
    BY <1>3, <2>1, <2>2, Printing, WorkedOut
  <2>4. EvidenceOf(in) \subseteq rows
    BY <2>1, <2>3 DEF Heeds, Evidence, Of
  <2>5. Docker(in) = IF Out(in) = {} THEN Says("clean", {}) ELSE Listing(Says("count", rows), Count)
    BY <1>3 DEF Docker, DockerRows, Rows
  <2>6. CASE Out(in) = {}
    BY <1>3, <2>3, <2>6, VerdictGood
  <2>7. CASE Out(in) # {}
    BY <2>4, <2>5, <2>7, ListGood
  <2>8. QED
    BY <2>6, <2>7
<1>4. CASE in.exit = 0 /\ in.ask \in {"compose build", "compose logs"}
  <2>1. Streams(in, {"step"}, {"err"}) /\ Heeds(in, {"step"}, {"err"})
    BY <1>1, <1>4
  <2>2. {"step"} \cap Evidence = {} /\ {"err"} \cap Evidence \subseteq {"err"}
    BY DEF Evidence
  <2>3. QED
    BY <1>4, <2>1, <2>2, Printing, WorkedGood
<1>5. QED
  BY <1>1, <1>2, <1>3, <1>4

LEMMA KubectlEarned ==
    ASSUME NEW in, Printed("kubectl", in) PROVE Earned(in, Kubectl(in))
<1> DEFINE bad == Out(in) \cap Of(in, {"bad"})
           rows == Out(in) \cap Of(in, {"row"})
<1>0. Forms("kubectl") = {Form({"pods"}, Nat, {"good", "bad", "text"}, {"err"}), Form({"pods"}, Nat, {"one"}, {"err"}),
                          Form({"services"}, Nat, {"row"}, {"err"}), Form({"logs", "other"}, Nat, {"text"}, {"err"})}
  BY DEF Forms
<1>1. \/ in.ask \in {"pods"} /\ Streams(in, {"good", "bad", "text"}, {"err"})
      \/ in.ask \in {"pods"} /\ Streams(in, {"one"}, {"err"})
      \/ in.ask \in {"services"} /\ Streams(in, {"row"}, {"err"})
      \/ in.ask \in {"logs", "other"} /\ Streams(in, {"text"}, {"err"})
  <2>1. \/ Reads(in, Form({"pods"}, Nat, {"good", "bad", "text"}, {"err"}))
        \/ Reads(in, Form({"pods"}, Nat, {"one"}, {"err"}))
        \/ Reads(in, Form({"services"}, Nat, {"row"}, {"err"}))
        \/ Reads(in, Form({"logs", "other"}, Nat, {"text"}, {"err"}))
    BY <1>0, Printing
  <2>2. QED
    BY <2>1, Forming
<1>2. /\ Quiet(in)
      /\ \A s : Listing(Says("count", s), Count).says = "count"
      /\ \A s : Shows(s).says = "nothing" /\ Whole(in).says = "nothing"
  <2>1. \A s : LET b == Listing(Says("count", s), Count)
               IN  \/ Is(b, s, "count", "none", FALSE) \/ Is(b, s, "count", "digest", FALSE)
                   \/ Is(b, {}, "count", "replacement", FALSE)
    BY Counted DEF Listing
  <2>2. QED
    BY <2>1, Printing, Replies DEF Is
<1>3. CASE Kubectl(in).says \notin {"ok", "clean"}
  BY <1>3 DEF Earned
<1>4. CASE Kubectl(in).says \in {"ok", "clean"}
  <2>1. /\ in.exit = 0
        /\ \/ in.ask = "services" /\ Of(in, {"row"}) = {}
           \/ in.ask \in {"pods"} /\ (Has(in, {"one"}) \/ Of(in, {"good", "bad"}) = {})
    <3>1. \/ Kubectl(in) = Whole(in) \/ Kubectl(in) = Shows(Out(in))
          \/ in.exit = 0 /\ in.ask = "services" /\ Kubectl(in) = Services(in)
          \/ in.exit = 0 /\ in.ask = "pods" /\ Kubectl(in) = Pods(in)
      BY <1>1 DEF Kubectl
    <3>2. Services(in) = IF Of(in, {"row"}) = {} THEN Says("clean", {}) ELSE Listing(Says("count", rows), Count)
      BY DEF Services, Rows
    <3>3. Pods(in) = IF Has(in, {"one"}) \/ Of(in, {"good", "bad"}) = {} THEN Says("clean", {})
                     ELSE Listing(Says("count", bad), Count)
      BY DEF Pods
    <3> HIDE DEF rows, bad
    <3>4. QED
      BY <1>2, <1>4, <3>1, <3>2, <3>3
  <2>2. \A i \in All(in) : Lines(in)[i] \notin {"err", "fail", "bad"}
    BY <1>1, <1>2, <2>1 DEF Streams, Quiet, Has, Of
  <2>3. Of(in, {"err", "fail", "bad"}) = {}
    BY <2>2 DEF Of
  <2>4. QED
    BY <2>1, <2>3 DEF Earned
<1>5. QED
  BY <1>3, <1>4

LEMMA CurlGood ==
    ASSUME NEW in PROVE Good("curl", in, Curl(in))
<1>1. \/ Curl(in) = Whole(in)
      \/ Curl(in).omission = "digest" /\ Curl(in).says = "count"
  BY DEF Curl, Says, Shows
<1>2. "curl" \in Shortening
  BY DEF Shortening
<1>3. QED
  BY <1>1, <1>2, WholeGood DEF Good, Kept, Earned

LEMMA WgetEarned ==
    ASSUME NEW in, Printed("wget", in) PROVE Earned(in, Wget(in))
<1>0. Forms("wget") = {Form({"file"}, Nat, {}, {"err", "other"}), Form({"body"}, Nat, {"line"}, {"err", "other"})}
  BY DEF Forms
<1>1. \/ in.ask \in {"file"} /\ Streams(in, {}, {"err", "other"}) /\ Heeds(in, {}, {"err", "other"})
      \/ in.ask \in {"body"} /\ Streams(in, {"line"}, {"err", "other"}) /\ Heeds(in, {"line"}, {"err", "other"})
  <2>1. \/ Reads(in, Form({"file"}, Nat, {}, {"err", "other"}))
        \/ Reads(in, Form({"body"}, Nat, {"line"}, {"err", "other"}))
    BY <1>0, Printing
  <2>2. QED
    BY <2>1, Forming
<1>2. CASE in.exit # 0
  <2>1. Wget(in) = WgetFailure(in)
    BY <1>2 DEF Wget
  <2>2. Wget(in).says = "nothing"
    BY <2>1, Replies DEF WgetFailure, Is
  <2>3. QED
    BY <2>2 DEF Earned
<1>3. CASE in.exit = 0
  <2>1. \A i \in All(in) : Lines(in)[i] \notin {"err", "fail", "bad"}
    BY <1>1, <1>3, Printing DEF Streams, Quiet
  <2>2. Of(in, {"err", "fail", "bad"}) = {}
    BY <2>1 DEF Of
  <2>3. QED
    BY <1>3, <2>2 DEF Earned
<1>4. QED
  BY <1>2, <1>3

LEMMA PsqlGood ==
    ASSUME NEW in, Printed("psql", in) PROVE Good("psql", in, Psql(in))
<1> DEFINE late(i) == Lines(in)[i] = "other" /\ \E h \in 1 .. i : Lines(in)[h] = "row"
           cells == All(in) \ Of(in, {"rule", "total", "blank"})
           fields == {i \in cells : ~late(i)}
           first == FirstOf(Of(in, {"row"}), 1)
<1>0. Forms("psql") = {Form({"table", "expanded", "other"}, Nat, {"row", "rule", "total", "other"}, {"err"})}
  BY DEF Forms
<1>1. Heeds(in, {"row", "rule", "total", "other"}, {"err"})
  BY <1>0, OneForm
<1>2. EvidenceOf(in) \subseteq cells /\ EvidenceOf(in) \subseteq fields /\ EvidenceOf(in) \subseteq All(in)
  BY <1>1 DEF Heeds, Evidence, Of
<1>3. \/ Psql(in) = Listing(Shows(cells), Says("count", first))
      \/ Psql(in) = Listing(Shows(fields), Says("count", {}))
      \/ Psql(in) = Listing(Shows(All(in)), Says("count", {}))
  BY DEF Psql, PsqlTable, PsqlExpanded, Whole, Count
<1> HIDE DEF cells, fields, first
<1>4. QED
  BY <1>2, <1>3, ListGood

-----------------------------------------------------------------------------
(* Every filter *)

LEMMA GoodKeeps ==
    ASSUME NEW t, NEW in, Good(t, in, Filter(t, in)) PROVE Keeps(t, in) /\ Earns(t, in)
  BY DEF Good, Keeps, Earns

\* Of a handler that is trusted with no verdict, and of one that drops lines by design.
LEMMA KeptKeeps ==
    ASSUME NEW t, NEW in, t \in Credulous, ~ExcusedFor(t, in) => Kept(t, in, Filter(t, in))
    PROVE  Keeps(t, in) /\ Earns(t, in)
  BY DEF Keeps, Earns

LEMMA EarnedKeeps ==
    ASSUME NEW t, NEW in, t \in Selective, Earned(in, Filter(t, in)) PROVE Keeps(t, in) /\ Earns(t, in)
  BY DEF Keeps, Earns

\* The tools of handlers/git, and diff.
LEMMA GitToolsKeep ==
    ASSUME NEW t \in {"git diff", "git show", "git log", "git status", "git branch", "git", "gt", "gh",
                      "glab release", "diff"},
           NEW in, Printed(t, in)
    PROVE  Keeps(t, in) /\ Earns(t, in)
<1>1. CASE t = "git diff"
  BY <1>1, GitDiffGood, GoodKeeps DEF Filter
<1>2. CASE t = "git show"
  BY <1>2, GitShowGood, GoodKeeps DEF Filter
<1>3. CASE t = "git log"
  BY <1>3, GitLogGood, GoodKeeps DEF Filter
<1>4. CASE t = "git status"
  BY <1>4, GitStatusGood, GoodKeeps DEF Filter
<1>5. CASE t = "git branch"
  BY <1>5, GitBranchGood, GoodKeeps DEF Filter
<1>6. CASE t = "git"
  BY <1>6, GitWriteGood, GoodKeeps DEF Filter
<1>7. CASE t = "gt"
  BY <1>7, GraphiteGood, GoodKeeps DEF Filter
<1>8. CASE t = "gh"
  BY <1>8, HostingGood, GoodKeeps DEF Filter
<1>9. CASE t = "glab release"
  BY <1>9, ReleasesGood, GoodKeeps DEF Filter
<1>10. CASE t = "diff"
  <2>1. "diff" \in Credulous /\ Filter("diff", in) = Diff(in)
    BY DEF Filter, Credulous
  <2>2. QED
    BY <1>10, <2>1, DiffGood, KeptKeeps
<1>11. QED
  BY <1>1, <1>2, <1>3, <1>4, <1>5, <1>6, <1>7, <1>8, <1>9, <1>10

\* The tools of handlers/system.
LEMMA SystemToolsKeep ==
    ASSUME NEW t \in {"grep", "find", "dir", "type", "cat", "ls", "tree", "wc", "env", "json", "deps",
                      "format", "err", "test", "summary", "log", "pipe", "smart"},
           NEW in, Printed(t, in)
    PROVE  Keeps(t, in) /\ Earns(t, in)
<1>1. CASE t = "grep"
  BY <1>1, SearchGood, GoodKeeps DEF Filter
<1>2. CASE t = "find"
  BY <1>2, FindGood, GoodKeeps DEF Filter
<1>3. CASE t = "dir"
  BY <1>3, DirListingGood, GoodKeeps DEF Filter
<1>4. CASE t = "type"
  BY <1>4, ReadLikeGood, GoodKeeps DEF Filter
<1>5. CASE t = "cat"
  BY <1>5, ReadGood, GoodKeeps DEF Filter
<1>6. CASE t = "ls"
  BY <1>6, LsGood, GoodKeeps DEF Filter
<1>7. CASE t = "tree"
  BY <1>7, TreeGood, GoodKeeps DEF Filter
<1>8. CASE t = "wc"
  BY <1>8, WcGood, GoodKeeps DEF Filter
<1>9. CASE t = "env"
  BY <1>9, EnvGood, GoodKeeps DEF Filter
<1>10. CASE t = "json"
  BY <1>10, JsonGood, GoodKeeps DEF Filter
<1>11. CASE t = "deps"
  BY <1>11, DepsGood, GoodKeeps DEF Filter
<1>12. CASE t = "format"
  <2>1. "format" \in Credulous /\ Filter("format", in) = Format(in)
    BY DEF Filter, Credulous
  <2>2. QED
    BY <1>12, <2>1, FormatKept, KeptKeeps
<1>13. CASE t = "err"
  BY <1>13, ErrGood, GoodKeeps DEF Filter
<1>14. CASE t = "test"
  <2>1. "test" \in Selective /\ Filter("test", in) = TestRunner(in)
    BY DEF Filter, Selective
  <2>2. QED
    BY <1>14, <2>1, TestRunnerEarned, EarnedKeeps
<1>15. CASE t = "summary"
  BY <1>15 DEF Keeps, Earns, Selective, Credulous
<1>16. CASE t = "log"
  <2>1. "log" \in Selective /\ Filter("log", in) = Log(in)
    BY DEF Filter, Selective
  <2>2. QED
    BY <1>16, <2>1, LogEarned, EarnedKeeps
<1>17. CASE t = "pipe"
  BY <1>17, PipeGood, GoodKeeps DEF Filter
<1>18. CASE t = "smart"
  BY <1>18, SmartGood, GoodKeeps DEF Filter
<1>19. QED
  BY <1>1, <1>2, <1>3, <1>4, <1>5, <1>6, <1>7, <1>8, <1>9, <1>10, <1>11, <1>12, <1>13, <1>14, <1>15, <1>16, <1>17, <1>18

\* The tools of handlers/js, java, python, dotnet and iac.
LEMMA BuildToolsKeep ==
    ASSUME NEW t \in {"eslint", "tsc", "mypy", "ruff", "javac", "prettier", "jest", "playwright", "pytest",
                      "dotnet", "gradle", "mvn", "next", "npm", "prisma", "terraform", "npm ls", "pip"},
           NEW in, Printed(t, in)
    PROVE  Keeps(t, in) /\ Earns(t, in)
<1>1. CASE t = "eslint"
  BY <1>1, EslintGood, GoodKeeps DEF Filter
<1>2. CASE t = "tsc"
  BY <1>2, TscGood, GoodKeeps DEF Filter
<1>3. CASE t = "mypy"
  <2>1. "mypy" \in Credulous /\ Filter("mypy", in) = Mypy(in)
    BY DEF Filter, Credulous
  <2>2. QED
    BY <1>3, <2>1, MypyKept, KeptKeeps
<1>4. CASE t = "ruff"
  BY <1>4, RuffGood, GoodKeeps DEF Filter
<1>5. CASE t = "javac"
  BY <1>5, JavacGood, GoodKeeps DEF Filter
<1>6. CASE t = "prettier"
  BY <1>6, PrettierGood, GoodKeeps DEF Filter
<1>7. CASE t = "jest"
  BY <1>7, TestReportGood, GoodKeeps DEF Filter
<1>8. CASE t = "playwright"
  BY <1>8, TestReportGood, GoodKeeps DEF Filter, Playwright
<1>9. CASE t = "pytest"
  BY <1>9 DEF Keeps, Earns, Selective, Credulous
<1>10. CASE t = "dotnet"
  BY <1>10, DotnetGood, GoodKeeps DEF Filter
<1>11. CASE t = "gradle"
  <2>1. "gradle" \in Selective /\ Filter("gradle", in) = Gradle(in)
    BY DEF Filter, Selective
  <2>2. QED
    BY <1>11, <2>1, GradleEarned, EarnedKeeps
<1>12. CASE t = "mvn"
  BY <1>12, MavenGood, GoodKeeps DEF Filter
<1>13. CASE t = "next"
  BY <1>13, NextBuildGood, GoodKeeps DEF Filter
<1>14. CASE t = "npm"
  <2>1. "npm" \in Credulous /\ Filter("npm", in) = Npm(in)
    BY DEF Filter, Credulous
  <2>2. QED
    BY <1>14, <2>1, NpmKept, KeptKeeps
<1>15. CASE t = "prisma"
  BY <1>15, PrismaGood, GoodKeeps DEF Filter
<1>16. CASE t = "terraform"
  BY <1>16, TerraformGood, GoodKeeps DEF Filter
<1>17. CASE t = "npm ls"
  BY <1>17, PackageListGood, GoodKeeps DEF Filter
<1>18. CASE t = "pip"
  BY <1>18, PipGood, GoodKeeps DEF Filter
<1>19. QED
  BY <1>1, <1>2, <1>3, <1>4, <1>5, <1>6, <1>7, <1>8, <1>9, <1>10, <1>11, <1>12, <1>13, <1>14, <1>15, <1>16, <1>17, <1>18

\* The tools of handlers/cloud.
LEMMA CloudToolsKeep ==
    ASSUME NEW t \in {"aws", "docker", "kubectl", "curl", "wget", "psql"},
           NEW in, Printed(t, in)
    PROVE  Keeps(t, in) /\ Earns(t, in)
<1>1. CASE t = "aws"
  BY <1>1, AwsGood, GoodKeeps DEF Filter
<1>2. CASE t = "docker"
  BY <1>2, DockerGood, GoodKeeps DEF Filter
<1>3. CASE t = "kubectl"
  <2>1. "kubectl" \in Selective /\ Filter("kubectl", in) = Kubectl(in)
    BY DEF Filter, Selective
  <2>2. QED
    BY <1>3, <2>1, KubectlEarned, EarnedKeeps
<1>4. CASE t = "curl"
  BY <1>4, CurlGood, GoodKeeps DEF Filter
<1>5. CASE t = "wget"
  <2>1. "wget" \in Selective /\ Filter("wget", in) = Wget(in)
    BY DEF Filter, Selective
  <2>2. QED
    BY <1>5, <2>1, WgetEarned, EarnedKeeps
<1>6. CASE t = "psql"
  BY <1>6, PsqlGood, GoodKeeps DEF Filter
<1>7. QED
  BY <1>1, <1>2, <1>3, <1>4, <1>5, <1>6

\* Whatever a tool prints, its filter loses no evidence and gives no verdict it has not earned.
LEMMA FiltersKeep ==
    ASSUME NEW t, NEW in, Printed(t, in)
    PROVE  Keeps(t, in) /\ Earns(t, in)
<1> DEFINE git == {"git diff", "git show", "git log", "git status", "git branch", "git", "gt", "gh",
                   "glab release", "diff"}
           system == {"grep", "find", "dir", "type", "cat", "ls", "tree", "wc", "env", "json", "deps",
                      "format", "err", "test", "summary", "log", "pipe", "smart"}
           build == {"eslint", "tsc", "mypy", "ruff", "javac", "prettier", "jest", "playwright", "pytest",
                     "dotnet", "gradle", "mvn", "next", "npm", "prisma", "terraform", "npm ls", "pip"}
           cloud == {"aws", "docker", "kubectl", "curl", "wget", "psql"}
<1>1. CASE t \in git
  BY <1>1, GitToolsKeep
<1>2. CASE t \in system
  BY <1>2, SystemToolsKeep
<1>3. CASE t \in build
  BY <1>3, BuildToolsKeep
<1>4. CASE t \in cloud
  BY <1>4, CloudToolsKeep
<1>5. CASE t \notin git \cup system \cup build \cup cloud
  <2>1. Filter(t, in) = Whole(in)
    BY <1>5 DEF Filter
  <2>2. QED
    BY <2>1, WholeGood, GoodKeeps
<1>6. QED
  BY <1>1, <1>2, <1>3, <1>4, <1>5

-----------------------------------------------------------------------------
(* The specification *)

\* The inductive invariant: there is no answer yet, or it is one the gate gives to the
\* reply of the filter.
Answered(save, diskOk, grows) ==
    answer = Gate!GateResult(tool, RawText(r), View(r, Filter(tool, r), grows), save, diskOk)
FilterInv ==
    /\ tool \in Tools /\ r \in Inputs[tool]
    /\ \/ answer = NoAnswer
       \/ \E save \in Gate!SaveModes, diskOk, grows \in BOOLEAN : Answered(save, diskOk, grows)

LEMMA FilterInvHolds == Spec => []FilterInv
<1>1. Init => FilterInv
  BY DEF Init, FilterInv
<1>2. FilterInv /\ [Next]_vars => FilterInv'
  <2> SUFFICES ASSUME FilterInv, [Next]_vars PROVE FilterInv'
    OBVIOUS
  <2>1. CASE FilterAndGate
    BY <2>1 DEF FilterInv, FilterAndGate, Answered
  <2>2. CASE UNCHANGED vars
    BY <2>2 DEF FilterInv, Answered, vars
  <2>3. QED
    BY <2>1, <2>2 DEF Next
<1>3. QED
  BY <1>1, <1>2, PTL DEF Spec

LEMMA Settling ==
    ASSUME FilterInv
    PROVE  /\ Printed(tool, r) /\ Keeps(tool, r) /\ Earns(tool, r)
           /\ answer # NoAnswer => \E save \in Gate!SaveModes, diskOk, grows \in BOOLEAN : Answered(save, diskOk, grows)
<1>1. Printed(tool, r)
  BY FiltersAssumption DEF FilterInv
<1>2. QED
  BY <1>1, FiltersKeep DEF FilterInv

\* ADR 0001 through every filter, for everything a tool may print: the evidence is in the
\* answer, or in a snapshot that the answer points to.
THEOREM FilterKeepsEvidence == Spec => []EvidenceKept
<1>1. FilterInv => EvidenceKept
  <2> SUFFICES ASSUME FilterInv, answer # NoAnswer, tool \notin Selective, ~Excused
               PROVE  \/ Heard \ SkippedBy(tool, r) \subseteq ShownLines \/ answer.pointer
                      \/ /\ answer.omission = "digest"
                         /\ tool \in Shortening \/ Heard \ (SkippedBy(tool, r) \cup Mistaken(r)) \subseteq ShownLines
    BY DEF EvidenceKept
  <2> DEFINE f == Filter(tool, r)
  <2>1. Heard = EvidenceOf(r)
    BY DEF Heard, EvidenceOf
  <2>2. CASE All(r) = {}
    BY <2>1, <2>2 DEF EvidenceOf, Of
  <2>3. CASE All(r) # {}
    <3>1. Kept(tool, r, f)
      BY Settling DEF Keeps, ExcusedFor, Excused
    <3>2. PICK save \in Gate!SaveModes, diskOk \in BOOLEAN, grows \in BOOLEAN : Answered(save, diskOk, grows)
      BY Settling
    <3>3. \/ answer.content = "raw" \/ answer.pointer
          \/ answer.content = "safeFull" /\ tool \in Masking /\ f.omission = "replacement"
          \/ answer.content = "filtered" /\ EvidenceOf(r) \ SkippedBy(tool, r) \subseteq f.shown
          \/ /\ answer.content = "filtered" /\ answer.omission = "digest"
             /\ tool \in Shortening \/ EvidenceOf(r) \ (SkippedBy(tool, r) \cup Mistaken(r)) \subseteq f.shown
      BY <2>3, <3>1, <3>2, GateKeeps DEF Answered
    <3>4. CASE answer.content = "raw"
      BY <2>1, <3>4 DEF ShownLines, EvidenceOf, Of
    <3>5. CASE answer.content = "safeFull" /\ tool \in Masking /\ f.omission = "replacement"
      <4>1. tool = "env"
        BY <3>5, FiltersAssumption
      <4>2. f = Env(r)
        BY <4>1 DEF Filter
      <4>3. EvidenceOf(r) \subseteq EnvFull(r).shown
        BY <3>5, <4>1, <4>2, Settling, EnvInFull
      <4>4. QED
        BY <2>1, <3>5, <4>3 DEF ShownLines
    <3>6. CASE answer.content = "filtered"
      <4>1. ShownLines = f.shown
        BY <3>6 DEF ShownLines
      <4>2. QED
        BY <2>1, <3>3, <3>6, <4>1
    <3>7. QED
      BY <3>3, <3>4, <3>5, <3>6
  <2>4. QED
    BY <2>2, <2>3
<1>2. QED
  BY <1>1, FilterInvHolds, PTL

\* The verdict of a filter stands over every line that reports an error, for everything a
\* tool may print.
THEOREM FilterEarnsVerdict == Spec => []VerdictEarned
<1>1. FilterInv => VerdictEarned
  <2> SUFFICES ASSUME FilterInv, answer.content = "filtered", Filter(tool, r).says \in {"ok", "clean"},
                      tool \notin Credulous
               PROVE  /\ Of(r, {"err", "fail", "bad"}) \subseteq ShownLines \/ Has(r, Benign)
                      /\ \/ r.exit = 0 \/ All(r) = {}
                         \/ Has(r, Benign \cup {"err", "fail", "bad"})
    BY DEF VerdictEarned
  <2>1. ShownLines = Filter(tool, r).shown
    BY DEF ShownLines
  <2>2. Earned(r, Filter(tool, r))
    BY Settling DEF Earns
  <2>3. QED
    BY <2>1, <2>2 DEF Earned
<1>2. QED
  BY <1>1, FilterInvHolds, PTL

=============================================================================
