---------------------------- MODULE FiltersSystem ----------------------------
(***************************************************************************)
(* The filters of handlers/system: reading and listing, the environment,   *)
(* structured data, and the commands of ctx itself (ctx err, ctx test, ctx *)
(* summary, ctx pipe, ctx log, ctx deps, ctx smart).                       *)
(***************************************************************************)
EXTENDS FilterText

-----------------------------------------------------------------------------
(* Reading a file *)

\* The levels drop comments, or all but imports, signatures and constants; a file
\* of nothing else is shown whole.
Levelled(r) ==
    LET kept == CASE r.ask = "minimal" -> Out(r) \ Of(r, {"comment"})
                  [] r.ask = "aggressive" -> Out(r) \cap Of(r, {"signature"})
                  [] OTHER -> Out(r)
    IN IF kept = {} THEN Out(r) ELSE kept
\* smartTruncate: the first half of the window, then what looks important.
SmartTruncate(r, s) ==
    IF Cardinality(s) <= Cap THEN s
    ELSE FirstOf(FirstOf(s, Cap \div 2) \cup (s \cap Of(r, {"signature"})), Cap)
\* A window that leaves something out says so.
Read(r) ==
    LET s == Levelled(r)
        window == CASE r.ask = "tail" -> LastOf(s, Cap)
                    [] r.ask = "head" -> SmartTruncate(r, s)
                    [] OTHER -> s
    IN [Shows(window) EXCEPT !.omission = IF window = s THEN "none" ELSE "digest"]

-----------------------------------------------------------------------------
(* Listings *)

\* Directories of tools are not listed but named; a listing in which nothing parses is
\* left to the gate.
Ls(r) ==
    LET entries == Out(r) \cap Of(r, {"entry", "tooldir"})
        seen == Out(r) \ Of(r, {"total"})
    IN CASE r.exit # 0 -> Whole(r)
         [] r.exit = 0 /\ entries = {} ->
                IF seen \subseteq Of(r, {"dotdir"}) THEN Says("clean", {}) ELSE Shows({})
         [] OTHER -> Shows(entries)
\* Without the line that counts; a name with both words of that line goes with it.
Tree(r) == Shows(Out(r) \ Of(r, {"total", "blank"}))
Wc(r) == Shows(Out(r))

-----------------------------------------------------------------------------
(* Values *)

\* Lines that are not NAME=value are dropped, secrets are masked in place.
EnvFull(r) == Shows(Out(r) \cap Of(r, {"pair", "secret"}))
Env(r) == Listing(EnvFull(r), Count)

\* What JSON.parse would change or refuse is shown as it is.
Json(r) == IF Of(r, {"bigint", "text"}) \cap Out(r) # {} THEN Shows(Out(r))
           ELSE Listing(Shows(Out(r)), Count)

\* The dependencies a manifest names, up to a cap.
Named(r) == [Listed(Out(r) \cap Of(r, {"dep"}), Cap) EXCEPT !.says = "count"]
Deps(r) == IF Out(r) = {} THEN Says("clean", {})
           ELSE IF Named(r).shown = {} THEN Shows(Out(r)) ELSE Named(r)

-----------------------------------------------------------------------------
(* Formatters *)

\* The first files that need it are named; where there are none, the verdict is that all
\* is well, or that there is nothing to recognise.
Unformatted(r) == [Listed(Of(r, {"file"}), Cap) EXCEPT !.says = "count"]
Settled(r) == IF r.exit = 0 THEN Says("ok", {}) ELSE Whole(r)
FormatPrettier(r) ==
    IF Has(r, {"file"}) THEN Unformatted(r)
    ELSE IF All(r) = {} THEN Shows({}) ELSE Settled(r)
FormatRuff(r) ==
    IF Has(r, {"file"}) THEN Unformatted(r)
    ELSE IF Has(r, {"unchanged"}) THEN Settled(r) ELSE Whole(r)
\* The one that does not look at the exit code.
FormatBlack(r) ==
    IF Has(r, {"file", "ohno"}) THEN Unformatted(r)
    ELSE IF Has(r, {"unchanged"}) THEN Says("ok", {}) ELSE Whole(r)
Format(r) ==
    CASE r.ask = "prettier" -> FormatPrettier(r)
      [] r.ask = "ruff" -> FormatRuff(r)
      [] r.ask = "black" -> FormatBlack(r)
      [] OTHER -> Whole(r)

-----------------------------------------------------------------------------
(* The commands of ctx *)

\* filterErrors: the lines of errors with the indented lines below them, to the second
\* blank line; if there are none, a verdict by the exit code.
ErrorLine(r, i) == Lines(r)[i] = "err"
InBlock(r, i) == \E e \in 1 .. i - 1 :
                    /\ ErrorLine(r, e)
                    /\ \A j \in e + 1 .. i : Lines(r)[j] \in {"detail", "blank"}
                    /\ \A j \in e + 1 .. i - 1 : ~(Lines(r)[j] = "blank" /\ Lines(r)[j + 1] = "blank")
ErrVerdictLoose(r) == Says("ok", {})
ErrVerdict(r) == IF r.exit = 0 THEN Says("ok", {}) ELSE Shows(LastOf(All(r), Cap))
Err(r) == LET errors == {i \in All(r) : ErrorLine(r, i) \/ InBlock(r, i)}
          IN IF errors = {} THEN ErrVerdict(r) ELSE Shows(errors)

\* extractTestSummary: failures first, then the totals or the last lines.
TestRunner(r) ==
    LET totals == IF Has(r, {"total"}) THEN Of(r, {"total"}) ELSE LastOf(All(r), Cap)
        fails == Of(r, {"fail"})
    IN IF r.ask = "other" \/ fails = {} THEN Shows(totals)
       ELSE Budgeted(Shows(totals \cup fails \cup Of(r, {"detail"})), Shows(totals \cup fails),
                   Says("count", totals))

\* summarizeOutput: the exit code's verdict, and a digest of what the output looks like.
SummaryDigest(r) ==
    CASE r.ask \in {"test", "build"} -> FirstOf(Of(r, {"fail", "err"}), Cap)
      [] r.ask = "log" -> {}
      [] OTHER -> FirstOf(All(r), Cap)
Summary(r) ==
    LET full == Says(IF r.exit = 0 THEN "ok" ELSE "count", SummaryDigest(r))
    IN IF Fits(full) THEN full ELSE [full EXCEPT !.shown = {}, !.omission = "replacement"]

\* analyzeLogs: every error and warning once, up to a cap, and the totals.
Log(r) ==
    LET first(kinds) == {i \in Out(r) : /\ Lines(r)[i] \in kinds
                                        /\ \A j \in 1 .. i - 1 : Lines(r)[j] # Lines(r)[i]}
        errors == Listed(first({"err", "err2"}), Cap)
        warnings == Listed(first({"warn", "warn2"}), Cap)
    IN [Says("count", errors.shown \cup warnings.shown)
            EXCEPT !.more = errors.more \/ warnings.more]

\* filterPipe: matches by file, paths by directory, anything else as it is; a digest
\* has one line for each file or directory, "match", "path" or "far".
Grouped(r, s) ==
    LET heads == {i \in s : \A j \in s : j < i => Lines(r)[j] # Lines(r)[i]}
    IN IF s = {} THEN Shows(Either(r))
       ELSE Budgeted(Says("count", s), Says("count", heads), Count)
Pipe(r) ==
    LET t == Either(r)
        rows == Of(r, {"match"}) \cap t
        paths == Of(r, {"path", "far"}) \cap t
        byFile == r.ask = "grep" \/ (r.ask = "auto" /\ rows # {})
        byDir == r.ask = "find" \/ (r.ask = "auto" /\ Cardinality(paths) >= 3 /\ paths = t)
    IN IF byFile THEN Grouped(r, rows) ELSE IF byDir THEN Grouped(r, t) ELSE Shows(t)

\* extractSummary: what follows a line that begins with Summary:.
Smart(r) ==
    LET from == {i \in All(r) : \E s \in 1 .. i : Lines(r)[s] = "summary"}
    IN Shows((IF from = {} THEN All(r) ELSE from) \ Of(r, {"prompt"}))
=============================================================================
