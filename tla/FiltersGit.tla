----------------------------- MODULE FiltersGit -----------------------------
(***************************************************************************)
(* The filters of git and of the tools that list, search, read and compare *)
(* files (handlers/git, handlers/common).                                  *)
(***************************************************************************)
EXTENDS FilterText

-----------------------------------------------------------------------------
(* Diffs *)

\* A changed line is "marked" if it reads like the header of a file: a removed "-- x" is
\* printed as "--- x", an added "++ x" as "+++ x".  "dashes" is one without the blank.

\* parseUnifiedDiff, in the lines s: a hunk ends at the next file, at its --- line, and at
\* every line that reads like one.
InHunk(r, s, i) ==
    \E h \in s : /\ h < i /\ Lines(r)[h] = "hunk"
                 /\ \A j \in h + 1 .. i - 1 : Lines(r)[j] \notin {"file", "boiler", "marked"}
Parsed(r, s) == {i \in s : /\ \E f \in s : f <= i /\ Lines(r)[f] = "file"
                           /\ \/ Lines(r)[i] \in {"file", "rename", "hunk"}
                              \/ Lines(r)[i] \notin {"boiler", "marked"} /\ InHunk(r, s, i)}
\* The files in which something changed.
Changed(r, s) == {f \in Parsed(r, s) : /\ Lines(r)[f] = "file"
                                       /\ \E c \in Parsed(r, s) :
                                            /\ c > f /\ Lines(r)[c] = "change"
                                            /\ \A j \in f + 1 .. c : Lines(r)[j] # "file"}
\* compactUnifiedDiff: the digest has no context, which "dashes" are taken for; the summary
\* names the files, if that fits.
CompactDiff(r, s) ==
    LET files == Says("count", Changed(r, s))
    IN Budgeted(Shows(Parsed(r, s)), Shows(Parsed(r, s) \cap Of(r, {"file", "rename", "hunk", "change"})),
              IF Fits(files) THEN files ELSE Count)

GitDiff(r) == IF Of(r, {"file"}) \cap Either(r) # {} THEN CompactDiff(r, Either(r))
              ELSE Shows(Either(r))

\* The message of `git show` is cut after its first paragraph.
FirstMessage(r) == {i \in Of(r, {"body"}) : \A j \in 1 .. i - 1 :
                        Lines(r)[j] # "body" => \A k \in 1 .. j - 1 : Lines(r)[k] # "body"}
\* Asked for a format or a list of files, or not about a commit, it is shown as it is.
GitShow(r) ==
    LET diff == {i \in Either(r) : \E f \in 1 .. i : Lines(r)[f] = "file"}
        header == FirstOf(Of(r, {"commit"}), 1) \cup FirstOf(Of(r, {"meta"}), 1)
                  \cup FirstMessage(r) \cup Of(r, {"stat"})
    IN IF r.ask # "plain" \/ ~Has(r, {"commit"}) \/ (diff = {} /\ Has(r, {"stat"}))
       THEN Shows(Either(r))
       ELSE Plus(IF diff = {} THEN Shows({}) ELSE CompactDiff(r, diff), header \cap Either(r))

\* condenseUnifiedDiff: without context, and without files in which no line changed.  A
\* "marked" line is dropped, but the hunk goes on.
Condensed(r) == {i \in Of(r, {"file", "hunk", "change", "dashes"}) :
                    \E f \in 1 .. i, c \in Of(r, {"change", "dashes"}) :
                        /\ Lines(r)[f] = "file" /\ f < c
                        /\ \A j \in f + 1 .. IF c > i THEN c ELSE i : Lines(r)[j] # "file"}
\* formatDiffOutput: two files that ctx compares itself; no change is no difference.
Compared(r) == IF All(r) = {} THEN Says("clean", {}) ELSE Shows(All(r))
Diff(r) ==
    LET shown == Condensed(r)
        files == Of(r, {"file"}) \cap shown
    IN IF r.ask # "stdin" /\ ~Has(r, {"file"}) THEN Compared(r)
       ELSE IF shown = {} THEN Says("clean", {})
       ELSE Listing(Shows(shown), Says("count", files))

-----------------------------------------------------------------------------
(* The log *)

\* formatOnelineLog: some of the lines below each header, without trailers.
BodyRank(r, i) == Cardinality({j \in Of(r, {"body"}) : j <= i /\ \A k \in j .. i : Lines(r)[k] # "head"})
OnelineLog(r) ==
    LET heads == Of(r, {"head"}) \cap Either(r)
        bodies == {i \in Of(r, {"body"}) \cap Either(r) : (\E h \in heads : h < i) /\ BodyRank(r, i) <= Cap}
    IN Budgeted(Shows(heads \cup bodies), Shows(heads), Count)

\* formatLog: hash, author, date and the first line of each message.
Subjects(r) == {i \in Of(r, {"body"}) : \E d \in 1 .. i - 1 :
                   /\ Lines(r)[d] = "meta"
                   /\ \A j \in d + 1 .. i - 1 : Lines(r)[j] \notin {"commit", "meta", "body"}}
BlockLog(r) ==
    LET commits == Of(r, {"commit"}) \cap Either(r)
        after == {i \in Either(r) : \E c \in commits : c <= i}
        short == commits \cup (Subjects(r) \cap after)
    IN IF Cardinality(commits) <= 1 THEN Shows(Either(r))
       ELSE Budgeted(Says("count", short \cup (Of(r, {"meta"}) \cap after)), Says("count", short), Count)

\* formatLogPatch: the diff of each commit, to the next commit, is compacted on its own.
PatchLog(r) ==
    LET t == Either(r)
        diff(c) == {i \in t : i >= c /\ \A j \in c .. i : Lines(r)[j] # "commit"}
        starts == {c \in t : /\ Lines(r)[c] = "file"
                             /\ \A j \in 1 .. c - 1 : Lines(r)[j] = "file" =>
                                    \E k \in j .. c : Lines(r)[k] = "commit"}
        cuts == {c \in starts : CompactDiff(r, diff(c)).omission # "none"}
    IN [shown |-> (t \ UNION {diff(c) : c \in starts})
                  \cup UNION {CompactDiff(r, diff(c)).shown : c \in starts},
        says |-> IF \E c \in cuts : CompactDiff(r, diff(c)).says = "count" THEN "count" ELSE "nothing",
        omission |-> IF cuts = {} THEN "none"
                     ELSE CompactDiff(r, diff(CHOOSE c \in cuts : \A d \in cuts : c <= d)).omission,
        more |-> FALSE]

GitLog(r) ==
    CASE r.ask = "patch" -> PatchLog(r)
      [] r.ask = "rich" -> Shows(Either(r))
      [] OTHER -> IF Either(r) = {} THEN Says("count", {})
                  ELSE IF Lines(r)[1] = "head" THEN OnelineLog(r) ELSE BlockLog(r)

-----------------------------------------------------------------------------
(* Status, branches and the commands that change something *)

\* A synthetic status, or the human one without its hints, to the line that says clean.
CompactStatus(r) ==
    IF Of(r, {"entry"}) \cap Out(r) = {} THEN Says("clean", Out(r)) ELSE Shows(Out(r))
GitStatus(r) ==
    LET clean == Of(r, {"clean"})
        kept == {i \in Out(r) : /\ Lines(r)[i] \notin {"hint", "blank"}
                                /\ \A c \in clean : i <= c}
    IN CASE r.exit # 0 -> IF r.ask = "compact" /\ Has(r, {"norepo"}) THEN Shows(Of(r, {"norepo"}))
                          ELSE Whole(r)
         [] r.exit = 0 /\ r.ask = "compact" ->
                CompactStatus(r)
         [] OTHER -> IF kept = {} THEN Says("ok", {}) ELSE Shows(kept)

\* formatBranch: every local branch, and those that only a remote has, up to a cap.
BranchList(r) ==
    LET only == {i \in Of(r, {"remote"}) : i \in Either(r)}
        list == Listed(only, Cap)
    IN Plus([list EXCEPT !.says = IF only = {} THEN @ ELSE "count"],
            Either(r) \cap Of(r, {"star", "local", "known"}))
GitBranch(r) ==
    CASE r.exit # 0 -> Whole(r)
      [] r.exit = 0 /\ r.ask = "current" -> Shows(Out(r))
      [] r.exit = 0 /\ r.ask = "write" -> Says("ok", {})
      [] OTHER -> BranchList(r)

\* formatGitExtended: an exit code that is not zero is no failure if the tool says that
\* there was nothing to do.
Benign == {"nothing", "alien"}
Refused(r) == r.exit # 0 /\ ~Has(r, Benign)
GitPush(r) == CASE Has(r, {"nothing"}) -> Says("ok", {})
                [] ~Has(r, {"nothing"}) /\ Has(r, {"error"}) -> Whole(r)
                [] OTHER -> Says("ok", Of(r, {"ref"}))
GitWrite(r) ==
    IF Refused(r) \/ (r.ask = "add" /\ r.exit # 0) THEN Whole(r)
    ELSE CASE r.ask = "push" -> GitPush(r)
           [] r.ask \in {"commit", "pull"} ->
                  IF Has(r, {"nothing", "stat"}) THEN Says("ok", {}) ELSE Whole(r)
           [] r.ask = "fetch" -> Says("ok", {})
           [] r.ask = "add" -> IF Has(r, {"stat"}) THEN Says("ok", {}) ELSE Shows({})
           [] r.ask = "list" -> IF All(r) = {} THEN Says("clean", {}) ELSE Whole(r)
           [] r.ask = "stash" -> IF Has(r, {"nothing"}) THEN Whole(r) ELSE Says("ok", All(r))
           [] OTHER -> Says("ok", {})

\* Graphite: its log is a ladder, the rest a confirmation of what standard output says.
Graphite(r) ==
    LET nodes == Of(r, {"node"}) \cap Out(r)
        told == Of(r, {"pushed", "pr"}) \cap Out(r)
    IN CASE r.exit # 0 \/ r.ask = "other" -> Whole(r)
         [] r.exit = 0 /\ r.ask = "log" -> Budgeted(Shows(Out(r)), Shows(nodes), Count)
         [] r.exit = 0 /\ r.ask = "submit" ->
                Shows(IF told = {} THEN FirstOf(Out(r), Cap) ELSE told)
         [] OTHER -> IF Out(r) = {} THEN Shows({}) ELSE Says("ok", {})

-----------------------------------------------------------------------------
(* Hosting: answers that parse are lists or one thing *)

\* The digest has every row, shorter; the checks that pass are counted.
Hosting(r) ==
    LET rows == Of(r, {"row"})
        answered == ~Has(r, {"err", "note"})
    IN CASE r.ask = "checks" -> Says(IF Has(r, {"pass"}) THEN "count" ELSE "nothing", Of(r, {"fail"}))
         [] r.ask = "trace" -> Shows(All(r) \ Of(r, {"section"}))
         [] r.ask = "list" /\ answered ->
                IF rows = {} THEN Says("clean", {}) ELSE Listing(Says("count", rows), Count)
         [] r.ask = "view" /\ answered -> Shows(rows)
         [] OTHER -> Whole(r)
\* glab release list: the digest is the first half.
Releases(r) == LET n == Cardinality(All(r)) IN
               IF n = 0 THEN Says("clean", {})
               ELSE Budgeted(Whole(r), Shows(FirstOf(All(r), (n + 1) \div 2)), Count)

-----------------------------------------------------------------------------
(* Searching, listing, reading *)

\* groupGrepOutput: the matches by file, with a cap per file and in all; an aggressive
\* level shows the first match of each file.  The reply states how many there are.
GroupGrep(r, matches) ==
    LET first == {i \in matches : \A j \in matches : j < i => Lines(r)[j] # Lines(r)[i]}
        keep == CASE r.ask = "minimal" -> matches
                  [] r.ask = "aggressive" -> first
                  [] OTHER -> FirstOf(matches, Cap)
    IN [Says("count", keep \cup (Of(r, {"foreign"}) \cap Out(r))) EXCEPT !.omission = "digest"]
Search(r) ==
    LET matches == Of(r, {"match", "other"}) \cap Out(r)
    IN IF r.ask = "format" THEN Shows(Out(r))
       ELSE IF r.out = <<>> THEN IF r.err = <<>> THEN Says("clean", {}) ELSE Whole(r)
       ELSE IF matches = {} THEN Shows(Out(r)) ELSE GroupGrep(r, matches)

\* summarizeFindOutput: generated directories are left out and counted; the digest names
\* the directories, of "path" and of "far", and counts their files.
Find(r) ==
    LET files == Of(r, {"path", "far"}) \cap Out(r)
        dirs == {Lines(r)[i] : i \in files}
        total == Says("count", Of(r, {"err"}))
    IN IF files = {} THEN Says(IF Has(r, {"generated"}) THEN "count" ELSE "clean", Of(r, {"err"}))
       ELSE IF Fits(Shows(files)) THEN Plus(total, files)
       ELSE [total EXCEPT !.omission = IF Cardinality(dirs) <= Budget THEN "digest" ELSE "replacement"]

\* summarizeListing: every path once, without the directories that tools generate.
DirListing(r) == Shows(Of(r, {"path", "far"}))

\* readLike: whole, or its symbols, in the window that was asked for.
Symbols(r) == Says("count", FirstOf(Of(r, {"symbol"}), Cap))
ReadLike(r) ==
    CASE r.ask = "tail" -> Shows(LastOf(All(r), Cap))
      [] r.ask = "head" -> Shows(FirstOf(All(r), Cap))
      [] r.ask = "aggressive" -> IF Fits(Whole(r)) THEN Whole(r) ELSE Symbols(r)
      [] OTHER -> Whole(r)
=============================================================================
