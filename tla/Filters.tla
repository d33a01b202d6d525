------------------------------- MODULE Filters -------------------------------
(***************************************************************************)
(* What a tool printed, on its way through the filter of its handler       *)
(* (handlers/) and through the quality gate (handlers/base.ts).            *)
(*   tool, r      the handler and what its tool printed                    *)
(*   answer       what the reader gets: "raw", "filtered" or "safeFull"    *)
(*                text, the status of the gate, a pointer to a snapshot,   *)
(*                what is declared as left out; NoAnswer before that       *)
(***************************************************************************)
EXTENDS FiltersGit, FiltersSystem, FiltersBuild, FiltersCloud

CONSTANTS
    Inputs,       \* tool |-> set of records r
    Structural,   \* the traits of the handlers, as in QualityGate
    Masking,
    Declaring

Gate == INSTANCE QualityGate WITH Ladder <- Declaring

VARIABLES tool, r, answer
vars == <<tool, r, answer>>

Tools == DOMAIN Inputs
NoAnswer == [content |-> "none", status |-> "none", pointer |-> FALSE, omission |-> "none"]

\* handlers/index.ts: the filter of each handler; generic, and npx without a command
\* that a handler knows, show everything.
Filter(t, in) ==
    CASE t = "git diff" -> GitDiff(in)        [] t = "git show" -> GitShow(in)
      [] t = "git log" -> GitLog(in)          [] t = "git status" -> GitStatus(in)
      [] t = "git branch" -> GitBranch(in)    [] t = "git" -> GitWrite(in)
      [] t = "gt" -> Graphite(in)             [] t = "gh" -> Hosting(in)
      [] t = "glab release" -> Releases(in)   [] t = "diff" -> Diff(in)
      [] t = "grep" -> Search(in)             [] t = "find" -> Find(in)
      [] t = "dir" -> DirListing(in)          [] t = "type" -> ReadLike(in)
      [] t = "cat" -> Read(in)                [] t = "ls" -> Ls(in)
      [] t = "tree" -> Tree(in)               [] t = "wc" -> Wc(in)
      [] t = "env" -> Env(in)                 [] t = "json" -> Json(in)
      [] t = "deps" -> Deps(in)               [] t = "format" -> Format(in)
      [] t = "err" -> Err(in)                 [] t = "test" -> TestRunner(in)
      [] t = "summary" -> Summary(in)         [] t = "log" -> Log(in)
      [] t = "pipe" -> Pipe(in)               [] t = "smart" -> Smart(in)
      [] t = "eslint" -> Eslint(in)           [] t = "tsc" -> Tsc(in)
      [] t = "mypy" -> Mypy(in)               [] t = "ruff" -> Ruff(in)
      [] t = "javac" -> Javac(in)             [] t = "prettier" -> Prettier(in)
      [] t = "jest" -> TestReport(in)         [] t = "playwright" -> Playwright(in)
      [] t = "pytest" -> Pytest(in)           [] t = "dotnet" -> Dotnet(in)
      [] t = "gradle" -> Gradle(in)           [] t = "mvn" -> Maven(in)
      [] t = "next" -> NextBuild(in)          [] t = "npm" -> Npm(in)
      [] t = "prisma" -> Prisma(in)           [] t = "terraform" -> Terraform(in)
      [] t = "npm ls" -> PackageList(in)      [] t = "pip" -> Pip(in)
      [] t = "aws" -> Aws(in)                 [] t = "docker" -> Docker(in)
      [] t = "kubectl" -> Kubectl(in)         [] t = "curl" -> Curl(in)
      [] t = "wget" -> Wget(in)               [] t = "psql" -> Psql(in)
      [] OTHER -> Whole(in)

-----------------------------------------------------------------------------
(* What the tools print *)

\* A form of what a tool prints: how it was asked, its exit codes, and the kinds of lines,
\* of those its handler tells apart, on standard output and on standard error.
Form(asks, exits, out, err) == [asks |-> asks, exits |-> exits, out |-> out, err |-> err]
P == {"plain"}
\* The changed lines of a diff, and what stands in a hunk of it.
ChangedLines == {"change", "marked", "dashes"}
Hunks == {"hunk"} \cup ChangedLines
Forms(t) ==
    CASE t = "git diff" -> {Form(P, Nat, {"file", "boiler"} \cup Hunks, {"err"})}
      [] t = "git show" -> {Form(P, Nat, {"commit", "meta", "body", "file"} \cup Hunks, {"err"}),
                            Form({"format"}, Nat, {"file", "body"}, {"err"})}
      [] t = "git log" -> {Form(P, Nat, {"head", "commit", "meta", "body"}, {"err"}),
                           Form({"patch"}, Nat, {"commit", "body", "file"} \cup Hunks, {"err"}),
                           Form({"rich"}, Nat, {"body"}, {"err"})}
      [] t = "git status" -> {Form(P, Nat, {"entry", "hint"}, {"err"}), Form(P, Nat, {"hint", "clean"}, {"err"}),
                              Form({"compact"}, Nat, {"entry"}, {"err"}),
                              Form({"compact"}, Nat, {}, {"norepo", "other"})}
      [] t = "git branch" -> {Form({"plain", "current", "write"}, Nat, {"star", "local", "remote"}, {"err"})}
      [] t = "git" -> {Form({"push", "commit", "pull", "fetch", "add", "list", "stash", "other"}, Nat,
                            {"nothing", "stat", "ref", "other"}, {"err", "error", "alien"})}
      [] t = "gt" -> {Form({"log", "submit", "sync", "other"}, Nat, {"node", "pushed", "other"}, {"err"})}
      [] t = "gh" -> {Form({"list", "view"}, Nat, {"row"}, {"err", "note"}),
                      Form({"checks"}, Nat, {"fail", "pass"}, {"err"}),
                      Form({"trace"}, Nat, {"fail", "section"}, {"err"})}
      [] t = "glab release" -> {Form(P, {0}, {"row"}, {})}
      [] t = "diff" -> {Form(P, Nat, {"file", "other"} \cup Hunks, {"err"}),
                        Form({"stdin"}, {0}, {"file"} \cup Hunks, {})}
      [] t = "grep" -> {Form({"plain", "minimal", "aggressive", "format"}, Nat, {"match", "other", "foreign"}, {"err"})}
      [] t \in {"find", "dir"} -> {Form(P, Nat, {"path", "far", "generated"}, {"err"})}
      [] t = "type" -> {Form({"plain", "head", "tail", "aggressive"}, Nat, {"symbol", "line"}, {"err"})}
      [] t = "cat" -> {Form({"plain", "minimal", "aggressive", "head", "tail"}, Nat,
                            {"signature", "comment", "line"}, {"err"})}
      [] t = "ls" -> {Form(P, Nat, {"entry", "tooldir", "total", "dotdir", "odd"}, {"err"})}
      [] t = "tree" -> {Form(P, Nat, {"entry", "total", "blank"}, {"err"})}
      [] t = "wc" -> {Form(P, Nat, {"entry", "total"}, {"err"})}
      [] t = "env" -> {Form(P, Nat, {"pair", "secret", "other"}, {"err"})}
      [] t = "json" -> {Form(P, Nat, {"row", "bigint", "text"}, {"err"})}
      [] t = "deps" -> {Form(P, {0}, {"dep", "other"}, {})}
      [] t = "format" -> {Form({"prettier", "ruff", "black", "other"}, Nat, {"file", "unchanged", "ohno"}, {"err"})}
      [] t = "err" -> {Form(P, Nat, {"err", "detail", "blank", "other"}, {"err"})}
      [] t = "test" -> {Form({"known", "other"}, Nat, {"fail", "detail", "total", "other"}, {})}
      [] t = "summary" -> {Form({"test", "log", "list"}, Nat, {"fail", "err", "other"}, {})}
      [] t = "log" -> {Form(P, {0}, {"err", "err2", "warn", "other"}, {})}
      [] t = "pipe" -> {Form({"grep", "auto"}, {0}, {"match", "blank"}, {}),
                        Form({"find", "auto"}, {0}, {"path", "far", "blank"}, {})}
      [] t = "smart" -> {Form(P, Nat, {"summary", "prompt", "other"}, {"err"})}
      [] t = "eslint" -> {Form(P, Nat, {"file", "err", "warn", "other"}, {"other"})}
      [] t = "tsc" -> {Form(P, Nat, {"err", "detail", "clean", "other"}, {"other"})}
      [] t = "mypy" -> {Form(P, Nat, {"err", "detail", "total"}, {"other"})}
      [] t = "ruff" -> {Form({"check", "format"}, Nat, {"err", "clean", "other"}, {"other"})}
      [] t = "javac" -> {Form(P, Nat, {"err", "warn", "detail"}, {"other"})}
      [] t = "prettier" -> {Form({"check", "write"}, Nat, {"file", "clean", "other"}, {"err"})}
      [] t \in {"jest", "playwright"} -> {Form(P, Nat, {"fail", "detail", "total", "other"}, {"other"})}
      [] t = "pytest" -> {Form(P, Nat, {"section", "fail", "detail", "total", "pass"}, {"other"})}
      [] t = "dotnet" -> {Form({"test", "trx"}, Nat, {"fail", "detail", "total"}, {}),
                          Form({"binlog"}, Nat, {"err", "text"}, {}),
                          Form({"format"}, Nat, {"file", "text"}, {}), Form({"other"}, Nat, {"text"}, {})}
      [] t = "gradle" -> {Form({"test", "build", "other"}, Nat,
                               {"fail", "detail", "err", "javaErr", "verdict"}, {"resolve"})}
      [] t = "mvn" -> {Form({"test", "quiet", "other"}, Nat, {"fail", "detail", "warn", "verdict", "noise"}, {"err"})}
      [] t = "next" -> {Form({"build", "lint"}, Nat, {"route", "warn", "other"}, {"err"})}
      [] t = "npm" -> {Form(P, Nat, {"banner", "notice", "peer", "other"}, {"err", "warn"})}
      [] t = "prisma" -> {Form({"generate", "dev", "status", "other"}, Nat, {"note"}, {"err"}),
                          Form({"deploy"}, Nat, {"note", "err"}, {})}
      [] t = "terraform" -> {Form({"plan", "test", "other"}, Nat,
                                  {"noise", "actions", "change", "rule", "verdict"}, {"err"})}
      [] t = "npm ls" -> {Form(P, Nat, {"dep", "problem", "other"}, {"problem"})}
      [] t = "pip" -> {Form({"list"}, {0}, {"dep", "problem", "other"}, {}),
                       Form({"list", "freeze", "outdated"}, Nat, {"dep", "other"}, {"err"})}
      [] t = "aws" -> {Form({"list", "other"}, Nat, {"row", "detail", "text"}, {"err"})}
      [] t = "docker" -> {Form({"ps", "images"}, Nat, {"row", "odd"}, {"err"}),
                          Form({"compose build", "compose logs"}, Nat, {"step"}, {"err"})}
      [] t = "kubectl" -> {Form({"pods"}, Nat, {"good", "bad", "text"}, {"err"}), Form({"pods"}, Nat, {"one"}, {"err"}),
                           Form({"services"}, Nat, {"row"}, {"err"}), Form({"logs", "other"}, Nat, {"text"}, {"err"})}
      [] t = "curl" -> {Form({"json", "body"}, Nat, {"line", "row"}, {"err"})}
      [] t = "wget" -> {Form({"file"}, Nat, {}, {"err", "other"}), Form({"body"}, Nat, {"line"}, {"err", "other"})}
      [] t = "psql" -> {Form({"table", "expanded", "other"}, Nat, {"row", "rule", "total", "other"}, {"err"})}
      [] OTHER -> {Form(P, Nat, {"other"}, {"err"})}

Below(s, i, head) == \E h \in 1 .. i - 1 : s[h] = head
\* Where a line can stand: every changed line in a hunk of a file, whose own header is
\* above its hunks; an issue below the name of its file; a planned change above the rule
\* that ends the plan.
InHunks(s) ==
    \A i \in 1 .. Len(s) : s[i] \in ChangedLines =>
        \E f, h \in 1 .. i : /\ f < h /\ s[f] = "file" /\ s[h] = "hunk"
                             /\ \A j \in f + 1 .. i : s[j] # "file"
                             /\ \A j \in h + 1 .. i : s[j] # "boiler"
UnderFiles(s) == \A i \in 1 .. Len(s) : s[i] = "err" => Below(s, i, "file")
Planned(s) == \A t \in 1 .. Len(s) : s[t] = "rule" /\ Below(s, t, "actions") =>
                 \A i \in t .. Len(s) : s[i] # "change"
Placed(t, s) == CASE t \in {"git diff", "git show", "git log", "diff"} -> InHunks(s)
                  [] t = "eslint" -> UnderFiles(s)
                  [] t = "terraform" -> Planned(s)
                  [] OTHER -> TRUE
\* What a tool may print, of any length: a tool that worked reports no error on standard
\* error, and one that failed does not say that all is clean.
Printed(t, in) ==
    /\ \E f \in Forms(t) : /\ in.ask \in f.asks /\ in.exit \in f.exits
                           /\ in.out \in Seq(f.out) /\ in.err \in Seq(f.err)
    /\ Placed(t, in.out)
    /\ in.exit = 0 => Of(in, {"err", "error", "norepo"}) \subseteq Out(in)
    /\ in.exit # 0 => ~Has(in, {"clean"})

ASSUME FiltersAssumption ==
    /\ \A t \in Tools : \A in \in Inputs[t] : Printed(t, in)
    /\ Masking \subseteq {"env"} /\ "deps" \notin Declaring

-----------------------------------------------------------------------------
(* Through the filter and the gate *)

\* The two texts as the gate sees them; a text that is empty has no characters.
Size == 1000
RawText(in) == [len |-> IF All(in) = {} THEN 0 ELSE Size, exit |-> in.exit]
View(in, reply, grows) ==
    [len |-> IF reply.shown = {} /\ reply.says = "nothing" /\ ~reply.more THEN 0
             ELSE IF grows THEN Size + Gate!InflationBudget(Size) + 1 ELSE Size,
     same |-> reply = Whole(in), marker |-> reply.more,
     omission |-> reply.omission, safeFull |-> TRUE]

Init == \E t \in Tools : \E in \in Inputs[t] : tool = t /\ r = in /\ answer = NoAnswer

\* handler.filter: the format of the handler, then makeFilteredResult.
FilterAndGate ==
    /\ answer = NoAnswer
    /\ \E save \in Gate!SaveModes, diskOk, grows \in BOOLEAN :
          answer' = Gate!GateResult(tool, RawText(r), View(r, Filter(tool, r), grows), save, diskOk)
    /\ UNCHANGED <<tool, r>>

Next == FilterAndGate
Spec == Init /\ [][Next]_vars

-----------------------------------------------------------------------------

\* What the reader has before him.
ShownLines ==
    CASE answer.content = "raw" -> All(r)
      [] answer.content = "safeFull" -> EnvFull(r).shown
      [] OTHER -> Filter(tool, r).shown

\* What a reader acts upon: the lines that say what went wrong and where, and the rows
\* of a listing.  A digest may shorten them to their names but must keep each one
\* (common/budget.ts:18-26).  What a tool has to say on standard error while it answers
\* on standard output is another matter (README).
Evidence ==
    {"err", "err2", "fail", "change", "marked", "dashes", "row", "bad", "match", "path", "far",
     "entry", "dep", "problem", "pair", "secret", "one"}
Heard == Of(r, Evidence) \cap Either(r)

\* Handlers whose filters drop such lines without a word, by design or not, and handlers
\* whose digest drops some of them (README).
Selective == {"pytest", "test", "log", "summary", "gradle", "kubectl", "wget"}
Shortening == {"mvn", "gradle", "glab release", "curl", "grep", "find", "pipe", "git log"}
\* The reader asked for a window on a file or for its symbols; git said that there was
\* nothing to be done, and nothing else is looked at (README).
Excused == \/ tool = "type" /\ r.ask \in {"head", "tail", "aggressive"}
           \/ tool = "git" /\ r.exit # 0 /\ Has(r, Benign)

\* What is lost of a diff without a word: the changed line that reads like the header of a
\* file and, but for the filter of diff, what follows it in its hunk (README).
Skipped(in) ==
    {i \in All(in) : \E m \in 1 .. i : /\ Lines(in)[m] = "marked"
                                       /\ \A j \in m + 1 .. i : Lines(in)[j] # "hunk"}
SkippedBy(t, in) == IF t = "diff" THEN Of(in, {"marked"}) ELSE Skipped(in)
\* A declared digest of a diff is without the changed lines it takes for context.
Mistaken(in) == Of(in, {"dashes"})

\* ADR 0001 through every filter: a line of evidence that the reader is not shown is in a
\* snapshot he has a pointer to, but for the changed lines that the parser of diffs skips.
EvidenceKept ==
    answer # NoAnswer /\ tool \notin Selective /\ ~Excused =>
        \/ Heard \ SkippedBy(tool, r) \subseteq ShownLines \/ answer.pointer
        \/ /\ answer.omission = "digest"
           /\ tool \in Shortening \/ Heard \ (SkippedBy(tool, r) \cup Mistaken(r)) \subseteq ShownLines

\* Handlers whose verdict is right by luck (README).
Credulous == {"mypy", "pytest", "diff", "summary", "format", "npm"}
\* A verdict, "ok" or "nothing found", stands over every line that reports an error, and
\* if the tool failed there is such a line, or it said itself that nothing was to be done.
VerdictEarned ==
    /\ answer.content = "filtered"
    /\ Filter(tool, r).says \in {"ok", "clean"}
    /\ tool \notin Credulous
    => /\ Of(r, {"err", "fail", "bad"}) \subseteq ShownLines \/ Has(r, Benign)
       /\ \/ r.exit = 0 \/ All(r) = {}
          \/ Has(r, Benign \cup {"err", "fail", "bad"})
=============================================================================
