------------------------------ MODULE MCFilters ------------------------------
(***************************************************************************)
(* The tools, each with everything it may print in a few lines.            *)
(***************************************************************************)
EXTENDS Filters
LOCAL INSTANCE SequencesExt

CONSTANTS MaxOut, MaxErr

MCTools ==
    {"git diff", "git show", "git log", "git status", "git branch", "git", "gt", "gh", "glab release",
     "diff", "grep", "find", "dir", "type", "cat", "ls", "tree", "wc", "env", "json", "deps", "format",
     "err", "test", "summary", "log", "pipe", "smart", "eslint", "tsc", "mypy", "ruff", "javac",
     "prettier", "jest", "playwright", "pytest", "dotnet", "gradle", "mvn", "next", "npm", "prisma",
     "terraform", "npm ls", "pip", "aws", "docker", "kubectl", "curl", "wget", "psql", "npx"}

\* Bounds: the lines on each stream and the exit codes; a hunk directly below the name of
\* its file or another hunk, a detail below what it belongs to.
Above(kind) == CASE kind = "hunk" -> {"file", "boiler", "rename"} \cup ChangedLines
                 [] kind \in {"marked", "dashes"} -> Hunks
                 [] kind = "boiler" -> {"file", "boiler"}
                 [] kind = "detail" -> {"fail", "err", "warn", "row", "detail"}
                 [] OTHER -> {}
\* A change below a line that is skipped is the fourth of a diff.
Longest(f) == IF "marked" \in f.out THEN MaxOut + 1 ELSE MaxOut
Formed(s) == \A i \in 1 .. Len(s) : Above(s[i]) # {} => i > 1 /\ s[i - 1] \in Above(s[i])
Codes(t) == IF t = "pytest" THEN 0 .. 2 ELSE 0 .. 1
Bounded(t, f) ==
    {in \in [ask : f.asks, exit : {c \in Codes(t) : c \in f.exits},
             out : {s \in SeqOf(f.out, Longest(f)) : Formed(s)}, err : SeqOf(f.err, MaxErr)] :
        Printed(t, in)}
MCInputs == [t \in MCTools |-> UNION {Bounded(t, f) : f \in Forms(t)}]
=============================================================================
