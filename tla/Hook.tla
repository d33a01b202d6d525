-------------------------------- MODULE Hook --------------------------------
(***************************************************************************)
(* `ctx hook copilot` and `ctx hook claude`: one call of a tool by an      *)
(* agent, as the host shows it to the hook before it is made.              *)
(*   call     what the host sends                                          *)
(*   stdin    "open", or how the reading of it ended; got chunks of it     *)
(*   verdict  what the hook decided; Undecided before that                 *)
(*   rows     the ledgers the hook wrote to                                *)
(*                                                                         *)
(* A command line is a sequence of tokens: words, the operators "|" ";"    *)
(* "&&" ">", brackets, "$(", the double quote, which stands for the single *)
(* one too, and the backslash.  Of the words, "git" is a tool with a       *)
(* handler, "push" one that writes or that asks, "for", "while", "do" and  *)
(* "done" may be keywords, and "echo" stands for the rest.                 *)
(***************************************************************************)
EXTENDS Naturals, Sequences, FiniteSets

CONSTANTS
    Calls,    \* what hosts may send
    Chunks    \* in how many pieces it arrives

\* A call of the shell has a command line and nothing else that is looked at.
ASSUME CallsAssumption ==
    \A in \in Calls : in.command \in Seq(STRING) /\ (in.tool = "shell" => in.target = "none")

VARIABLES call, stdin, got, verdict, rows
hookVars == <<call, stdin, got, verdict, rows>>

Undecided == [decision |-> "none"]
Allow == [decision |-> "allow", kind |-> "none", hint |-> FALSE]

-----------------------------------------------------------------------------
\* hook/rewrite.ts.

QuoteMark == "\""
LeftBrace == "{"
RightBrace == "}"
Semicolon == ";"
Chain == {"|", Semicolon, "&&"}

\* Whether token i is inside double quotes as ctx counts them: every quote counts.
Quotes(c, i) == Cardinality({j \in 1 .. i - 1 : c[j] = QuoteMark})
Quoted(c, i) == Quotes(c, i) % 2 = 1

\* The depth of braces before token i, with the floor at 0.
BraceDepth(c) ==
    LET d[i \in 0 .. Len(c)] ==
          IF i = 0 THEN 0
          ELSE IF Quoted(c, i) THEN d[i - 1]
          ELSE IF c[i] = LeftBrace THEN d[i - 1] + 1
          ELSE IF c[i] = RightBrace /\ d[i - 1] > 0 THEN d[i - 1] - 1
          ELSE d[i - 1]
    IN d

\* splitTopLevel: the operators at which the line falls apart.
Splits(c) ==
    LET depth == BraceDepth(c)
    IN {i \in 1 .. Len(c) : c[i] \in Chain /\ ~Quoted(c, i) /\ depth[i - 1] = 0}

\* The segments, by the place of the operator before each, 0 for the first; and the
\* operator that ends it, Len + 1 for the last.
Heads(c) == {0} \cup Splits(c)
EndOf(c, h) == CHOOSE e \in Splits(c) \cup {Len(c) + 1} :
                  e > h /\ \A x \in Splits(c) : x > h => e <= x
\* The first token of a segment, once the quotes are gone.
Words(c, h) == {i \in h + 1 .. EndOf(c, h) - 1 : c[i] # QuoteMark}
FirstWord(c, h) == CHOOSE i \in Words(c, h) : \A j \in Words(c, h) : i <= j
Program(c, h) == IF Words(c, h) = {} THEN "none" ELSE c[FirstWord(c, h)]

\* eligibility: a tool with a handler and a binary, not interactive and not mutating.
Eligible(program) == program = "git"

\* Before C1 a producer was rewritten as well.
FollowedByPipeAnyway(c, h) == FALSE
FollowedByPipe(c, h) == EndOf(c, h) <= Len(c) /\ c[EndOf(c, h)] = "|"
PrecededByPipe(c, h) == h > 0 /\ c[h] = "|"

Redirects(c) == \E i \in 1 .. Len(c) : c[i] = ">" /\ ~Quoted(c, i)
\* hasShellSubstitution: quotes do not hide it, a backslash does.
Substitutes(c) == \E i \in 1 .. Len(c) : c[i] = "$(" /\ (i = 1 \/ c[i - 1] # "\\")
PipesIntoXargs(c) == \E h \in Heads(c) : PrecededByPipe(c, h) /\ Program(c, h) = "xargs"

\* rewriteCommand: the places where "ctx" goes in.
Prefixed(c) ==
    IF Redirects(c) \/ Substitutes(c) \/ PipesIntoXargs(c) THEN {}
    ELSE {h + 1 : h \in {h \in Heads(c) : /\ ~PrecededByPipe(c, h) /\ ~FollowedByPipe(c, h)
                                          /\ Eligible(Program(c, h))}}

RewriteCommand(c) ==
    LET at == Prefixed(c)
        f[i \in 0 .. Len(c)] ==
          IF i = 0 THEN <<>> ELSE f[i - 1] \o (IF i \in at THEN <<"ctx", c[i]>> ELSE <<c[i]>>)
    IN f[Len(c)]

-----------------------------------------------------------------------------
\* hook/normalize.ts, govern.ts, prompt.ts, error.ts: everything but commands.

\* The event, or the one that the shape of a nameless payload speaks for.
EventOf(in) ==
    IF in.event = "absent" /\ in.host # "unknown" /\ in.tool # "none" /\ ~in.result
    THEN "preToolUse" ELSE in.event

GovernDirectTool(in) ==
    IF in.tool \in {"read", "list"} /\ in.target \in {"dependency", "lockfile"}
    THEN [Allow EXCEPT !.decision = "deny", !.kind = "denied_large_reads"]
    ELSE IF in.tool = "search" /\ in.target = "repo"
    THEN [Allow EXCEPT !.decision = "suggest", !.kind = "suggested_broad_searches", !.hint = TRUE]
    ELSE Allow

GovernPrompt(in) ==
    CASE in.target = "huge" -> [Allow EXCEPT !.decision = "deny", !.kind = "denied_large_prompts"]
      [] in.target = "large" ->
            [Allow EXCEPT !.decision = "suggest", !.kind = "suggested_large_prompts", !.hint = TRUE]
      [] in.target = "implement" -> [Allow EXCEPT !.decision = "suggest", !.hint = TRUE]
      [] OTHER -> Allow

DecideShell(in) ==
    IF Prefixed(in.command) = {} THEN Allow
    ELSE [decision |-> "rewrite", kind |-> "none", hint |-> FALSE,
          command |-> RewriteCommand(in.command)]

\* copilot.ts, decide; errorOccurred is answered with a hint and never blocks.
DecideCopilot(in) ==
    CASE EventOf(in) = "preToolUse" /\ in.tool = "shell" /\ in.command # <<>> -> DecideShell(in)
      [] EventOf(in) = "preToolUse" /\ ~(in.tool = "shell" /\ in.command # <<>>) ->
            GovernDirectTool(in)
      [] EventOf(in) = "userPromptSubmitted" -> GovernPrompt(in)
      [] EventOf(in) = "errorOccurred" -> [Allow EXCEPT !.hint = TRUE]
      [] OTHER -> Allow

\* claude.ts, decide: Bash and nothing else, whatever the event.
DecideClaude(in) == IF in.tool = "shell" /\ in.command # <<>> THEN DecideShell(in) ELSE Allow

Decide(in) == IF in.host = "claude" THEN DecideClaude(in) ELSE DecideCopilot(in)

-----------------------------------------------------------------------------

HookInit ==
    /\ call \in Calls
    /\ stdin = "open" /\ got = 0 /\ verdict = Undecided /\ rows = {}

\* readStreamWithTimeout: the first of end, error and the timer settles it.
ReadData ==
    /\ stdin = "open" /\ got < Chunks
    /\ got' = got + 1
    /\ UNCHANGED <<call, stdin, verdict, rows>>

\* The stream ends, breaks off, or two seconds are over; a terminal is not read at all.
Settle ==
    /\ stdin = "open"
    /\ stdin' \in {"broken", "late", "terminal"} \cup (IF got = Chunks THEN {"ended"} ELSE {})
    /\ stdin' = "terminal" => got = 0
    /\ UNCHANGED <<call, got, verdict, rows>>

\* A payload that is not whole does not parse, and what does not parse is allowed.  The
\* answer is written, then the rows: governance for what has a kind, a failure for a tool
\* that failed; a row that cannot be written is dropped.
Answer ==
    /\ stdin # "open" /\ verdict = Undecided
    /\ verdict' = IF got = Chunks THEN Decide(call) ELSE Allow
    /\ \E lost \in BOOLEAN :
          rows' = IF lost \/ got # Chunks \/ call.host = "claude" THEN {}
                  ELSE (IF verdict'.kind # "none" THEN {"governance"} ELSE {})
                       \cup (IF EventOf(call) = "errorOccurred" THEN {"failure"} ELSE {})
    /\ UNCHANGED <<call, stdin, got>>

HookNext == ReadData \/ Settle \/ Answer
HookSpec == HookInit /\ [][HookNext]_hookVars

-----------------------------------------------------------------------------
\* What the shell makes of the same line: bash, or PowerShell, whose blocks are braces too.

Shells == {"bash", "pwsh"}

\* The place of token t: quotes nest nothing, and in bash a backslash takes the meaning from
\* the token after it.  PowerShell groups by a brace anywhere; to bash a brace and a keyword
\* are words like others unless they stand where a command can begin.
Role(shell, was, t) ==
    LET here == was.begin \/ shell = "pwsh"
        keyword == was.begin /\ shell = "bash"
    IN CASE was.quote \/ was.escape -> "text"
         [] ~(was.quote \/ was.escape) /\ t \in Chain \cup {">"} -> "operator"
         [] /\ ~(was.quote \/ was.escape)
            /\ t \in {"(", "$("} \/ (t = LeftBrace /\ here) \/ (t \in {"for", "while"} /\ keyword) -> "open"
         [] /\ ~(was.quote \/ was.escape)
            /\ t = ")" \/ (t = RightBrace /\ here) \/ (t = "done" /\ keyword) -> "close"
         [] OTHER -> "word"

\* Beyond it: "while" stands for "if" and "until", "do" for "then" and "else", "done" for "fi".
Beyond(shell, was, t) ==
    LET role == Role(shell, was, t)
    IN [quote |-> was.quote # (t = QuoteMark /\ ~was.escape),
        escape |-> shell = "bash" /\ t = "\\" /\ ~was.escape,
        level |-> CASE role = "open" -> was.level + 1
                    [] role = "close" -> was.level - 1
                    [] OTHER -> was.level,
        begin |-> \/ role \in {"operator", "open", "close"} /\ t \notin {">", "for"}
                  \/ role = "word" /\ was.begin /\ t = "do"]

Shell(shell, c) ==
    LET sh[i \in 0 .. Len(c)] ==
          IF i = 0 THEN [quote |-> FALSE, escape |-> FALSE, level |-> 0, begin |-> TRUE]
          ELSE Beyond(shell, sh[i - 1], c[i])
    IN [i \in 1 .. Len(c) |-> [role |-> Role(shell, sh[i - 1], c[i]), level |-> sh[i - 1].level,
                               begin |-> sh[i - 1].begin, token |-> c[i]]]

\* Token i is the word of a command.
CommandWord(sh, i) == sh[i].role = "word" /\ sh[i].begin

\* The first operator, closing bracket or redirection after i at each level around it
\* sends the output of i on into a pipe or a file.
OutputGoesOn(sh, i) ==
    \E k \in 0 .. sh[i].level :
        LET ends == {j \in i + 1 .. Len(sh) : sh[j].level = k /\ sh[j].role \in {"operator", "close"}}
        IN \E j \in ends : sh[j].token \in {"|", ">"} /\ \A x \in ends : j <= x

\* Lines whose groups ctx can see: it counts every brace outside quotes, an argument too,
\* and neither parentheses nor keywords nor the backslash of bash (README).
Plain(shell, c) ==
    LET sh == Shell(shell, c)
    IN \A i \in 1 .. Len(c) :
          /\ sh[i].role \in {"open", "close"} <=> sh[i].role # "text" /\ c[i] \in {LeftBrace, RightBrace}
          /\ shell = "bash" => c[i] # "\\"

\* rewrite.ts:3-14, 45-53, 304-306, 368-372 and normalize.ts:325-330: in a line whose groups
\* ctx can see (Plain), for both shells, "ctx" is put in only before a command, never inside
\* an argument, and only if nothing but the reader gets what it prints; whatever the line,
\* one that is seen twice is changed once, one that did not arrive whole is left alone, and
\* no command is ever refused.
HookHarmless ==
    verdict # Undecided =>
        /\ verdict.decision = "rewrite" =>
              /\ got = Chunks /\ call.tool = "shell"
              /\ \A shell \in Shells : Plain(shell, call.command) =>
                    LET sh == Shell(shell, call.command)
                    IN \A i \in Prefixed(call.command) :
                          CommandWord(sh, i) /\ ~OutputGoesOn(sh, i)
              /\ RewriteCommand(verdict.command) = verdict.command
        /\ call.tool = "shell" => verdict.decision \in {"allow", "rewrite"}
=============================================================================
