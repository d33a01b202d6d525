---------------------------- MODULE MCOneCommand ----------------------------
(***************************************************************************)
(* The stations of one command, each on its own: the hook that rewrites    *)
(* the line (Hook), the file that is started (ShimResolution, SpawnTarget),*)
(* what is captured of its output (Capture) and what the filter and the    *)
(* gate leave of that (Filters).  A behaviour is one of one of them, and   *)
(* the others stand still.                                                 *)
(***************************************************************************)
EXTENDS MCFilters, Hook, ShimResolution, SpawnTarget, Capture

VARIABLE area

\* Command lines: simple commands, two of them joined, groups of up to three of them by
\* brackets, keywords or a block that is an argument, and a group or a pair joined to a
\* simple one; a brace may be an argument.
Few == {<<"git">>, <<"echo">>, <<"echo", "\"", "git", ";", "git", "\"">>}
Simple == Few \cup {<<"ctx", "git">>, <<"push">>, <<"xargs">>, <<"git", ">", "echo">>,
                    <<"\"", "git", "\"">>, <<"git", "\\", ";">>, <<"git", "$(", "git", ")">>,
                    <<"echo", "\"", "\\", "\"", ";", "git", "\"">>}
Braced == {<<"git", "{">>, <<"git", "}">>, <<"git", "{", "}">>}
Joined(A, B) == {a \o <<op>> \o b : a \in A, op \in {"|", ";", "&&"}, b \in B}
Lists == Few \cup Joined(Few, Few)
Between(A, before, after) == {before \o a \o after : a \in A}
Groups == Between(Lists \cup Joined({<<"echo">>}, Joined({<<"git">>}, Few)), <<"{">>, <<";", "}">>)
            \cup Between(Lists, <<"(">>, <<")">>)
Blocks == Between(Lists, <<"for", "echo", ";", "do">>, <<";", "done">>)
            \cup Between(Few, <<"while">>, <<";", "do", "git", ";", "done">>)
            \cup Between(Lists, <<"echo", "{">>, <<"}">>)
ShellLines == LET any == Simple \cup Braced
              IN any \cup Joined(any, any) \cup Joined(Few, Joined(Few, Simple))
                   \cup Groups \cup Joined(Groups, Simple) \cup Joined(Simple, Groups)
                   \cup Blocks \cup Joined(Blocks, Few) \cup Joined(Few, Blocks)

Hosts == {"claude", "cli", "vscode", "unknown"}
Events == {"preToolUse", "absent", "userPromptSubmitted", "errorOccurred", "sessionStart"}
Payloads(hosts, events, tools, targets, commands) ==
    [host : hosts, event : events, tool : tools, target : targets, result : BOOLEAN,
     command : commands]
HookCalls ==
    Payloads({"claude"}, {"preToolUse"}, {"shell"}, {"none"}, ShellLines)
    \cup Payloads(Hosts, Events, {"shell"}, {"none"}, {<<>>, <<"git">>, <<"git", "|", "echo">>})
    \cup Payloads(Hosts, Events, {"read", "list", "search", "edit"},
                  {"none", "dependency", "lockfile", "repo"}, {<<>>})
    \cup Payloads(Hosts, Events, {"none"}, {"huge", "large", "implement", "none"}, {<<>>})

\* Texts in UTF-8 around the cap, and bytes of another encoding that look like it.
Characters == {<<"ascii">>, <<"lead2", "more">>, <<"lead3", "more", "more">>,
               <<"lead4", "more", "more", "more">>, <<"mark", "more", "more">>}
CaptureOutputs ==
    {s \in {FlattenSeq(t) : t \in SeqOf(Characters, 5)} : Len(s) <= 5}
    \cup SeqOf({"lead2", "more"}, 5)

\* Two words with and without a %, a name of ctx's own and one of the user's.
BatchWords == SeqOf({"%", "CTX_PCT", "PATH", "text"}, 3) \ {<<>>}
WordPairs == {<<a, b>> : a \in {w \in BatchWords : Len(w) < 3}, b \in BatchWords}
PercentNames == <<"CTX_PCT", "CTX_PCT_1">>
ParentEnvs == UNION {[D -> {"%", "value"}] : D \in SUBSET {"CTX_PCT", "CTX_PCT_1", "PATH"}}

\* A station that stands still has nothing before it.
HookStill ==
    /\ call = "none" /\ stdin = "open" /\ got = 0 /\ verdict = Undecided /\ rows = {}
ShimStill ==
    /\ path = <<>> /\ files = <<>> /\ wrapper = <<>> /\ proc = NoProc /\ changes = 0
SpawnStill ==
    /\ tokens = <<>> /\ parentEnv = <<>> /\ started = NotStarted
CaptureStill ==
    /\ written = <<>> /\ sent = <<>> /\ kept = <<>> /\ cut = <<>> /\ resolved = NoText
FilterStill ==
    /\ tool = "none" /\ r = "none" /\ answer = NoAnswer
\* Bound: the second program is there for its name only.
GrepInB == files["grep"] = [a |-> "none", b |-> "exec"]

MCInit ==
    \/ /\ area = "hook" /\ HookInit
       /\ ShimStill /\ SpawnStill /\ CaptureStill /\ FilterStill
    \/ /\ area = "shim" /\ ShimInit /\ GrepInB
       /\ HookStill /\ SpawnStill /\ CaptureStill /\ FilterStill
    \/ /\ area = "spawn" /\ SpawnInit
       /\ HookStill /\ ShimStill /\ CaptureStill /\ FilterStill
    \/ /\ area = "capture" /\ CaptureInit
       /\ HookStill /\ ShimStill /\ SpawnStill /\ FilterStill
    \/ /\ area = "filter" /\ Init
       /\ HookStill /\ ShimStill /\ SpawnStill /\ CaptureStill

MCNext ==
    \/ /\ area = "hook" /\ HookNext
       /\ UNCHANGED <<area, shimVars, spawnVars, captureVars, vars>>
    \/ /\ area = "shim" /\ ShimNext
       /\ UNCHANGED <<area, hookVars, spawnVars, captureVars, vars>>
    \/ /\ area = "spawn" /\ SpawnNext
       /\ UNCHANGED <<area, hookVars, shimVars, captureVars, vars>>
    \/ /\ area = "capture" /\ CaptureNext
       /\ UNCHANGED <<area, hookVars, shimVars, spawnVars, vars>>
    \/ /\ area = "filter" /\ Next
       /\ UNCHANGED <<area, hookVars, shimVars, spawnVars, captureVars>>

MCSpec == MCInit /\ [][MCNext]_<<area, hookVars, shimVars, spawnVars, captureVars, vars>>
=============================================================================
