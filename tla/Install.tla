------------------------------ MODULE Install ------------------------------
(***************************************************************************)
(* `ctx install`, `ctx uninstall`, `ctx shim` and `ctx doctor --fix` (the  *)
(* files of shim/ and of hook/ that write): what they put into files that  *)
(* the user and other programs own, and take out again.  Text files get a  *)
(* marked block, Claude's settings a hook entry, the VS Code settings a    *)
(* PATH entry; some files are ctx's alone.  A command is a list of writes, *)
(* decided when it starts from the host it detects; it may be killed       *)
(* between two of them, or end at a file that does not parse, and the      *)
(* user edits the same files between the commands and during them.         *)
(***************************************************************************)
EXTENDS Naturals, Sequences, FiniteSets

CONSTANTS
    MaxCommands, \* bound on the commands given
    MaxUserEdits \* bound on the edits of the user

VARIABLES
    text,      \* the files that get a block
    hooks,     \* the files that register a hook
    settings,  \* the VS Code settings
    backup,    \* settings.json.ctx-backup
    owned,     \* the files that are ctx's alone
    shim,      \* the wrappers and their manifest
    recorded,  \* delivery-state.json: the host of the last install
    env,       \* what the detection of the host sees
    job,       \* the command that runs
    commands, userEdits

installVars == <<text, hooks, settings, backup, owned, shim, recorded, env, job, commands,
                 userEdits>>

Hosts == {"claude-code", "copilot-cli", "vscode", "unknown"}

-----------------------------------------------------------------------------
(* Texts: lines of the user, line ends, and the block of ctx *)

Words == {"a", "b"}
Blocks == {"prefix", "guide", "path"}
Tokens == Words \cup Blocks \cup {"nl"}
Absent == <<"absent">>
TextFiles == {"rc", "claudeMd", "copilotMd", "homeMd", "repoMd"}

At(t, i, x) == i \in DOMAIN t /\ t[i] = x

\* removeRcBlock, removeInjectionBlock: the first block and one line end on each side.
Stripped(t) ==
    IF \A i \in DOMAIN t : t[i] \notin Blocks THEN t
    ELSE LET i == CHOOSE i \in DOMAIN t : t[i] \in Blocks /\ \A j \in 1 .. i - 1 : t[j] \notin Blocks
         IN SubSeq(t, 1, IF At(t, i - 1, "nl") THEN i - 2 ELSE i - 1)
            \o SubSeq(t, IF At(t, i + 1, "nl") THEN i + 2 ELSE i + 1, Len(t))

\* Without its last line ends.
Trimmed(t) ==
    LET n == CHOOSE n \in 0 .. Len(t) : /\ \A i \in n + 1 .. Len(t) : t[i] = "nl"
                                        /\ n > 0 => t[n] # "nl"
    IN SubSeq(t, 1, n)
Text(t) == IF t = Absent THEN <<>> ELSE t
Holds(t, b) == \E i \in DOMAIN t : t[i] = b

\* applyRcBlock
RcBlock(t) == Stripped(Text(t)) \o <<"nl", "path", "nl">>
\* The slip of reading a file that is not there.
InjectUnchecked(t, b) == Trimmed(Stripped(t)) \o <<"nl", "nl", b, "nl">>
\* applyInjectionBlock
Inject(t, b) ==
    LET s == Stripped(Text(t))
    IN (IF s = <<>> THEN <<>> ELSE Trimmed(s) \o <<"nl", "nl">>) \o <<b, "nl">>
\* unwriteInjection deletes a file in which nothing is left.
Uninject(t) == IF t = Absent \/ Trimmed(Stripped(t)) = <<>> THEN Absent ELSE Stripped(t)
\* unpatchRc, unwriteGuidance
Unpatch(t) == IF t = Absent THEN t ELSE Stripped(t)

-----------------------------------------------------------------------------
(* Hooks and settings.  The marks of a file that is absent or does not parse *)
(* stand alone in their sets.                                                *)

NoFile == {"absent"}
Bad == {"malformed"}

\* Entries of Claude's settings: the user's, another tool's rewriting hook, ctx's own,
\* and ctx's own from where it was before it moved.
ClaudeEntries == {"user", "rtk", "ours", "past"}
\* patchClaudeSettings: every rewriting hook becomes ctx's own, or one is appended.
ClaudeHook(h) == (IF h = NoFile THEN {} ELSE h \ {"rtk", "past"}) \cup {"ours"}
\* isOurClaudeHook does not know the command of an earlier place.
ClaudeUnhook(h) == h \ {"ours"}

\* ctx-rewrite.json: ctx's is known by its marker, wherever ctx was.
Configs == {"absent", "foreign", "ours", "past"}
Managed(c) == c \in {"ours", "past"}

\* Settings: PATH entries of the user, comments, and what ctx adds.
Marks == {"userPath", "comments", "shim"}
Patched(s) == (IF s = NoFile THEN {} ELSE s \ {"comments"}) \cup {"shim"}
Unpatched(s) == s \ {"comments", "shim"}

OwnedFiles == {"CTX.md", "PONYTAIL.md", "guide.vscode", "lazy.vscode", "prefix.vscode"}

-----------------------------------------------------------------------------
(* Hosts *)

\* A directory, once made, stays.
Env == [live : {"claude-code", "vscode", "none"}, copilot : BOOLEAN, code : BOOLEAN,
        copilotDir : BOOLEAN]

DetectHost ==
    CASE env.live # "none" -> env.live
      [] env.live = "none" /\ (env.copilot \/ env.copilotDir) -> "copilot-cli"
      [] env.live = "none" /\ ~env.copilot /\ ~env.copilotDir /\ hooks.claude # NoFile -> "claude-code"
      [] OTHER -> IF env.code THEN "vscode" ELSE "unknown"

\* Other hosts that are there and have a hook of their own.
Present == (IF env.copilot \/ env.copilotDir THEN <<"copilot-cli">> ELSE <<>>)
           \o (IF hooks.claude # NoFile \/ env.live = "claude-code" THEN <<"claude-code">> ELSE <<>>)

\* installedTierIds
TierIds(host) ==
    CASE host = "claude-code" -> {"claude-hook", "guidance"}
      [] host = "copilot-cli" -> {"copilot-hook", "guidance"}
      [] host = "vscode" -> {"shim", "vscode-hook", "guidance"}
      [] OTHER -> {"injection", "guidance"}

\* userInjectionPath; VS Code's is a file of ctx's own.
InjectionFile(host) == CASE host = "copilot-cli" -> "copilotMd" [] host = "vscode" -> "prefix.vscode"
                         [] OTHER -> "homeMd"

\* guidanceFilePath, guidanceLoader
HasGuidance(host) ==
    CASE host = "claude-code" -> "CTX.md" \in owned \/ text["claudeMd"] # Absent
      [] host = "copilot-cli" -> text["copilotMd"] # Absent
      [] host = "vscode" -> "guide.vscode" \in owned
      [] OTHER -> FALSE

\* buildDeliveryMatrix, for the host that is detected now.
Live(tier) ==
    CASE tier = "claude-hook" -> "ours" \in hooks.claude
      [] tier \in {"copilot-hook", "vscode-hook"} -> Managed(hooks.copilot)
      [] tier = "shim" -> shim = "full"
      [] tier = "injection" -> LET f == InjectionFile(DetectHost)
                               IN IF f \in OwnedFiles THEN f \in owned ELSE text[f] # Absent
      [] OTHER -> HasGuidance(DetectHost)

MissingTiers == IF recorded = "none" THEN {} ELSE {t \in TierIds(recorded) : ~Live(t)}

-----------------------------------------------------------------------------
Quiet == [cmd |-> "none", host |-> "unknown", todo |-> <<>>]

InstallInit ==
    /\ text \in [TextFiles -> {Absent, <<"a", "nl">>, <<"a">>}]
    /\ hooks \in [claude : {NoFile, Bad} \cup SUBSET {"user", "rtk"},
                  copilot : {"absent", "foreign"}, repo : {"absent", "foreign"}]
    /\ settings \in {NoFile, Bad} \cup SUBSET {"userPath", "comments"}
    /\ backup = NoFile /\ owned = {} /\ shim = "absent" /\ recorded = "none"
    /\ env \in [live : {"claude-code", "vscode", "none"}, copilot : BOOLEAN, code : BOOLEAN,
                copilotDir : {FALSE}]
    /\ job = Quiet /\ commands = 0 /\ userEdits = 0

Touched == <<text, hooks, settings, backup, owned, shim>>
NoJob == job.cmd = "none"

-----------------------------------------------------------------------------
(* Commands and the writes they are made of *)

\* A hook is written where the command says: the repository, for Copilot and VS Code.
HookOps(host, project) ==
    IF host = "claude-code" THEN <<"claude">>
    ELSE IF project THEN <<"planRepo", "swapRepo">> ELSE <<"planCopilot", "swapCopilot">>

\* writeGuidance: the guide, the doctrine or its removal, and what refers to them.
GuidanceOps(host, pony) ==
    CASE host = "claude-code" -> <<"ctxMd", IF pony THEN "pony" ELSE "noPony", "claudeMd">>
      [] host = "copilot-cli" -> <<"copilotMd">>
      [] host = "vscode" -> <<"vscodeGuide", IF pony THEN "lazy" ELSE "noLazy">>
      [] OTHER -> <<>>

\* The slip of pruning after the wrappers are written.
PrunedLast == <<"wrappers", "manifest", "prune">>
ShimOps == <<"prune", "wrappers", "manifest">>
Others(host) == SelectSeq(Present, LAMBDA h : h # host)

\* The tier ladder: the hook if it stands alone, else the shim, else a block of text.
LadderOps(host, project, pony) ==
    CASE host \in {"claude-code", "copilot-cli"} ->
             HookOps(host, project) \o GuidanceOps(host, pony) \o <<"record">>
      [] host = "vscode" ->
             HookOps(host, project) \o ShimOps
             \o <<"settings", IF pony THEN "probePony" ELSE "probe">>
      [] OTHER -> <<"inject", "record">>

InstallOps(host, auto, project, pony) ==
    (IF project THEN <<"repoMd">> ELSE <<>>)
    \o (IF ~auto THEN <<>>
        ELSE LET os == Others(host)
             IN (IF Len(os) > 0 THEN HookOps(os[1], project) ELSE <<>>)
                \o (IF Len(os) > 1 THEN HookOps(os[2], project) ELSE <<>>))
    \o LadderOps(host, project, pony)

Starts(cmd, host, todo) ==
    /\ NoJob /\ commands < MaxCommands /\ commands' = commands + 1
    /\ job' = [cmd |-> cmd, host |-> host, todo |-> todo]
    /\ UNCHANGED <<Touched, recorded, env, userEdits>>

Install(forced, project, pony) ==
    LET host == IF forced = "auto" THEN DetectHost ELSE forced
    IN Starts(IF project THEN "installProject" ELSE "install", host,
              InstallOps(host, forced = "auto", project, pony))

\* `ctx shim install` writes the shell's file as well.
ShimInstall == Starts("shim", "vscode", ShimOps \o <<"rc", "settings">>)

UninstallOps == <<"unclaude", "uncopilot", "unshim", "unrc", "unsettings", "uninject",
                  "unguideClaude", "unguideCopilot", "unguideVscode">>
Uninstall == Starts("uninstall", DetectHost, UninstallOps)
UninstallProject == Starts("uninstallProject", DetectHost, <<"unrepo", "unrepoMd">>)

\* repairInstalls: `install --host` for the host of the record, which rejects a host
\* that has no name of its own.
Repair == IF MissingTiers = {} \/ recorded = "unknown" THEN <<>>
          ELSE InstallOps(recorded, FALSE, FALSE, FALSE)
Doctor == Starts("doctor", recorded, Repair)

-----------------------------------------------------------------------------
(* The writes *)

Next1(ops) == job.todo # <<>> /\ Head(job.todo) \in ops
GoesOn == job' = [job EXCEPT !.todo = Tail(@)]
Rest == UNCHANGED <<recorded, commands, userEdits>>
Wrote(f, t) == text' = [text EXCEPT ![f] = t]
\* Files under ~/.copilot bring its directory.
CopilotDir(b) == env' = [env EXCEPT !.copilotDir = @ \/ b]

WriteText ==
    /\ Next1({"rc", "claudeMd", "copilotMd", "repoMd"})
    /\ LET f == Head(job.todo) IN
       /\ Wrote(f, CASE f = "rc" -> RcBlock(text[f])
                     [] f = "repoMd" -> Inject(text[f], "prefix")
                     [] OTHER -> Inject(text[f], "guide"))
       /\ CopilotDir(f = "copilotMd")
    /\ GoesOn /\ Rest /\ UNCHANGED <<hooks, settings, backup, owned, shim>>

\* writeInjection
WriteInjection ==
    /\ Next1({"inject"})
    /\ LET f == InjectionFile(job.host) IN
       IF f \in OwnedFiles THEN owned' = owned \cup {f} /\ UNCHANGED text
       ELSE Wrote(f, Inject(text[f], "prefix")) /\ UNCHANGED owned
    /\ CopilotDir(job.host = "vscode")
    /\ GoesOn /\ Rest /\ UNCHANGED <<hooks, settings, backup, shim>>

WriteOwned ==
    /\ Next1({"ctxMd", "pony", "noPony", "vscodeGuide", "lazy", "noLazy"})
    /\ owned' = CASE Head(job.todo) = "ctxMd" -> owned \cup {"CTX.md"}
                  [] Head(job.todo) = "pony" -> owned \cup {"PONYTAIL.md"}
                  [] Head(job.todo) = "noPony" -> owned \ {"PONYTAIL.md"}
                  [] Head(job.todo) = "vscodeGuide" -> owned \cup {"guide.vscode"}
                  [] Head(job.todo) = "lazy" -> owned \cup {"lazy.vscode"}
                  [] OTHER -> owned \ {"lazy.vscode"}
    /\ CopilotDir(Head(job.todo) = "vscodeGuide")
    /\ GoesOn /\ Rest /\ UNCHANGED <<text, hooks, settings, backup, shim>>

\* Settings that do not parse end the command.
WriteClaudeHook ==
    /\ Next1({"claude"})
    /\ IF hooks.claude = Bad THEN job' = Quiet /\ UNCHANGED hooks
       ELSE GoesOn /\ hooks' = [hooks EXCEPT !.claude = ClaudeHook(@)]
    /\ Rest /\ UNCHANGED <<text, settings, backup, owned, shim, env>>

\* planCopilotHookConfig: a file without the marker is not ctx's to write.
PlanHook(d, op) ==
    /\ Next1({op})
    /\ job' = [job EXCEPT !.todo = IF hooks[d] \in {"absent", "past"} THEN Tail(@)
                                   ELSE Tail(Tail(@))]
    /\ Rest /\ UNCHANGED <<Touched, env>>

\* The slip of trusting the plan.
SwappedBlindly(c) == "ours"
\* installCopilotHookConfig looks once more before it renames.
Swapped(c) == IF c = "foreign" THEN c ELSE "ours"
SwapHook(d, swap) ==
    /\ Next1({swap})
    /\ hooks' = [hooks EXCEPT ![d] = Swapped(@)]
    /\ CopilotDir(d = "copilot")
    /\ GoesOn /\ Rest /\ UNCHANGED <<text, settings, backup, owned, shim>>

\* installWrappers: everything goes, the wrappers come one by one, the manifest last.
WriteShim ==
    /\ Next1({"prune", "wrappers", "manifest"})
    /\ shim' = CASE Head(job.todo) = "prune" -> "absent" [] Head(job.todo) = "wrappers" -> "partial"
                 [] OTHER -> "full"
    /\ GoesOn /\ Rest /\ UNCHANGED <<text, hooks, settings, backup, owned, env>>

\* writeSettingsPreservingBackup: comments do not survive, but in the backup.
Rewritten(s) ==
    /\ settings' = s
    /\ backup' = IF "comments" \in settings THEN settings ELSE backup

WriteSettings ==
    /\ Next1({"settings"})
    /\ IF ~env.code \/ settings = Bad THEN UNCHANGED <<settings, backup>>
       ELSE Rewritten(Patched(settings))
    /\ GoesOn /\ Rest /\ UNCHANGED <<text, hooks, owned, shim, env>>

\* The probe decides between the shim and the block of text; the guide comes with both.
Probe(pass) ==
    /\ Next1({"probe", "probePony"})
    /\ job' = [job EXCEPT !.todo = (IF pass THEN <<>> ELSE <<"inject">>)
                                   \o GuidanceOps(job.host, Head(@) = "probePony") \o <<"record">>]
    /\ Rest /\ UNCHANGED <<Touched, env>>

\* recordInstall
Record ==
    /\ Next1({"record"}) /\ recorded' = job.host
    /\ GoesOn /\ UNCHANGED <<Touched, env, commands, userEdits>>

-----------------------------------------------------------------------------
(* Removals *)

RemoveHook ==
    /\ Next1({"unclaude", "uncopilot", "unrepo"})
    /\ hooks' = CASE Head(job.todo) = "unclaude" -> [hooks EXCEPT !.claude = ClaudeUnhook(@)]
                  [] Head(job.todo) = "uncopilot" ->
                         [hooks EXCEPT !.copilot = IF Managed(@) THEN "absent" ELSE @]
                  [] OTHER -> [hooks EXCEPT !.repo = IF Managed(@) THEN "absent" ELSE @]
    /\ GoesOn /\ Rest /\ UNCHANGED <<text, settings, backup, owned, shim, env>>

RemoveShim ==
    /\ Next1({"unshim"}) /\ shim' = "absent"
    /\ GoesOn /\ Rest /\ UNCHANGED <<text, hooks, settings, backup, owned, env>>

RemoveText ==
    /\ Next1({"unrc", "unrepoMd"})
    /\ IF Head(job.todo) = "unrc" THEN Wrote("rc", Unpatch(text["rc"]))
       ELSE Wrote("repoMd", Uninject(text["repoMd"]))
    /\ GoesOn /\ Rest /\ UNCHANGED <<hooks, settings, backup, owned, shim, env>>

RemoveSettings ==
    /\ Next1({"unsettings"})
    /\ IF settings \in {NoFile, Bad} THEN UNCHANGED <<settings, backup>>
       ELSE Rewritten(Unpatched(settings))
    /\ GoesOn /\ Rest /\ UNCHANGED <<text, hooks, owned, shim, env>>

\* The block of the host that is detected when the command runs.
RemoveInjection ==
    /\ Next1({"uninject"})
    /\ LET f == InjectionFile(DetectHost) IN
       IF f \in OwnedFiles THEN owned' = owned \ {f} /\ UNCHANGED text
       ELSE Wrote(f, Uninject(text[f])) /\ UNCHANGED owned
    /\ GoesOn /\ Rest /\ UNCHANGED <<hooks, settings, backup, shim, env>>

\* The slip of leaving the doctrine behind.
GuideOnly(op) == IF op = "unguideVscode" THEN {"guide.vscode"} ELSE {"CTX.md"}
\* unwriteGuidance, for every host that has any.
GuideFiles(op) == CASE op = "unguideClaude" -> {"CTX.md", "PONYTAIL.md"}
                    [] op = "unguideVscode" -> {"guide.vscode", "lazy.vscode"}
                    [] OTHER -> {}
RemoveGuidance ==
    /\ Next1({"unguideClaude", "unguideCopilot", "unguideVscode"})
    /\ owned' = owned \ GuideFiles(Head(job.todo))
    /\ text' = CASE Head(job.todo) = "unguideClaude" ->
                        [text EXCEPT !["claudeMd"] = Unpatch(@)]
                 [] Head(job.todo) = "unguideCopilot" ->
                        [text EXCEPT !["copilotMd"] = Unpatch(@)]
                 [] OTHER -> text
    /\ GoesOn /\ Rest /\ UNCHANGED <<hooks, settings, backup, shim, env>>

-----------------------------------------------------------------------------
End ==
    /\ ~NoJob /\ job.todo = <<>>
    /\ job' = Quiet
    /\ UNCHANGED <<Touched, recorded, env, commands, userEdits>>

Killed ==
    /\ ~NoJob /\ job.todo # <<>>
    /\ job' = Quiet
    /\ UNCHANGED <<Touched, recorded, env, commands, userEdits>>

-----------------------------------------------------------------------------
(* The user *)

Edits ==
    /\ userEdits < MaxUserEdits /\ userEdits' = userEdits + 1
    /\ UNCHANGED <<backup, owned, shim, recorded, job, commands>>

\* A line is typed below the last one, which gets its end if it has none.
Closed(t) == IF t # <<>> /\ t[Len(t)] # "nl" THEN t \o <<"nl">> ELSE t
Types(f) ==
    /\ Edits /\ Wrote(f, Closed(Text(text[f])) \o <<"b", "nl">>)
    /\ UNCHANGED <<hooks, settings, env>>
AddsHook ==
    /\ Edits /\ hooks' \in {[hooks EXCEPT !.claude = IF @ \in {NoFile, Bad} THEN {"user"} ELSE @ \cup {"user"}],
                            [hooks EXCEPT !.copilot = "foreign"]}
    /\ UNCHANGED <<text, settings, env>>
\* Another terminal, in which another host may be detected.
Moves == /\ Edits /\ NoJob /\ \E l \in {"claude-code", "vscode", "none"} : env' = [env EXCEPT !.live = l]
         /\ UNCHANGED <<text, hooks, settings>>
\* ctx is upgraded or moved: what was written names the place where it was.
Relocates ==
    /\ Edits /\ NoJob
    /\ hooks' = [claude |-> IF "ours" \in hooks.claude THEN (hooks.claude \ {"ours"}) \cup {"past"}
                            ELSE hooks.claude,
                 copilot |-> IF hooks.copilot = "ours" THEN "past" ELSE hooks.copilot,
                 repo |-> IF hooks.repo = "ours" THEN "past" ELSE hooks.repo]
    /\ UNCHANGED <<text, settings, env>>

-----------------------------------------------------------------------------
InstallNext ==
    \/ \E h \in {"auto", "claude-code", "copilot-cli", "vscode"}, project, pony \in BOOLEAN :
           Install(h, project, pony)
    \/ ShimInstall \/ Uninstall \/ UninstallProject \/ Doctor
    \/ WriteText \/ WriteInjection \/ WriteOwned \/ WriteClaudeHook
    \/ PlanHook("copilot", "planCopilot") \/ SwapHook("copilot", "swapCopilot")
    \/ PlanHook("repo", "planRepo") \/ SwapHook("repo", "swapRepo")
    \/ WriteShim \/ WriteSettings \/ \E pass \in BOOLEAN : Probe(pass)
    \/ Record
    \/ RemoveHook \/ RemoveShim \/ RemoveText \/ RemoveSettings \/ RemoveInjection
    \/ RemoveGuidance
    \/ End \/ Killed
    \/ \E f \in TextFiles : Types(f)
    \/ AddsHook \/ Moves \/ Relocates

InstallSpec == InstallInit /\ [][InstallNext]_installVars
-----------------------------------------------------------------------------
InstallTypeOK ==
    /\ \A f \in TextFiles : text[f] = Absent \/ text[f] \in Seq(Tokens)
    /\ hooks.claude \in {NoFile, Bad} \cup SUBSET ClaudeEntries
    /\ hooks.copilot \in Configs /\ hooks.repo \in Configs
    /\ settings \in {NoFile, Bad} \cup SUBSET Marks
    /\ backup \in {NoFile} \cup SUBSET Marks
    /\ owned \subseteq OwnedFiles /\ shim \in {"absent", "partial", "full"}
    /\ recorded \in Hosts \cup {"none"} /\ env \in Env
    /\ job.host \in Hosts \cup {"none"} /\ commands \in Nat /\ userEdits \in Nat

\* The lines of the user.
Typed(t) ==
    LET f[i \in 0 .. Len(t)] ==
          IF i = 0 THEN <<>> ELSE IF t[i] \in Words THEN Append(f[i - 1], t[i]) ELSE f[i - 1]
    IN f[Len(t)]
Apart(t) == \A i \in 1 .. Len(t) - 1 : ~(t[i] \in Words /\ t[i + 1] \in Words)
\* The shell's block was put below a line that had no end (hostConfig.ts:43-46), and another
\* was typed below it: the end the block brought goes with it (:22), and the two are joined.
Borrowed(t) ==
    \E i \in 1 .. Len(t) : /\ t[i] = "path" /\ i > 2 /\ t[i - 2] \in Words
                          /\ i + 2 <= Len(t) /\ t[i + 2] \in Words

\* Whatever the order of installing, moving and removing, and wherever a command is killed:
\* ctx keeps the lines of the user, in their order and apart but for two between which its
\* block is the only end of line ("byte-identically removable", hostConfig.ts:9), keeps hooks
\* that are not its own ("never clobber it", hook/install.ts), and keeps what it reformats in
\* the backup.
KeepsUsers ==
    userEdits' = userEdits =>
        /\ \A f \in TextFiles : text'[f] # text[f] =>
               /\ Typed(text'[f]) = Typed(text[f])
               /\ Apart(text[f]) /\ ~Borrowed(text[f]) => Apart(text'[f])
        /\ "user" \in hooks.claude => "user" \in hooks'.claude
        /\ hooks.claude = Bad => hooks'.claude = Bad
        /\ \A d \in {"copilot", "repo"} : hooks[d] = "foreign" => hooks'[d] = "foreign"
        /\ settings = Bad => settings' = Bad
        /\ "userPath" \in settings => "userPath" \in settings'
        /\ "comments" \in settings \ settings' => backup' = settings
UsersKept == [][KeepsUsers]_installVars

\* An uninstall that comes to its end removes all that commands of any host have written
\* for the user, also those that were killed ("Remove what ctx installed at the user level",
\* shim/init.ts), but for two things it cannot know: a hook of an earlier place, and the
\* block of a host that is no longer the one detected.
UninstalledClean ==
    job.cmd = "uninstall" /\ job.todo = <<>> =>
        /\ "ours" \notin hooks.claude /\ ~Managed(hooks.copilot)
        /\ shim = "absent" /\ "shim" \notin settings
        /\ \A f \in {"rc", "claudeMd", "copilotMd"} : \A b \in Blocks : ~Holds(text[f], b)
        /\ owned \subseteq {"prefix.vscode"}
        /\ InjectionFile(DetectHost) = "homeMd" => ~Holds(text["homeMd"], "prefix")

\* The file a command registers the hook in: with --project the repository's (init.ts:445).
HookFile == IF job.cmd = "installProject" THEN hooks.repo ELSE hooks.copilot

\* An install that comes to its end has every tier in place that it records for the host
\* (capability.ts:434), whatever was left by an earlier one that was killed; the hook in the
\* file this command registers it in, unless that is somebody else's.  With --project that is
\* not the file status looks at: there the recorded hook tier stays missing.
InstalledIsLive ==
    job.cmd \in {"install", "installProject", "doctor"} /\ job.todo = <<>>
    /\ recorded # "unknown" /\ recorded = job.host /\ DetectHost = recorded =>
        \A t \in TierIds(recorded) :
            IF t \in {"copilot-hook", "vscode-hook"} THEN Managed(HookFile) \/ HookFile = "foreign"
            ELSE Live(t)
=============================================================================
