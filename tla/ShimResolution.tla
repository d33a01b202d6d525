--------------------------- MODULE ShimResolution ---------------------------
(***************************************************************************)
(* Which file a wrapped command starts (shim/install.ts, shim/path.ts,     *)
(* executor.ts).  The shim directory holds a wrapper of each program; a    *)
(* wrapper names the shim directory, the real tool as it was found at      *)
(* installation and a fingerprint of the search path, and starts ctx,      *)
(* which must find the real tool and not the wrapper again.                *)
(*   path      the search path, a sequence of entries                      *)
(*   files     program |-> directories |-> what is there under its name    *)
(*   wrapper   program |-> its wrapper in the shim directory               *)
(*   proc      the command under way: its program, how it was started      *)
(* An entry names a directory; the shim directory may also be spelled with *)
(* a trailing separator ("shim/") or reached by a link ("link").           *)
(***************************************************************************)
EXTENDS Naturals, Sequences, SequencesExt

CONSTANTS
    Programs,     \* the programs with a wrapper
    Dirs,         \* directories other than the shim directory
    Entries,      \* entries of the search path
    MaxEntries,   \* bound on their number
    MaxChanges    \* bound on changes of path and files, and on installations

VARIABLES path, files, wrapper, proc, changes
shimVars == <<path, files, wrapper, proc, changes>>

NoWrapper == [baked |-> "none", search |-> <<>>, found |-> <<>>, aliased |-> FALSE]
NoProc == [prog |-> "none", end |-> "none", again |-> FALSE]
Paths == {p \in SeqOf(Entries, MaxEntries) : IsInjective(p)}

Aliases == {"shim", "shim/", "link"}
\* An entry is the shim directory under one of its names, or another directory.
ASSUME ShimAssumption == /\ Entries \subseteq Dirs \cup Aliases /\ Dirs \cap Aliases = {}
                         /\ "none" \notin Entries /\ MaxEntries \in Nat
DirOf(entry) == IF entry \in Aliases THEN "shim" ELSE entry
\* normalizeEntry: a trailing separator goes; the link stays what it is.
Normal(entry) == IF entry = "shim/" THEN "shim" ELSE entry

Without(search, dropped) ==
    LET rest[i \in 0 .. Len(search)] ==
          IF i = 0 THEN <<>>
          ELSE IF search[i] \in dropped THEN rest[i - 1] ELSE Append(rest[i - 1], search[i])
    IN rest[Len(search)]
\* stripShimDir: the entries that are the shim directory by name, or by device and inode.
StripShimDir(search) == Without(search, {e \in Entries : Normal(e) = "shim" \/ DirOf(e) = "shim"})
\* resolveRealBinaryPath: those that are it to the letter.
StripExact(search) == Without(search, {"shim"})

\* What is at an entry under the name of a program, "exec", "plain" (it may not be
\* executed) or "none"; a wrapper is executable.
At(prog, entry) ==
    IF DirOf(entry) # "shim" THEN files[prog][entry]
    ELSE IF wrapper[prog] = NoWrapper THEN "none" ELSE "exec"

\* resolveReal, and the shell: the first entry with an executable file.
ResolveReal(prog, search) ==
    LET hits == {i \in 1 .. Len(search) : At(prog, search[i]) = "exec"}
    IN IF hits = {} THEN "none" ELSE search[CHOOSE i \in hits : \A j \in hits : i <= j]

\* The fingerprint is not looked at.
BakedUnhashed(prog, env, search) ==
    IF env.baked # "none" /\ env.of = prog /\ At(prog, env.baked) # "none"
    THEN env.baked ELSE "none"
\* hashResolutionEnv: equal fingerprints are equal search paths.
BakedRealBin(prog, env, search) ==
    IF /\ env.baked # "none" /\ env.search = search
       /\ env.of = prog                        \* the name of the file is the program's
       /\ At(prog, env.baked) # "none"         \* existsSync: executable or not
    THEN env.baked ELSE "none"

\* buildSpawnTarget; a bare name is looked up by the system.
Target(prog, env, search) ==
    IF BakedRealBin(prog, env, search) # "none" THEN BakedRealBin(prog, env, search)
    ELSE ResolveReal(prog, search)

\* assertNoRecursion: the stripped path still leads into the shim directory, or to nothing
\* while there is a wrapper.
Recursive(prog, search) ==
    LET real == ResolveReal(prog, search)
    IN IF real # "none" THEN DirOf(real) = "shim" ELSE wrapper[prog] # NoWrapper

\* Outside any wrapper, and what the wrapper of p exports (posixWrapper).
Outside == [shim |-> FALSE, of |-> "none", baked |-> "none", search |-> <<>>]
Exports(p) == [shim |-> TRUE, of |-> p, baked |-> wrapper[p].baked, search |-> wrapper[p].search]

ShimInit ==
    /\ path \in Paths
    /\ files \in [Programs -> [Dirs -> {"exec", "plain", "none"}]]
    /\ wrapper = [p \in Programs |-> NoWrapper]
    /\ proc = NoProc /\ changes = 0

Idle == proc.end # "running"
Change == Idle /\ changes < MaxChanges /\ changes' = changes + 1 /\ proc' = NoProc

\* installWrappers: every program is looked up before the old wrappers go.
Install ==
    /\ Change
    /\ wrapper' = [p \in Programs |->
          [baked |-> ResolveReal(p, StripExact(path)), search |-> StripShimDir(path),
           found |-> files[p],                                          \* history
           aliased |-> \E i \in 1 .. Len(path) : path[i] \in Aliases \ {"shim"}]]
    /\ UNCHANGED <<path, files>>

\* removeShimDir.
Uninstall ==
    /\ Change
    /\ wrapper' = [p \in Programs |-> NoWrapper]
    /\ UNCHANGED <<path, files>>

\* The user moves a tool, or edits the search path.
MoveTool ==
    /\ Change
    /\ \E p \in Programs, d \in Dirs, what \in {"exec", "plain", "none"} :
          files[p][d] # what /\ files' = [files EXCEPT ![p] = [@ EXCEPT ![d] = what]]
    /\ UNCHANGED <<path, wrapper>>
EditPath ==
    /\ Change
    /\ path' \in Paths \ {path}
    /\ UNCHANGED <<files, wrapper>>

\* A command is typed: to ctx in a plain shell, or below a wrapper of any program, whose
\* environment it inherits; to the wrapper it comes by way of Spawn.
Command ==
    /\ Idle
    /\ \E p \in Programs, env \in {Outside} \cup {Exports(q) : q \in {q \in Programs : wrapper[q] # NoWrapper}} :
          proc' = [prog |-> p, env |-> env, search |-> path, target |-> "none",
                   again |-> FALSE, end |-> "running"]
    /\ UNCHANGED <<path, files, wrapper, changes>>

\* buildChildEnv, buildSpawnTarget and spawn: a tool runs, a wrapper starts ctx again.
Spawn ==
    /\ ~Idle
    /\ LET p == proc.prog
           search == IF proc.env.shim THEN StripShimDir(proc.search) ELSE proc.search
           target == Target(p, proc.env, search)
       IN \/ /\ proc.env.shim /\ Recursive(p, search)           \* ShimRecursionError
             /\ proc' = [proc EXCEPT !.end = "refused"]
          \/ /\ ~(proc.env.shim /\ Recursive(p, search))
             /\ DirOf(target) # "shim"                          \* "none" ends with 127
             /\ proc' = [proc EXCEPT !.target = target, !.search = search, !.end = "ran"]
          \/ /\ ~(proc.env.shim /\ Recursive(p, search))
             /\ DirOf(target) = "shim" /\ ~proc.again             \* bound: once is enough
             /\ proc' = [proc EXCEPT !.env = Exports(p), !.search = search,
                                     !.again = proc.env.shim]
    /\ UNCHANGED <<path, files, wrapper, changes>>

ShimNext == Install \/ Uninstall \/ MoveTool \/ EditPath \/ Command \/ Spawn
ShimSpec == ShimInit /\ [][ShimNext]_shimVars

-----------------------------------------------------------------------------

\* Below a wrapper ctx starts the tool and not the wrapper again
\* (shim/install.ts:169-171, executor.ts:139-143).
NeverItself == ~proc.again

\* executor.ts:218-228: what runs is what the shell would pick on the search path without
\* the shim directory.  Two things the fingerprint does not cover: a file that came, went
\* or lost its execute bit while the path stayed as it was, and a shim directory that the
\* installation met under another spelling.
RunsTheRealTool ==
    proc # NoProc =>
        LET w == wrapper[proc.prog]
        IN /\ proc.end = "ran" =>
                 \/ proc.target = ResolveReal(proc.prog, proc.search)
                 \/ w.search = StripShimDir(path) /\ w.found # files[proc.prog]
                 \/ w.aliased
           /\ w.aliased \/ ~proc.again
=============================================================================
