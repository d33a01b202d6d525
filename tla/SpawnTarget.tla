----------------------------- MODULE SpawnTarget ----------------------------
(***************************************************************************)
(* A batch script on Windows is started as `ComSpec /d /s /c "line"`, and  *)
(* cmd.exe replaces every %NAME% of a variable it knows before it looks at *)
(* anything else, quotes included.  executor.ts writes each % as a         *)
(* reference to a variable that holds one.                                 *)
(*   tokens     the words of the command line                              *)
(*   parentEnv  what ctx finds in its environment                          *)
(*   started    the outcome; NotStarted before that                        *)
(* A word is a sequence of pieces: "%", the name of a variable, or text.   *)
(***************************************************************************)
EXTENDS Naturals, Sequences, SequencesExt

CONSTANTS
    Names,       \* CTX_PCT, CTX_PCT_1, ..., in the order they are tried
    BatchLines,  \* command lines
    Environments,\* variable |-> its value, "%" or anything else; absent if not set
    LineLimit    \* CMD_LINE_LIMIT

VARIABLES tokens, parentEnv, started
spawnVars == <<tokens, parentEnv, started>>

ASSUME SpawnAssumption == /\ Names \in Seq(STRING) /\ BatchLines \subseteq Seq(Seq(STRING))
                        /\ \A i \in 1 .. Len(Names) : Names[i] # "none"

NotStarted == [how |-> "none"]
Join(line) == FlattenSeq(line)
HasPercent(line) == \E i \in 1 .. Len(line) : \E j \in 1 .. Len(line[i]) : line[i][j] = "%"

\* isPctNameFree and pickPctName.
Free(name, env) == name \in DOMAIN env => env[name] = "%"
\* The variable is ctx's, whoever else uses it.
PickFirstName(env) == Names[1]
PickName(env) ==
    LET free == {i \in 1 .. Len(Names) : Free(Names[i], env)}
    IN IF free = {} THEN "none" ELSE Names[CHOOSE i \in free : \A j \in free : i <= j]

NeutralizePercent(word, name) ==
    FlattenSeq([i \in DOMAIN word |->
                   IF word[i] = "%" THEN <<"%", name, "%">> ELSE <<word[i]>>])
Neutralized(line, name) == [i \in DOMAIN line |-> NeutralizePercent(line[i], name)]

SpawnInit == tokens \in BatchLines /\ parentEnv \in Environments /\ started = NotStarted

Start(line, env) == started' = [how |-> "cmd", line |-> line, env |-> env]
\* Nothing is started and the caller prints why.
Refuse(why) == started' = [how |-> why]

\* buildSpawnTarget for a batch script, and mergeSpawnEnv.
BuildBatchTarget ==
    /\ started = NotStarted
    /\ LET name == PickName(parentEnv)
           line == Neutralized(tokens, name)
       IN \/ ~HasPercent(tokens) /\ Start(tokens, parentEnv)
          \/ HasPercent(tokens) /\ name = "none" /\ Refuse("PercentNeutralizeError")
          \/ HasPercent(tokens) /\ name # "none" /\ Len(Join(line)) > LineLimit
                /\ Refuse("PercentLineLengthError")
          \/ HasPercent(tokens) /\ name # "none" /\ Len(Join(line)) <= LineLimit
                /\ Start(line, [n \in DOMAIN parentEnv \cup {name} |->
                                   IF n = name THEN "%" ELSE parentEnv[n]])
    /\ UNCHANGED <<tokens, parentEnv>>

SpawnNext == BuildBatchTarget
SpawnSpec == SpawnInit /\ [][SpawnNext]_spawnVars

-----------------------------------------------------------------------------
\* cmd.exe: from left to right, % name % with a name that is set is its value, which is
\* not looked at again; any other % stays.
Expand(s, env) ==
    LET f[i \in 1 .. Len(s) + 1] ==
          IF i > Len(s) THEN <<>>
          ELSE IF /\ i + 2 <= Len(s) /\ s[i] = "%" /\ s[i + 2] = "%"
                  /\ s[i + 1] \in DOMAIN env
               THEN <<env[s[i + 1]]>> \o f[i + 3]
          ELSE <<s[i]>> \o f[i + 1]
    IN f[1]

\* executor.ts:277-302: what the tool is given is what the user typed, whichever words
\* hold a %, alone or as one of a pair across two words, and whatever the environment binds
\* ctx's own names to; a line is refused only when every name is taken or it got too long.
PercentSurvives ==
    /\ started.how = "cmd" /\ HasPercent(tokens) =>
          Expand(Join(started.line), started.env) = Join(tokens)
    /\ started.how = "PercentNeutralizeError" =>
          \A i \in 1 .. Len(Names) : ~Free(Names[i], parentEnv)
    /\ started.how = "cmd" =>
          \A n \in DOMAIN parentEnv : n \in DOMAIN started.env /\ started.env[n] = parentEnv[n]
=============================================================================
