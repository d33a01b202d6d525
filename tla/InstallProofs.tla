---------------------------- MODULE InstallProofs ----------------------------
(***************************************************************************)
(* Proofs about Install: an uninstall that has run to its end leaves       *)
(* nothing of ctx in force, an install leaves the host it has found with   *)
(* its hook, its guidance and its wrappers, and no step ever drops a line, *)
(* a hook or a setting of the user.                                        *)
(*                                                                         *)
(* What a command promises at its end is spread over its steps, so Removed *)
(* and Put say of each part that it is in order or that its step is still  *)
(* in the list of the job; the user edits between any two of them.  Blocks *)
(* are cut out by splicing, which is right only because a file has one at  *)
(* most, on lines of its own (Laid).                                       *)
(***************************************************************************)
EXTENDS Install, SequenceTheorems, WellFoundedInduction, TLAPS

\* How a block lies in a file: there is one at most, on lines of its own, and an empty line
\* or nothing is before it; but the shell's block may be right below a line of the user.
NoBlocks(t) == \A i \in 1 .. Len(t) : t[i] \notin Blocks
Ended(t) == Len(t) > 0 => t[Len(t)] = "nl"
OneBlock(t) == \A i, j \in 1 .. Len(t) : t[i] \in Blocks /\ t[j] \in Blocks => i = j
OnItsOwn(t) == \A i \in 1 .. Len(t) : t[i] \in Blocks =>
                   /\ i < Len(t) /\ t[i + 1] = "nl"
                   /\ i > 1 => t[i - 1] = "nl"
                   /\ i > 2 => t[i - 2] = "nl" \/ t[i] = "path"
Laid(t) == t \in Seq(Tokens) /\ OneBlock(t) /\ OnItsOwn(t)
TextInv == /\ text = [f \in TextFiles |-> text[f]]
           /\ \A f \in TextFiles : text[f] = Absent \/ Laid(text[f])

\* What a command may still have to do.
PutOps == {"repoMd", "claude", "planRepo", "swapRepo", "planCopilot", "swapCopilot", "ctxMd",
           "pony", "noPony", "claudeMd", "copilotMd", "vscodeGuide", "lazy", "noLazy", "prune",
           "wrappers", "manifest", "rc", "settings", "probe", "probePony", "inject", "record"}
UserRemovals == {"unclaude", "uncopilot", "unshim", "unrc", "unsettings", "uninject",
                 "unguideClaude", "unguideCopilot", "unguideVscode"}
RepoRemovals == {"unrepo", "unrepoMd"}
OpsOf(cmd) == CASE cmd = "uninstall" -> UserRemovals
                [] cmd = "uninstallProject" -> RepoRemovals
                [] OTHER -> PutOps
Commands == {"none", "install", "installProject", "shim", "doctor", "uninstall", "uninstallProject"}

Has(s, op) == \E i \in 1 .. Len(s) : s[i] = op
\* A look at a hook file comes before the write; the manifest comes last.
Ordered(s) ==
    \A i \in 1 .. Len(s) :
        /\ s[i] = "planCopilot" => i < Len(s) /\ s[i + 1] = "swapCopilot"
        /\ s[i] = "planRepo" => i < Len(s) /\ s[i + 1] = "swapRepo"
        /\ s[i] \in {"prune", "wrappers"} => \E j \in i + 1 .. Len(s) : s[j] = "manifest"
\* The probe is the last of the ladder: what comes after it depends on how it goes.
ProbesLast(s) == \A i \in 1 .. Len(s) : s[i] \in {"probe", "probePony"} => i = Len(s)
JobInv ==
    /\ job \in [cmd : Commands, host : Hosts \cup {"none"}, todo : Seq(OpsOf(job.cmd))]
    /\ Ordered(job.todo) /\ ProbesLast(job.todo)
    /\ Has(job.todo, "probe") \/ Has(job.todo, "probePony") => job.host = "vscode"
    /\ Has(job.todo, "inject") => job.host = "vscode" \/ (job.host = "unknown" /\ ~env.code)

FileInv ==
    /\ hooks \in [claude : {NoFile, Bad} \cup SUBSET ClaudeEntries, copilot : Configs, repo : Configs]
    /\ settings \in {NoFile, Bad} \cup SUBSET Marks
    /\ backup \in {NoFile} \cup SUBSET Marks
    /\ owned \subseteq OwnedFiles /\ shim \in {"absent", "partial", "full"}
    /\ recorded \in Hosts \cup {"none"} /\ env \in Env
    /\ commands \in Nat /\ userEdits \in Nat

\* A block is written to the home directory only where there is no VS Code.
HomeInv == NoBlocks(text["homeMd"]) \/ ~env.code

\* Whatever becomes of Claude's settings, the host that is detected is another one.
Elsewhere == env.live = "vscode" \/ (env.live = "none" /\ (env.copilot \/ env.copilotDir))

\* An uninstall has removed what it is through with.
Removed ==
    job.cmd = "uninstall" =>
        /\ Has(job.todo, "unclaude") \/ "ours" \notin hooks.claude
        /\ Has(job.todo, "uncopilot") \/ ~Managed(hooks.copilot)
        /\ Has(job.todo, "unshim") \/ shim = "absent"
        /\ Has(job.todo, "unrc") \/ NoBlocks(text["rc"])
        /\ Has(job.todo, "unsettings") \/ "shim" \notin settings
        /\ Has(job.todo, "uninject") \/ NoBlocks(text["homeMd"]) \/ Elsewhere
        /\ Has(job.todo, "unguideClaude") \/ (NoBlocks(text["claudeMd"]) /\ owned \cap {"CTX.md", "PONYTAIL.md"} = {})
        /\ Has(job.todo, "unguideCopilot") \/ NoBlocks(text["copilotMd"])
        /\ Has(job.todo, "unguideVscode") \/ owned \cap {"guide.vscode", "lazy.vscode"} = {}

\* An install has put in place what it is through with.  A doctor that finds nothing
\* missing has nothing to do, and the host it finds may not be the one of the record.
Idles(host) == job.todo = <<>> /\ DetectHost # host
PlanOp(cmd) == IF cmd = "installProject" THEN "planRepo" ELSE "planCopilot"
SwapOp(cmd) == IF cmd = "installProject" THEN "swapRepo" ELSE "swapCopilot"
HookPut == \/ Has(job.todo, PlanOp(job.cmd)) \/ Has(job.todo, SwapOp(job.cmd))
           \/ HookFile # "absent"
Puts == {"install", "installProject", "doctor"}
Put ==
    job.cmd \in Puts =>
        /\ job.host = "claude-code" =>
               /\ Has(job.todo, "claude") \/ "ours" \in hooks.claude
               /\ Has(job.todo, "claudeMd") \/ HasGuidance("claude-code") \/ Elsewhere
        /\ job.host = "copilot-cli" =>
               HookPut /\ (Has(job.todo, "copilotMd") \/ HasGuidance("copilot-cli") \/ Idles("copilot-cli"))
        /\ job.host = "vscode" =>
               /\ HookPut
               /\ Has(job.todo, "manifest") \/ shim = "full"
               /\ \/ Has(job.todo, "probe") \/ Has(job.todo, "probePony")
                  \/ Has(job.todo, "vscodeGuide") \/ HasGuidance("vscode") \/ Idles("vscode")

IInv == TextInv /\ FileInv /\ JobInv /\ HomeInv /\ Removed /\ Put

-----------------------------------------------------------------------------
(* Texts *)

LEMMA Least ==
    ASSUME NEW T, T \subseteq Nat, T # {} PROVE \E x \in T : \A y \in T : x <= y
<1>1. PICK x \in T : \A y \in T : ~(<<y, x>> \in OpToRel(<, Nat))
  BY WFMin, NatLessThanWellFounded
<1>2. \A y \in T : ~(y < x)
  BY <1>1 DEF OpToRel
<1>3. QED
  BY <1>2

LEMMA Sorts ==
    /\ Words \subseteq Tokens /\ Blocks \subseteq Tokens /\ "nl" \in Tokens
    /\ Words \cap Blocks = {} /\ "nl" \notin Words /\ "nl" \notin Blocks /\ "absent" \notin Tokens
    /\ "b" \in Words /\ Blocks = {"prefix", "guide", "path"}
  BY DEF Words, Blocks, Tokens

LEMMA AbsentApart == Absent \notin Seq(Tokens) /\ <<>> \in Seq(Tokens) /\ Len(<<>>) = 0
<1>1. Absent[1] = "absent" /\ Len(Absent) = 1
  BY DEF Absent
<1>2. ASSUME Absent \in Seq(Tokens) PROVE FALSE
  <2>1. 1 \in 1 .. Len(Absent)
    BY <1>1
  <2>2. Absent[1] \in Tokens
    BY <1>2, <2>1, ElementOfSeq
  <2>3. QED
    BY <1>1, <2>2, Sorts
<1>3. QED
  BY <1>2, EmptySeq

\* A piece of a text.
LEMMA Piece ==
    ASSUME NEW t \in Seq(Tokens), NEW m \in Nat, NEW n \in Nat, 1 <= m, n <= Len(t), m <= n + 1
    PROVE  /\ SubSeq(t, m, n) \in Seq(Tokens)
           /\ Len(SubSeq(t, m, n)) = (n - m) + 1
           /\ \A i \in 1 .. (n - m) + 1 : SubSeq(t, m, n)[i] = t[(m + i) - 1]
<1>1. Len(t) \in Nat
  BY LenProperties
<1>2. \A i \in m .. n : t[i] \in Tokens
  <2>1. \A i \in m .. n : i \in 1 .. Len(t)
    BY <1>1
  <2>2. QED
    BY <2>1, ElementOfSeq
<1>3. /\ SubSeq(t, m, n) \in Seq(Tokens)
      /\ Len(SubSeq(t, m, n)) = IF m <= n THEN n - m + 1 ELSE 0
      /\ \A i \in 1 .. n - m + 1 : SubSeq(t, m, n)[i] = t[m + i - 1]
  BY <1>2, SubSeqProperties
<1>4. n - m + 1 = (n - m) + 1 /\ \A i \in Nat : m + i - 1 = (m + i) - 1
  BY <1>1
<1>5. (n - m) + 1 = IF m <= n THEN n - m + 1 ELSE 0
  BY <1>1
<1>6. ASSUME NEW i \in 1 .. (n - m) + 1 PROVE SubSeq(t, m, n)[i] = t[(m + i) - 1]
  <2>1. i \in 1 .. n - m + 1 /\ i \in Nat
    BY <1>4
  <2>2. QED
    BY <1>3, <1>4, <2>1
<1>7. QED
  BY <1>3, <1>5, <1>6

\* Two sequences made one.
LEMMA Joined ==
    ASSUME NEW S, NEW a \in Seq(S), NEW b \in Seq(S)
    PROVE  /\ a \o b \in Seq(S) /\ Len(a) \in Nat /\ Len(b) \in Nat
           /\ Len(a \o b) = Len(a) + Len(b)
           /\ \A i \in 1 .. Len(a) : (a \o b)[i] = a[i]
           /\ \A i \in 1 .. Len(b) : (a \o b)[Len(a) + i] = b[i]
           /\ \A i \in 1 .. Len(a) + Len(b) : i \in 1 .. Len(a) \/ \E j \in 1 .. Len(b) : i = Len(a) + j
<1> DEFINE m == Len(a)
           n == Len(b)
           c == a \o b
<1>1. m \in Nat /\ n \in Nat
  BY LenProperties
<1>2. /\ c \in Seq(S) /\ Len(c) = m + n
      /\ \A i \in 1 .. m + n : c[i] = IF i <= m THEN a[i] ELSE b[i - m]
  BY ConcatProperties
<1> HIDE DEF m, n, c
<1>3. ASSUME NEW i \in 1 .. m PROVE c[i] = a[i]
  <2>1. i \in 1 .. m + n /\ i <= m
    BY <1>1
  <2>2. QED
    BY <1>2, <2>1
<1>4. ASSUME NEW i \in 1 .. n PROVE c[m + i] = b[i]
  <2>1. m + i \in 1 .. m + n /\ ~(m + i <= m) /\ (m + i) - m = i
    BY <1>1
  <2>2. QED
    BY <1>2, <2>1
<1>5. ASSUME NEW i \in 1 .. m + n PROVE i \in 1 .. m \/ \E j \in 1 .. n : i = m + j
  <2>1. i \in 1 .. m \/ (i - m \in 1 .. n /\ i = m + (i - m))
    BY <1>1
  <2>2. QED
    BY <2>1
<1>6. QED
  BY <1>1, <1>2, <1>3, <1>4, <1>5 DEF m, n, c

LEMMA Glued ==
    ASSUME NEW a \in Seq(Tokens), NEW b \in Seq(Tokens)
    PROVE  /\ a \o b \in Seq(Tokens) /\ Len(a) \in Nat /\ Len(b) \in Nat
           /\ Len(a \o b) = Len(a) + Len(b)
           /\ \A i \in 1 .. Len(a) : (a \o b)[i] = a[i]
           /\ \A i \in 1 .. Len(b) : (a \o b)[Len(a) + i] = b[i]
  BY Joined

\* Where an index of a text made of two falls.
LEMMA Falls ==
    ASSUME NEW a \in Seq(Tokens), NEW b \in Seq(Tokens), NEW i \in 1 .. Len(a \o b)
    PROVE  \/ i \in 1 .. Len(a) /\ (a \o b)[i] = a[i]
           \/ \E j \in 1 .. Len(b) : i = Len(a) + j /\ (a \o b)[i] = b[j]
<1>1. Len(a) \in Nat /\ Len(b) \in Nat /\ i \in 1 .. Len(a) + Len(b)
  BY Glued
<1>2. CASE i <= Len(a)
  <2>1. i \in 1 .. Len(a)
    BY <1>1, <1>2
  <2>2. QED
    BY <2>1, Glued
<1>3. CASE ~(i <= Len(a))
  <2>1. i - Len(a) \in 1 .. Len(b) /\ i = Len(a) + (i - Len(a))
    BY <1>1, <1>3
  <2>2. (a \o b)[Len(a) + (i - Len(a))] = b[i - Len(a)]
    BY <2>1, Glued
  <2>3. QED
    BY <2>1, <2>2
<1>4. QED
  BY <1>2, <1>3

LEMMA GluedBlocks ==
    ASSUME NEW a \in Seq(Tokens), NEW b \in Seq(Tokens), NoBlocks(a), NoBlocks(b)
    PROVE  NoBlocks(a \o b)
<1> SUFFICES ASSUME NEW i \in 1 .. Len(a \o b) PROVE (a \o b)[i] \notin Blocks
  BY DEF NoBlocks
<1>1. CASE i \in 1 .. Len(a) /\ (a \o b)[i] = a[i]
  BY <1>1 DEF NoBlocks
<1>2. CASE \E j \in 1 .. Len(b) : i = Len(a) + j /\ (a \o b)[i] = b[j]
  BY <1>2 DEF NoBlocks
<1>3. QED
  BY <1>1, <1>2, Falls

\* No two words meet where the first text ends with something else, or the second starts
\* with something else.
LEMMA GluedApart ==
    ASSUME NEW a \in Seq(Tokens), NEW b \in Seq(Tokens), Apart(a), Apart(b),
           Len(a) > 0 /\ Len(b) > 0 => a[Len(a)] \notin Words \/ b[1] \notin Words
    PROVE  Apart(a \o b)
<1> DEFINE m == Len(a)
           n == Len(b)
           c == a \o b
<1>1. /\ m \in Nat /\ n \in Nat /\ Len(c) = m + n
      /\ \A i \in 1 .. m : c[i] = a[i]
      /\ \A i \in 1 .. n : c[m + i] = b[i]
  BY Glued
<1>2. /\ \A i \in 1 .. m - 1 : ~(a[i] \in Words /\ a[i + 1] \in Words)
      /\ \A i \in 1 .. n - 1 : ~(b[i] \in Words /\ b[i + 1] \in Words)
      /\ m > 0 /\ n > 0 => a[m] \notin Words \/ b[1] \notin Words
  BY DEF Apart
<1> HIDE DEF m, n, c
<1>3. ASSUME NEW i \in 1 .. (m + n) - 1 PROVE ~(c[i] \in Words /\ c[i + 1] \in Words)
  <2>1. CASE i < m
    <3>1. i \in 1 .. m /\ i + 1 \in 1 .. m /\ i \in 1 .. m - 1
      BY <1>1, <2>1
    <3>2. QED
      BY <1>1, <1>2, <3>1
  <2>2. CASE i = m
    <3>1. i \in 1 .. m /\ m > 0 /\ n > 0 /\ 1 \in 1 .. n
      BY <1>1, <2>2
    <3>2. c[i] = a[m] /\ c[i + 1] = b[1]
      BY <1>1, <2>2, <3>1
    <3>3. QED
      BY <1>2, <3>1, <3>2
  <2>3. CASE i > m
    <3>1. i - m \in 1 .. n /\ (i - m) + 1 \in 1 .. n /\ i - m \in 1 .. n - 1
          /\ m + (i - m) = i /\ m + ((i - m) + 1) = i + 1
      BY <1>1, <2>3
    <3>2. c[i] = b[i - m] /\ c[i + 1] = b[(i - m) + 1]
      BY <1>1, <3>1
    <3>3. QED
      BY <1>2, <3>1, <3>2
  <2>4. QED
    BY <1>1, <2>1, <2>2, <2>3
<1>4. Len(c) - 1 = (m + n) - 1
  BY <1>1
<1>5. QED
  BY <1>3, <1>4 DEF Apart, c

LEMMA PieceApart ==
    ASSUME NEW t \in Seq(Tokens), NEW m \in Nat, NEW n \in Nat, 1 <= m, n <= Len(t), m <= n + 1,
           Apart(t)
    PROVE  Apart(SubSeq(t, m, n))
<1> DEFINE s == SubSeq(t, m, n)
           k == Len(t)
<1>1. Len(s) = (n - m) + 1 /\ \A i \in 1 .. (n - m) + 1 : s[i] = t[(m + i) - 1]
  BY Piece
<1>2. k \in Nat /\ n <= k /\ \A i \in 1 .. k - 1 : ~(t[i] \in Words /\ t[i + 1] \in Words)
  BY LenProperties DEF Apart
<1> HIDE DEF s, k
<1>3. ASSUME NEW i \in 1 .. ((n - m) + 1) - 1 PROVE ~(s[i] \in Words /\ s[i + 1] \in Words)
  <2>1. /\ i \in 1 .. (n - m) + 1 /\ i + 1 \in 1 .. (n - m) + 1 /\ (m + i) - 1 \in 1 .. k - 1
        /\ (m + (i + 1)) - 1 = ((m + i) - 1) + 1
    BY <1>2
  <2>2. s[i] = t[(m + i) - 1] /\ s[i + 1] = t[((m + i) - 1) + 1]
    BY <1>1, <2>1
  <2>3. QED
    BY <1>2, <2>1, <2>2
<1>4. QED
  BY <1>1, <1>3 DEF Apart, s

-----------------------------------------------------------------------------
(* What the user typed *)

LEMMA TypedBy ==
    ASSUME NEW t, Len(t) \in Nat
    PROVE  \E f : /\ Typed(t) = f[Len(t)] /\ f[0] = <<>>
                  /\ \A i \in 1 .. Len(t) :
                        f[i] = IF t[i] \in Words THEN Append(f[i - 1], t[i]) ELSE f[i - 1]
<1> DEFINE step(f, i) == IF i = 0 THEN <<>>
                         ELSE IF t[i] \in Words THEN Append(f[i - 1], t[i]) ELSE f[i - 1]
           Built(f, n) == f = [i \in 0 .. n |-> step(f, i)]
           rest == CHOOSE f : Built(f, Len(t))
           T == {n \in Nat : ~ \E f : Built(f, n)}
<1>1. T = {}
  <2> SUFFICES ASSUME T # {} PROVE FALSE
    OBVIOUS
  <2>1. PICK n \in T : \A m \in T : n <= m
    BY Least
  <2>2. Built([i \in 0 .. 0 |-> <<>>], 0)
    OBVIOUS
  <2>3. 0 \notin T
    BY <2>2
  <2>4. n \in Nat /\ n # 0
    BY <2>1, <2>3
  <2> HIDE DEF T
  <2>5. n - 1 \in Nat /\ n - 1 \notin T
    BY <2>1, <2>4
  <2> USE DEF T
  <2>6. PICK f : Built(f, n - 1)
    BY <2>5
  <2> DEFINE g == [i \in 0 .. n |-> IF i = n THEN step(f, n) ELSE f[i]]
  <2>7. \A i \in 0 .. n - 1 : f[i] = step(f, i)
    BY <2>6
  <2>8. \A i \in 0 .. n : step(g, i) = step(f, i)
    BY <2>4
  <2>9. \A i \in 0 .. n : g[i] = step(g, i)
    BY <2>4, <2>7, <2>8
  <2>10. Built(g, n)
    BY <2>9
  <2>11. QED
    BY <2>1, <2>10
<1>2. Built(rest, Len(t))
  BY <1>1
<1>3. Typed(t) = rest[Len(t)]
  BY DEF Typed
<1> HIDE DEF rest
<1>4. \A i \in 0 .. Len(t) : rest[i] = step(rest, i)
  BY <1>2
<1>5. rest[0] = <<>>
  BY <1>4
<1> HIDE DEF Built
<1>6. ASSUME NEW i \in 1 .. Len(t)
      PROVE  rest[i] = IF t[i] \in Words THEN Append(rest[i - 1], t[i]) ELSE rest[i - 1]
  <2>1. i \in 0 .. Len(t) /\ i # 0
    OBVIOUS
  <2>2. rest[i] = step(rest, i)
    BY <1>4, <2>1
  <2>3. QED
    BY <2>1, <2>2
<1>7. QED
  BY <1>3, <1>5, <1>6

\* A text without words.
LEMMA TypedNone ==
    ASSUME NEW t, Len(t) \in Nat, \A i \in 1 .. Len(t) : t[i] \notin Words PROVE Typed(t) = <<>>
<1>1. PICK f : /\ Typed(t) = f[Len(t)] /\ f[0] = <<>>
               /\ \A i \in 1 .. Len(t) :
                     f[i] = IF t[i] \in Words THEN Append(f[i - 1], t[i]) ELSE f[i - 1]
  BY TypedBy
<1> DEFINE T == {n \in 0 .. Len(t) : f[n] # <<>>}
<1>2. T = {}
  <2> SUFFICES ASSUME T # {} PROVE FALSE
    OBVIOUS
  <2>1. PICK n \in T : \A m \in T : n <= m
    <3>1. T \subseteq Nat
      OBVIOUS
    <3>2. QED
      BY <3>1, Least
  <2>2. n \in 1 .. Len(t) /\ n - 1 \in 0 .. Len(t) /\ ~(n <= n - 1)
    BY <1>1, <2>1
  <2>3. f[n - 1] = <<>>
    BY <2>1, <2>2
  <2>4. QED
    BY <1>1, <2>1, <2>2, <2>3
<1>3. QED
  BY <1>1, <1>2

LEMMA TypedGlued ==
    ASSUME NEW a \in Seq(Tokens), NEW b \in Seq(Tokens)
    PROVE  Typed(a \o b) = Typed(a) \o Typed(b) /\ Typed(a) \in Seq(Words)
<1> DEFINE m == Len(a)
           n == Len(b)
           c == a \o b
<1>1. /\ m \in Nat /\ n \in Nat /\ Len(c) = m + n /\ Len(c) \in Nat
      /\ \A i \in 1 .. m : c[i] = a[i]
      /\ \A i \in 1 .. n : c[m + i] = b[i]
  BY Glued
<1>2. PICK f : /\ Typed(c) = f[Len(c)] /\ f[0] = <<>>
               /\ \A i \in 1 .. Len(c) :
                     f[i] = IF c[i] \in Words THEN Append(f[i - 1], c[i]) ELSE f[i - 1]
  BY <1>1, TypedBy
<1>3. PICK g : /\ Typed(a) = g[m] /\ g[0] = <<>>
               /\ \A i \in 1 .. m :
                     g[i] = IF a[i] \in Words THEN Append(g[i - 1], a[i]) ELSE g[i - 1]
  BY <1>1, TypedBy
<1>4. PICK h : /\ Typed(b) = h[n] /\ h[0] = <<>>
               /\ \A i \in 1 .. n :
                     h[i] = IF b[i] \in Words THEN Append(h[i - 1], b[i]) ELSE h[i - 1]
  BY <1>1, TypedBy
<1> HIDE DEF m, n, c
<1> DEFINE A == {k \in 0 .. m : ~(f[k] = g[k] /\ g[k] \in Seq(Words))}
           B == {k \in 0 .. n : ~(f[m + k] = g[m] \o h[k] /\ h[k] \in Seq(Words))}
<1>5. A = {}
  <2> SUFFICES ASSUME A # {} PROVE FALSE
    OBVIOUS
  <2>1. PICK k \in A : \A j \in A : k <= j
    <3>1. A \subseteq Nat
      BY <1>1
    <3>2. QED
      BY <3>1, Least
  <2>2. k # 0
    BY <1>2, <1>3, <2>1, EmptySeq
  <2>3. k \in 1 .. m /\ k \in 1 .. Len(c) /\ k - 1 \in 0 .. m /\ ~(k <= k - 1)
    BY <1>1, <2>1, <2>2
  <2>4. f[k - 1] = g[k - 1] /\ g[k - 1] \in Seq(Words)
    BY <2>1, <2>3
  <2>5. /\ f[k] = IF c[k] \in Words THEN Append(f[k - 1], c[k]) ELSE f[k - 1]
        /\ g[k] = IF a[k] \in Words THEN Append(g[k - 1], a[k]) ELSE g[k - 1]
        /\ c[k] = a[k]
    BY <1>1, <1>2, <1>3, <2>3
  <2>6. f[k] = g[k] /\ g[k] \in Seq(Words)
    BY <2>4, <2>5, AppendProperties
  <2>7. QED
    BY <2>1, <2>6
<1>6. f[m] = g[m] /\ g[m] \in Seq(Words)
  <2>1. m \in 0 .. m
    BY <1>1
  <2>2. QED
    BY <1>5, <2>1
<1> HIDE DEF A
<1>7. B = {}
  <2> SUFFICES ASSUME B # {} PROVE FALSE
    OBVIOUS
  <2>1. PICK k \in B : \A j \in B : k <= j
    <3>1. B \subseteq 0 .. n
      OBVIOUS
    <3> HIDE DEF B
    <3>2. B \subseteq Nat
      BY <1>1, <3>1
    <3>3. QED
      BY <3>2, Least
  <2>2. k # 0
    <3>1. g[m] \o <<>> = g[m] /\ m + 0 = m
      BY <1>1, <1>6, ConcatEmptySeq
    <3>2. f[m + 0] = g[m] \o h[0] /\ h[0] \in Seq(Words)
      BY <1>4, <1>6, <3>1, EmptySeq
    <3>3. QED
      BY <2>1, <3>2
  <2>3. /\ k \in 1 .. n /\ m + k \in 1 .. Len(c) /\ k - 1 \in 0 .. n /\ ~(k <= k - 1)
        /\ (m + k) - 1 = m + (k - 1)
    BY <1>1, <2>1, <2>2
  <2>4. f[m + (k - 1)] = g[m] \o h[k - 1] /\ h[k - 1] \in Seq(Words)
    BY <2>1, <2>3
  <2>5. /\ f[m + k] = IF c[m + k] \in Words THEN Append(f[(m + k) - 1], c[m + k]) ELSE f[(m + k) - 1]
        /\ h[k] = IF b[k] \in Words THEN Append(h[k - 1], b[k]) ELSE h[k - 1]
        /\ c[m + k] = b[k]
    BY <1>1, <1>2, <1>4, <2>3
  <2>6. CASE b[k] \in Words
    <3> DEFINE x == b[k]
               p == g[m]
               q == h[k - 1]
    <3>1. f[m + k] = Append(p \o q, x) /\ h[k] = Append(q, x)
      BY <2>3, <2>4, <2>5, <2>6
    <3>2. x \in Words /\ p \in Seq(Words) /\ q \in Seq(Words)
      BY <1>6, <2>4, <2>6
    <3> HIDE DEF x, p, q
    <3>3. /\ p \o q \in Seq(Words) /\ <<x>> \in Seq(Words)
          /\ Append(q, x) \in Seq(Words)
      BY <3>2, ConcatProperties, AppendProperties
    <3>4. Append(p \o q, x) = (p \o q) \o <<x>> /\ Append(q, x) = q \o <<x>>
      BY <3>2, <3>3, AppendIsConcat
    <3>5. (p \o q) \o <<x>> = p \o (q \o <<x>>)
      BY <3>2, <3>3, ConcatAssociative
    <3>6. f[m + k] = p \o h[k] /\ h[k] \in Seq(Words)
      BY <3>1, <3>3, <3>4, <3>5
    <3>7. QED
      BY <2>1, <3>6 DEF p
  <2>7. CASE b[k] \notin Words
    <3>1. f[m + k] = g[m] \o h[k] /\ h[k] \in Seq(Words)
      BY <2>3, <2>4, <2>5, <2>7
    <3>2. QED
      BY <2>1, <3>1
  <2>8. QED
    BY <2>6, <2>7
<1>8. f[m + n] = g[m] \o h[n]
  <2>1. n \in 0 .. n
    BY <1>1
  <2>2. QED
    BY <1>7, <2>1
<1>9. QED
  BY <1>1, <1>2, <1>3, <1>4, <1>6, <1>8 DEF c

LEMMA TypedMore ==
    ASSUME NEW a \in Seq(Tokens), NEW b \in Seq(Tokens), \A i \in 1 .. Len(b) : b[i] \notin Words
    PROVE  Typed(a \o b) = Typed(a)
<1>1. Typed(b) = <<>>
  BY LenProperties, TypedNone
<1>2. Typed(a \o b) = Typed(a) \o Typed(b) /\ Typed(a) \in Seq(Words)
  BY TypedGlued
<1>3. QED
  BY <1>1, <1>2, ConcatEmptySeq

\* A part without words can be cut out.
LEMMA CutOut ==
    ASSUME NEW t \in Seq(Tokens), NEW p \in Nat, NEW q \in Nat, p <= q, q <= Len(t),
           \A i \in p + 1 .. q : t[i] \notin Words
    PROVE  Typed(SubSeq(t, 1, p) \o SubSeq(t, q + 1, Len(t))) = Typed(t)
<1> DEFINE n == Len(t)
           a == SubSeq(t, 1, p)
           b == SubSeq(t, p + 1, q)
           c == SubSeq(t, q + 1, n)
           d == SubSeq(t, 1, q)
<1>1. n \in Nat
  BY LenProperties
<1>2. a \in Seq(Tokens) /\ c \in Seq(Tokens) /\ d \in Seq(Tokens)
  <2>1. 1 \in Nat /\ q + 1 \in Nat /\ p <= n /\ 1 <= p + 1 /\ 1 <= q + 1 /\ q + 1 <= n + 1
    BY <1>1
  <2>2. QED
    BY <1>1, <2>1, Piece
<1>3. b \in Seq(Tokens) /\ \A i \in 1 .. Len(b) : b[i] \notin Words
  <2>1. p + 1 \in Nat /\ 1 <= p + 1 /\ p + 1 <= q + 1
    BY <1>1
  <2>2. /\ b \in Seq(Tokens) /\ Len(b) = (q - (p + 1)) + 1
        /\ \A i \in 1 .. (q - (p + 1)) + 1 : b[i] = t[((p + 1) + i) - 1]
    BY <2>1, Piece
  <2> HIDE DEF b
  <2>3. ASSUME NEW i \in 1 .. Len(b) PROVE b[i] \notin Words
    <3>1. i \in 1 .. (q - (p + 1)) + 1 /\ ((p + 1) + i) - 1 \in p + 1 .. q
      BY <2>2, <1>1
    <3>2. QED
      BY <2>2, <3>1
  <2>4. QED
    BY <2>2, <2>3
<1>4. a \o b = d
  <2>1. 1 \in 1 .. Len(t) + 1 /\ p \in 1 - 1 .. Len(t) /\ q \in p .. Len(t)
    BY <1>1
  <2>2. QED
    BY <2>1, ConcatAdjacentSubSeq
<1>5. d \o c = t
  <2>1. 1 \in 1 .. Len(t) + 1 /\ q \in 1 - 1 .. Len(t) /\ Len(t) \in q .. Len(t)
    BY <1>1
  <2>2. d \o c = SubSeq(t, 1, Len(t))
    BY <2>1, ConcatAdjacentSubSeq
  <2>3. QED
    BY <2>2, SubSeqFull
<1> HIDE DEF a, b, c, d, n
<1>6. Typed(t) = Typed(d) \o Typed(c)
  BY <1>2, <1>5, TypedGlued
<1>7. Typed(d) = Typed(a)
  BY <1>2, <1>3, <1>4, TypedMore
<1>8. Typed(a \o c) = Typed(a) \o Typed(c)
  BY <1>2, TypedGlued
<1>9. QED
  BY <1>6, <1>7, <1>8 DEF a, c, n

-----------------------------------------------------------------------------
(* Blocks come and go *)

\* One text for another: the user's lines are the same, and apart.
Kept(s, t) == Typed(s) = Typed(t) /\ (Apart(t) /\ ~Borrowed(t) => Apart(s))

LEMMA BlockBorrows == \A t : NoBlocks(t) => ~Borrowed(t)
  BY Sorts DEF NoBlocks, Borrowed

LEMMA StripsTo ==
    ASSUME NEW t, Laid(t), ~NoBlocks(t)
    PROVE  \E k \in 1 .. Len(t), p \in Nat :
              /\ t[k] \in Blocks /\ k < Len(t) /\ t[k + 1] = "nl"
              /\ p = IF k > 1 THEN k - 2 ELSE 0
              /\ Stripped(t) = SubSeq(t, 1, p) \o SubSeq(t, k + 2, Len(t))
<1> DEFINE n == Len(t)
           First(i) == t[i] \in Blocks /\ \A j \in 1 .. i - 1 : t[j] \notin Blocks
           k == CHOOSE i \in DOMAIN t : First(i)
<1>1. t \in Seq(Tokens) /\ n \in Nat /\ DOMAIN t = 1 .. n
  BY LenProperties DEF Laid
<1>2. PICK i \in 1 .. n : t[i] \in Blocks
  BY DEF NoBlocks
<1>3. \A j \in 1 .. n : t[j] \in Blocks => j = i
  BY <1>2 DEF Laid, OneBlock
<1>4. First(i)
  <2>1. ASSUME NEW j \in 1 .. i - 1 PROVE t[j] \notin Blocks
    <3>1. j \in 1 .. n /\ j # i
      BY <1>1, <1>2
    <3>2. QED
      BY <1>3, <3>1
  <2>2. QED
    BY <1>2, <2>1
<1>5. k \in 1 .. n /\ First(k)
  BY <1>1, <1>4
<1>6. Stripped(t) = SubSeq(t, 1, IF At(t, k - 1, "nl") THEN k - 2 ELSE k - 1)
                    \o SubSeq(t, IF At(t, k + 1, "nl") THEN k + 2 ELSE k + 1, n)
  BY <1>1, <1>2 DEF Stripped
<1> HIDE DEF k, First
<1>7. t[k] \in Blocks
  BY <1>5 DEF First
<1>8. k < n /\ t[k + 1] = "nl" /\ (k > 1 => t[k - 1] = "nl")
  BY <1>5, <1>7 DEF Laid, OnItsOwn
<1> HIDE DEF n
<1>9. At(t, k + 1, "nl")
  <2>1. k + 1 \in 1 .. n
    BY <1>1, <1>5, <1>8
  <2>2. QED
    BY <1>1, <1>8, <2>1 DEF At
<1>10. At(t, k - 1, "nl") <=> k > 1
  <2>1. k > 1 <=> k - 1 \in 1 .. n
    BY <1>1, <1>5, <1>8
  <2>2. QED
    BY <1>1, <1>8, <2>1 DEF At
<1> DEFINE p == IF k > 1 THEN k - 2 ELSE 0
<1>11. p \in Nat /\ p = IF At(t, k - 1, "nl") THEN k - 2 ELSE k - 1
  BY <1>1, <1>5, <1>10
<1>12. Stripped(t) = SubSeq(t, 1, p) \o SubSeq(t, k + 2, n)
  BY <1>6, <1>9, <1>11
<1>13. QED
  BY <1>5, <1>7, <1>8, <1>11, <1>12 DEF n

LEMMA Strips ==
    ASSUME NEW t, Laid(t)
    PROVE  /\ Stripped(t) \in Seq(Tokens) /\ NoBlocks(Stripped(t))
           /\ Kept(Stripped(t), t)
<1> DEFINE n == Len(t)
<1>1. t \in Seq(Tokens) /\ n \in Nat /\ DOMAIN t = 1 .. n
  BY LenProperties DEF Laid
<1>2. CASE NoBlocks(t)
  <2>1. Stripped(t) = t
    BY <1>1, <1>2 DEF Stripped, NoBlocks
  <2>2. QED
    BY <1>1, <1>2, <2>1 DEF Kept
<1>3. CASE ~NoBlocks(t)
  <2>1. PICK k \in 1 .. n, p \in Nat :
              /\ t[k] \in Blocks /\ k < n /\ t[k + 1] = "nl"
              /\ p = IF k > 1 THEN k - 2 ELSE 0
              /\ Stripped(t) = SubSeq(t, 1, p) \o SubSeq(t, k + 2, n)
    BY <1>3, StripsTo
  <2> DEFINE a == SubSeq(t, 1, p)
             b == SubSeq(t, k + 2, n)
  <2>2. /\ k > 1 => t[k - 1] = "nl"
        /\ k > 2 => t[k - 2] = "nl" \/ t[k] = "path"
        /\ \A i \in 1 .. n : t[i] \in Blocks => i = k
    BY <2>1 DEF Laid, OnItsOwn, OneBlock
  <2>3. /\ p <= n /\ p < k /\ 1 <= p + 1 /\ k + 2 <= n + 1 /\ k + 2 \in Nat /\ 1 <= k + 2
        /\ (p - 1) + 1 = p /\ \A i \in 1 .. p : (1 + i) - 1 = i
    BY <1>1, <2>1
  <2>4. /\ a \in Seq(Tokens) /\ Len(a) = p
        /\ \A i \in 1 .. p : a[i] = t[i]
    <3>1. /\ a \in Seq(Tokens) /\ Len(a) = (p - 1) + 1
          /\ \A i \in 1 .. (p - 1) + 1 : a[i] = t[(1 + i) - 1]
      BY <1>1, <2>3, Piece
    <3>2. QED
      BY <2>3, <3>1
  <2>5. /\ b \in Seq(Tokens) /\ Len(b) = (n - (k + 2)) + 1
        /\ \A i \in 1 .. (n - (k + 2)) + 1 : b[i] = t[((k + 2) + i) - 1]
    <3> DEFINE q == k + 2
    <3>1. q \in Nat /\ 1 <= q /\ n <= Len(t) /\ q <= n + 1
      BY <1>1, <2>3
    <3> HIDE DEF q
    <3>2. /\ SubSeq(t, q, n) \in Seq(Tokens) /\ Len(SubSeq(t, q, n)) = (n - q) + 1
          /\ \A i \in 1 .. (n - q) + 1 : SubSeq(t, q, n)[i] = t[(q + i) - 1]
      BY <1>1, <3>1, Piece
    <3>3. QED
      BY <3>2 DEF q
  <2>6. Apart(t) => Apart(a) /\ Apart(b)
    BY <1>1, <2>3, PieceApart
  <2>7. Typed(a \o b) = Typed(t)
    <3>1. k + 1 \in Nat /\ p <= k + 1 /\ k + 1 <= Len(t) /\ (k + 1) + 1 = k + 2
      BY <1>1, <2>1, <2>3
    <3>2. ASSUME NEW i \in p + 1 .. k + 1 PROVE t[i] \notin Words
      <4>1. (i = k - 1 /\ k > 1) \/ i = k \/ i = k + 1
        BY <1>1, <2>1, <2>3
      <4>2. QED
        BY <2>1, <2>2, <4>1, Sorts
    <3>3. Typed(SubSeq(t, 1, p) \o SubSeq(t, (k + 1) + 1, Len(t))) = Typed(t)
      BY <1>1, <3>1, <3>2, CutOut
    <3>4. QED
      BY <3>1, <3>3
  <2> HIDE DEF a, b
  <2>8. NoBlocks(a)
    <3>1. ASSUME NEW i \in 1 .. p PROVE a[i] \notin Blocks
      <4>1. i \in 1 .. n /\ i # k
        BY <1>1, <2>1, <2>3
      <4>2. QED
        BY <2>2, <2>4, <4>1
    <3>2. QED
      BY <2>4, <3>1 DEF NoBlocks
  <2>9. NoBlocks(b)
    <3>1. ASSUME NEW i \in 1 .. (n - (k + 2)) + 1 PROVE b[i] \notin Blocks
      <4>1. ((k + 2) + i) - 1 \in 1 .. n /\ ((k + 2) + i) - 1 # k
        BY <1>1, <2>1, <2>3
      <4>2. QED
        BY <2>2, <2>5, <4>1
    <3>2. QED
      BY <2>5, <3>1 DEF NoBlocks
  <2>10. ASSUME ~Borrowed(t), Len(a) > 0, Len(b) > 0 PROVE a[Len(a)] \notin Words \/ b[1] \notin Words
    <3>1. p = k - 2 /\ k > 2 /\ p \in 1 .. p
      BY <1>1, <2>1, <2>4, <2>10
    <3>2. a[Len(a)] = t[k - 2]
      BY <2>4, <3>1
    <3>3. k + 2 <= n /\ 1 \in 1 .. (n - (k + 2)) + 1 /\ ((k + 2) + 1) - 1 = k + 2
      BY <1>1, <2>1, <2>5, <2>10
    <3>4. b[1] = t[k + 2]
      BY <2>5, <3>3
    <3>5. CASE t[k] = "path"
      BY <2>10, <3>1, <3>2, <3>3, <3>4, <3>5 DEF Borrowed
    <3>6. CASE t[k] # "path"
      BY <2>2, <3>1, <3>2, <3>6, Sorts
    <3>7. QED
      BY <3>5, <3>6
  <2>12. Stripped(t) = a \o b
    BY <2>1 DEF a, b
  <2>13. /\ a \o b \in Seq(Tokens) /\ NoBlocks(a \o b)
         /\ Apart(t) /\ ~Borrowed(t) => Apart(a \o b)
    BY <2>4, <2>5, <2>6, <2>8, <2>9, <2>10, Glued, GluedBlocks, GluedApart
  <2>14. QED
    BY <2>7, <2>12, <2>13 DEF Kept
<1>4. QED
  BY <1>2, <1>3

LEMMA Trims ==
    ASSUME NEW t \in Seq(Tokens)
    PROVE  /\ Trimmed(t) \in Seq(Tokens) /\ Kept(Trimmed(t), t)
           /\ NoBlocks(t) => NoBlocks(Trimmed(t))
<1> DEFINE k == Len(t)
           Rests(n) == \A i \in n + 1 .. k : t[i] = "nl"
           T == {n \in 0 .. k : Rests(n)}
           Closes(n) == Rests(n) /\ (n > 0 => t[n] # "nl")
           m == CHOOSE n \in 0 .. k : Closes(n)
<1>1. k \in Nat
  BY LenProperties
<1>2. \E n \in 0 .. k : Closes(n)
  <2>1. k \in T
    BY <1>1
  <2>2. T \subseteq 0 .. k
    OBVIOUS
  <2>3. PICK n \in T : \A j \in T : n <= j
    <3> HIDE DEF T
    <3>1. T \subseteq Nat
      BY <1>1, <2>2
    <3>2. QED
      BY <2>1, <3>1, Least
  <2>4. n \in 0 .. k /\ Rests(n)
    BY <2>3
  <2>5. ASSUME n > 0, t[n] = "nl" PROVE FALSE
    <3>1. n - 1 \in 0 .. k /\ ~(n <= n - 1)
      BY <1>1, <2>4, <2>5
    <3>2. ASSUME NEW i \in (n - 1) + 1 .. k PROVE t[i] = "nl"
      <4>1. i = n \/ i \in n + 1 .. k
        BY <1>1, <2>4
      <4>2. QED
        BY <2>4, <2>5, <4>1
    <3>3. n - 1 \in T
      BY <3>1, <3>2
    <3>4. QED
      BY <2>3, <3>1, <3>3
  <2>6. QED
    BY <2>4, <2>5
<1>3. m \in 0 .. k /\ Closes(m)
  BY <1>2
<1>4. Trimmed(t) = SubSeq(t, 1, m)
  BY DEF Trimmed
<1> HIDE DEF m
<1>5. m \in Nat /\ m <= k /\ 1 <= m + 1 /\ (m - 1) + 1 = m /\ \A i \in 1 .. m : (1 + i) - 1 = i /\ i \in 1 .. k
  BY <1>1, <1>3
<1> DEFINE a == SubSeq(t, 1, m)
<1>6. a \in Seq(Tokens) /\ Len(a) = m /\ (\A i \in 1 .. m : a[i] = t[i]) /\ (Apart(t) => Apart(a))
  <2>1. /\ a \in Seq(Tokens) /\ Len(a) = (m - 1) + 1
        /\ \A i \in 1 .. (m - 1) + 1 : a[i] = t[(1 + i) - 1]
    BY <1>5, Piece
  <2>2. Apart(t) => Apart(a)
    BY <1>5, PieceApart
  <2>3. QED
    BY <1>5, <2>1, <2>2
<1>7. Typed(a) = Typed(t)
  <2>1. \A i \in m + 1 .. k : t[i] \notin Words
    BY <1>3, Sorts
  <2>2. Typed(a \o SubSeq(t, k + 1, Len(t))) = Typed(t)
    BY <1>1, <1>5, <2>1, CutOut
  <2>3. SubSeq(t, k + 1, k) = <<>>
    BY <1>1, SubSeqEmpty
  <2> HIDE DEF a
  <2>4. a \o <<>> = a
    BY <1>6, ConcatEmptySeq
  <2>5. QED
    BY <2>2, <2>3, <2>4
<1> HIDE DEF a
<1>8. NoBlocks(t) => NoBlocks(a)
  BY <1>5, <1>6 DEF NoBlocks
<1>9. QED
  BY <1>4, <1>6, <1>7, <1>8 DEF a, Kept

\* What a file may hold: nothing, as it is not there, or a text in which a block lies well.
OneOf(t) == t = Absent \/ Laid(t)

LEMMA AbsentText == Typed(Absent) = <<>> /\ Apart(Absent) /\ NoBlocks(Absent)
<1>1. Absent[1] = "absent" /\ Len(Absent) = 1
  BY DEF Absent
<1>2. \A i \in 1 .. Len(Absent) : Absent[i] = "absent"
  BY <1>1
<1>3. Typed(Absent) = <<>>
  BY <1>1, <1>2, Sorts, TypedNone
<1>4. QED
  BY <1>1, <1>2, <1>3, Sorts DEF Apart, NoBlocks

LEMMA EmptyText ==
    /\ <<>> \in Seq(Tokens) /\ Typed(<<>>) = <<>> /\ Apart(<<>>) /\ NoBlocks(<<>>)
    /\ Laid(<<>>) /\ Len(<<>>) = 0
<1>1. <<>> \in Seq(Tokens) /\ Len(<<>>) = 0
  BY EmptySeq
<1>2. Typed(<<>>) = <<>>
  BY <1>1, TypedNone
<1>3. QED
  BY <1>1, <1>2 DEF Apart, NoBlocks, Laid, OneBlock, OnItsOwn

\* Reading a file that is not there.
LEMMA Reads ==
    ASSUME NEW t, OneOf(t)
    PROVE  /\ Laid(Text(t)) /\ Kept(Text(t), t) /\ Text(t) \in Seq(Tokens)
           /\ Borrowed(Text(t)) => Borrowed(t)
<1>1. CASE t = Absent
  BY <1>1, AbsentText, EmptyText, BlockBorrows DEF Text, Kept
<1>2. CASE t # Absent
  BY <1>2 DEF Text, Kept, Laid, OneOf
<1>3. QED
  BY <1>1, <1>2

LEMMA KeptTwice ==
    ASSUME NEW r, NEW s, NEW t, Kept(r, s), Kept(s, t), Borrowed(s) => Borrowed(t) PROVE Kept(r, t)
  BY DEF Kept

\* The last line of a block is written.
LEMMA Lays ==
    ASSUME NEW s \in Seq(Tokens), NoBlocks(s), NEW b \in Blocks, Ended(s) \/ b = "path"
    PROVE  Laid(s \o <<"nl", b, "nl">>) /\ Kept(s \o <<"nl", b, "nl">>, s)
<1> DEFINE m == Len(s)
           d == <<"nl", b, "nl">>
           c == s \o d
<1>1. d \in Seq(Tokens) /\ Len(d) = 3 /\ d[1] = "nl" /\ d[2] = b /\ d[3] = "nl"
  BY Sorts
<1>2. \A i \in 1 .. 3 : d[i] \notin Words
  BY <1>1, Sorts
<1>3. Kept(c, s)
  <2>1. Apart(d)
    BY <1>1, Sorts DEF Apart
  <2> HIDE DEF d
  <2>2. d[1] \notin Words /\ \A i \in 1 .. Len(d) : d[i] \notin Words
    BY <1>1, <1>2
  <2>3. Typed(c) = Typed(s)
    BY <1>1, <2>2, TypedMore
  <2>4. Apart(s) => Apart(c)
    BY <1>1, <2>1, <2>2, GluedApart
  <2>5. QED
    BY <2>3, <2>4 DEF Kept
<1> HIDE DEF d
<1>4. /\ c \in Seq(Tokens) /\ m \in Nat /\ Len(c) = m + 3
      /\ \A i \in 1 .. m : c[i] = s[i]
      /\ \A i \in 1 .. 3 : c[m + i] = d[i]
  <2>1. /\ c \in Seq(Tokens) /\ m \in Nat /\ Len(c) = m + Len(d)
        /\ \A i \in 1 .. m : c[i] = s[i]
        /\ \A i \in 1 .. Len(d) : c[m + i] = d[i]
    BY <1>1, Glued
  <2>2. QED
    BY <1>1, <2>1
<1>5. c[m + 1] = "nl" /\ c[m + 2] = b /\ c[m + 3] = "nl"
  BY <1>1, <1>4
<1>6. (m > 0 => s[m] = "nl" \/ b = "path") /\ \A i \in 1 .. m : s[i] \notin Blocks
  BY DEF NoBlocks, Ended
<1> HIDE DEF m, c
<1>7. ASSUME NEW i \in 1 .. m + 3, c[i] \in Blocks PROVE i = m + 2
  <2>1. i \in 1 .. m \/ i = m + 1 \/ i = m + 2 \/ i = m + 3
    BY <1>4
  <2>2. QED
    BY <1>4, <1>5, <1>6, <1>7, <2>1, Sorts
<1>8. OneBlock(c)
  BY <1>4, <1>7 DEF OneBlock
<1>9. OnItsOwn(c)
  <2> SUFFICES ASSUME NEW i \in 1 .. Len(c), c[i] \in Blocks
               PROVE  /\ i < Len(c) /\ c[i + 1] = "nl"
                      /\ i > 1 => c[i - 1] = "nl"
                      /\ i > 2 => c[i - 2] = "nl" \/ c[i] = "path"
    BY DEF OnItsOwn
  <2>1. i = m + 2
    BY <1>4, <1>7
  <2>2. i < Len(c) /\ i + 1 = m + 3 /\ i - 1 = m + 1 /\ i - 2 = m
    BY <1>4, <2>1
  <2>3. ASSUME i > 2 PROVE c[m] = "nl" \/ b = "path"
    <3>1. m > 0 /\ m \in 1 .. m
      BY <1>4, <2>1, <2>3
    <3>2. QED
      BY <1>4, <1>6, <3>1
  <2>4. QED
    BY <1>5, <2>1, <2>2, <2>3
<1>10. QED
  BY <1>3, <1>4, <1>8, <1>9 DEF Laid, c, d

LEMMA RcBlockLays ==
    ASSUME NEW t, OneOf(t) PROVE Laid(RcBlock(t)) /\ Kept(RcBlock(t), t)
<1> DEFINE u == Text(t)
           s == Stripped(u)
<1>1. Laid(u) /\ Kept(u, t) /\ (Borrowed(u) => Borrowed(t))
  BY Reads
<1>2. s \in Seq(Tokens) /\ NoBlocks(s) /\ Kept(s, u) /\ ~Borrowed(s)
  BY <1>1, Strips, BlockBorrows
<1> HIDE DEF u, s
<1>3. Laid(s \o <<"nl", "path", "nl">>) /\ Kept(s \o <<"nl", "path", "nl">>, s)
  BY <1>2, Lays, Sorts
<1>4. Kept(s \o <<"nl", "path", "nl">>, t)
  BY <1>1, <1>2, <1>3, KeptTwice
<1>5. QED
  BY <1>3, <1>4 DEF RcBlock, u, s

LEMMA InjectLays ==
    ASSUME NEW t, OneOf(t), NEW b \in Blocks PROVE Laid(Inject(t, b)) /\ Kept(Inject(t, b), t)
<1> DEFINE u == Text(t)
           s == Stripped(u)
<1>1. Laid(u) /\ Kept(u, t) /\ (Borrowed(u) => Borrowed(t))
  BY Reads
<1>2. s \in Seq(Tokens) /\ NoBlocks(s) /\ Kept(s, u) /\ ~Borrowed(s)
  BY <1>1, Strips, BlockBorrows
<1>3. Inject(t, b) = (IF s = <<>> THEN <<>> ELSE Trimmed(s) \o <<"nl", "nl">>) \o <<b, "nl">>
  BY DEF Inject
<1>4. <<b, "nl">> \in Seq(Tokens) /\ Len(<<b, "nl">>) = 2 /\ b \notin Words /\ b \in Tokens
  BY Sorts
<1> HIDE DEF u, s
<1>5. CASE s = <<>>
  <2> DEFINE d == <<b, "nl">>
  <2>1. Inject(t, b) = d
    <3>1. <<>> \o d = d
      BY <1>4, ConcatEmptySeq
    <3>2. QED
      BY <1>3, <1>5, <3>1
  <2>2. Typed(d) = <<>>
    <3>1. \A i \in 1 .. Len(d) : d[i] \notin Words
      BY <1>4, Sorts
    <3>2. Len(d) \in Nat
      BY <1>4
    <3> HIDE DEF d
    <3>3. QED
      BY <3>1, <3>2, TypedNone
  <2>3. Apart(d) /\ OneBlock(d) /\ OnItsOwn(d)
    BY <1>4, Sorts DEF Apart, OneBlock, OnItsOwn
  <2>4. Kept(d, s)
    BY <1>5, <2>2, <2>3, EmptyText DEF Kept
  <2> HIDE DEF d
  <2>5. Kept(d, t)
    BY <1>1, <1>2, <2>4, KeptTwice
  <2>6. QED
    BY <1>4, <2>1, <2>3, <2>5 DEF Laid, d
<1>6. CASE s # <<>>
  <2> DEFINE r == Trimmed(s)
             e == <<"nl">>
             q == r \o e
  <2>1. r \in Seq(Tokens) /\ Kept(r, s) /\ NoBlocks(r) /\ ~Borrowed(r)
    BY <1>2, Trims, BlockBorrows
  <2>2. /\ e \in Seq(Tokens) /\ Len(e) = 1 /\ e[1] = "nl"
    BY Sorts
  <2> HIDE DEF r
  <2>3. Inject(t, b) = q \o <<"nl", b, "nl">>
    <3> DEFINE d == <<b, "nl">>
    <3>1. <<"nl", "nl">> = e \o e /\ <<"nl", b, "nl">> = e \o d
      OBVIOUS
    <3>2. d \in Seq(Tokens) /\ e \o d \in Seq(Tokens) /\ q \in Seq(Tokens)
      BY <1>4, <2>1, <2>2, Glued
    <3>3. Inject(t, b) = (r \o (e \o e)) \o d
      BY <1>3, <1>6, <3>1 DEF r
    <3> HIDE DEF e, d
    <3>4. r \o (e \o e) = (r \o e) \o e
      <4>1. r \in Seq(Tokens) /\ e \in Seq(Tokens)
        BY <2>1, <2>2
      <4>2. QED
        BY <4>1, ConcatAssociative
    <3>5. (q \o e) \o d = q \o (e \o d)
      <4>1. q \in Seq(Tokens) /\ e \in Seq(Tokens) /\ d \in Seq(Tokens)
        BY <2>2, <3>2
      <4> HIDE DEF q
      <4>2. QED
        BY <4>1, ConcatAssociative
    <3>6. QED
      BY <3>1, <3>3, <3>4, <3>5
  <2>4. NoBlocks(e) /\ e[1] \notin Words /\ (\A i \in 1 .. Len(e) : e[i] \notin Words) /\ Apart(e)
    BY <2>2, Sorts DEF NoBlocks, Apart
  <2> HIDE DEF e
  <2>5. q \in Seq(Tokens) /\ NoBlocks(q) /\ Typed(q) = Typed(r) /\ (Apart(r) => Apart(q))
    BY <2>1, <2>2, <2>4, Glued, GluedBlocks, GluedApart, TypedMore
  <2>6. Ended(q)
    <3>1. Len(r) \in Nat /\ Len(q) = Len(r) + 1 /\ q[Len(r) + 1] = e[1]
      <4>1. 1 \in 1 .. Len(e)
        BY <2>2
      <4>2. QED
        BY <2>1, <2>2, <4>1, Glued
    <3>2. QED
      BY <2>2, <3>1 DEF Ended
  <2>7. Kept(q, r) /\ ~Borrowed(q)
    BY <2>1, <2>5, BlockBorrows DEF Kept
  <2> HIDE DEF q
  <2>8. Laid(q \o <<"nl", b, "nl">>) /\ Kept(q \o <<"nl", b, "nl">>, q)
    BY <2>5, <2>6, Lays
  <2>9. Kept(q \o <<"nl", b, "nl">>, t)
    BY <1>1, <1>2, <2>1, <2>7, <2>8, KeptTwice
  <2>10. QED
    BY <2>3, <2>8, <2>9
<1>7. QED
  BY <1>5, <1>6

LEMMA Cleared ==
    ASSUME NEW s \in Seq(Tokens), NoBlocks(s) PROVE Laid(s)
  BY DEF Laid, NoBlocks, OneBlock, OnItsOwn

LEMMA UnpatchClears ==
    ASSUME NEW t, OneOf(t)
    PROVE  /\ OneOf(Unpatch(t)) /\ Kept(Unpatch(t), t) /\ NoBlocks(Unpatch(t))
<1>1. CASE t = Absent
  BY <1>1, AbsentText DEF Unpatch, Kept, OneOf
<1>2. CASE t # Absent
  <2>1. Laid(t) /\ Unpatch(t) = Stripped(t)
    BY <1>2 DEF OneOf, Unpatch
  <2>2. QED
    BY <2>1, Strips, Cleared DEF OneOf
<1>3. QED
  BY <1>1, <1>2

LEMMA UninjectClears ==
    ASSUME NEW t, OneOf(t)
    PROVE  /\ OneOf(Uninject(t)) /\ Kept(Uninject(t), t) /\ NoBlocks(Uninject(t))
<1>1. CASE t = Absent
  BY <1>1, AbsentText DEF Uninject, Kept, OneOf
<1>2. CASE t # Absent
  <2> DEFINE s == Stripped(t)
             r == Trimmed(s)
  <2>1. Laid(t)
    BY <1>2 DEF OneOf
  <2>2. s \in Seq(Tokens) /\ NoBlocks(s) /\ Kept(s, t) /\ Laid(s) /\ ~Borrowed(s)
    BY <2>1, Strips, Cleared, BlockBorrows
  <2>3. Kept(r, s)
    BY <2>2, Trims
  <2>4. Uninject(t) = IF r = <<>> THEN Absent ELSE s
    BY <1>2 DEF Uninject
  <2> HIDE DEF r, s
  <2>5. CASE r = <<>>
    <3>1. Typed(s) = <<>>
      BY <2>3, <2>5, EmptyText DEF Kept
    <3>2. Kept(Absent, s)
      BY <3>1, AbsentText DEF Kept
    <3>3. QED
      BY <2>2, <2>4, <2>5, <3>2, AbsentText, KeptTwice DEF OneOf
  <2>6. CASE r # <<>>
    BY <2>2, <2>4, <2>6 DEF OneOf
  <2>7. QED
    BY <2>5, <2>6
<1>3. QED
  BY <1>1, <1>2

\* Lines and line ends at the end of a text.
LEMMA PutBelow ==
    ASSUME NEW u, Laid(u), NEW d \in Seq(Tokens), NoBlocks(d)
    PROVE  /\ Laid(u \o d)
           /\ NoBlocks(u) => NoBlocks(u \o d)
<1> DEFINE m == Len(u)
           n == Len(d)
           c == u \o d
<1>1. u \in Seq(Tokens)
  BY DEF Laid
<1>2. /\ c \in Seq(Tokens) /\ m \in Nat /\ n \in Nat /\ Len(c) = m + n
      /\ \A i \in 1 .. m : c[i] = u[i]
      /\ \A i \in 1 .. n : c[m + i] = d[i]
  BY <1>1, Glued
<1>3. NoBlocks(u) => NoBlocks(c)
  BY <1>1, GluedBlocks
<1>4. /\ \A i, j \in 1 .. m : u[i] \in Blocks /\ u[j] \in Blocks => i = j
      /\ \A i \in 1 .. m : u[i] \in Blocks =>
                   /\ i < m /\ u[i + 1] = "nl"
                   /\ i > 1 => u[i - 1] = "nl"
                   /\ i > 2 => u[i - 2] = "nl" \/ u[i] = "path"
      /\ \A i \in 1 .. n : d[i] \notin Blocks
  BY DEF Laid, OneBlock, OnItsOwn, NoBlocks
<1>5. \A i \in 1 .. Len(c) : (i \in 1 .. m /\ c[i] = u[i]) \/ \E j \in 1 .. n : i = m + j /\ c[i] = d[j]
  BY <1>1, Falls
<1> HIDE DEF m, n, c
<1>6. ASSUME NEW i \in 1 .. Len(c), c[i] \in Blocks PROVE i \in 1 .. m /\ u[i] \in Blocks
  BY <1>4, <1>5, <1>6
<1>7. OneBlock(c)
  BY <1>4, <1>6 DEF OneBlock
<1>8. OnItsOwn(c)
  <2> SUFFICES ASSUME NEW i \in 1 .. Len(c), c[i] \in Blocks
               PROVE  /\ i < Len(c) /\ c[i + 1] = "nl"
                      /\ i > 1 => c[i - 1] = "nl"
                      /\ i > 2 => c[i - 2] = "nl" \/ c[i] = "path"
    BY DEF OnItsOwn
  <2>1. i \in 1 .. m /\ u[i] \in Blocks
    BY <1>6
  <2>2. i < m
    BY <1>4, <2>1
  <2>3. /\ i < Len(c) /\ i + 1 \in 1 .. m
        /\ i > 1 => i - 1 \in 1 .. m
        /\ i > 2 => i - 2 \in 1 .. m
    BY <1>2, <2>1, <2>2
  <2>4. QED
    BY <1>2, <1>4, <2>1, <2>3
<1>9. QED
  BY <1>2, <1>3, <1>7, <1>8 DEF Laid, c

\* The user writes a line at the end.
LEMMA TypesMore ==
    ASSUME NEW t, OneOf(t)
    PROVE  /\ Laid(Closed(Text(t)) \o <<"b", "nl">>)
           /\ NoBlocks(t) => NoBlocks(Closed(Text(t)) \o <<"b", "nl">>)
<1> DEFINE u == Text(t)
           e == <<"nl">>
           d == <<"b", "nl">>
           c == Closed(u)
<1>1. Laid(u) /\ (NoBlocks(t) => NoBlocks(u))
  BY Reads, EmptyText DEF Text
<1>2. /\ d \in Seq(Tokens) /\ Len(d) = 2 /\ d[1] = "b" /\ d[2] = "nl"
      /\ e \in Seq(Tokens) /\ Len(e) = 1 /\ e[1] = "nl"
  BY Sorts
<1>3. c = u \/ c = u \o e
  BY DEF Closed
<1> HIDE DEF u, e, d, c
<1>4. NoBlocks(e) /\ NoBlocks(d)
  BY <1>2, Sorts DEF NoBlocks
<1>5. Laid(c) /\ (NoBlocks(u) => NoBlocks(c))
  BY <1>1, <1>2, <1>3, <1>4, PutBelow
<1>6. Laid(c \o d) /\ (NoBlocks(c) => NoBlocks(c \o d))
  BY <1>2, <1>4, <1>5, PutBelow
<1>7. QED
  BY <1>1, <1>5, <1>6 DEF c, d, u

-----------------------------------------------------------------------------
(* What is left to do *)

LEMMA HasOne == \A a, op : Has(<<a>>, op) <=> op = a
  BY DEF Has
LEMMA HasTwo == \A a, b, op : Has(<<a, b>>, op) <=> op \in {a, b}
  BY DEF Has
LEMMA HasThree == \A a, b, c, op : Has(<<a, b, c>>, op) <=> op \in {a, b, c}
  BY DEF Has
LEMMA HasNone == \A op : ~Has(<<>>, op)
  BY DEF Has

LEMMA HasGlued ==
    ASSUME NEW S, NEW a \in Seq(S), NEW b \in Seq(S), NEW op
    PROVE  Has(a \o b, op) <=> Has(a, op) \/ Has(b, op)
<1> DEFINE m == Len(a)
           n == Len(b)
           c == a \o b
<1>1. /\ m \in Nat /\ n \in Nat /\ Len(c) = m + n
      /\ \A i \in 1 .. m : c[i] = a[i]
      /\ \A i \in 1 .. n : c[m + i] = b[i]
      /\ \A i \in 1 .. m + n : i \in 1 .. m \/ \E j \in 1 .. n : i = m + j
  BY Joined
<1> HIDE DEF m, n, c
<1>2. ASSUME NEW i \in 1 .. m + n, c[i] = op
      PROVE  (\E j \in 1 .. m : a[j] = op) \/ (\E j \in 1 .. n : b[j] = op)
  <2>1. CASE i \in 1 .. m
    BY <1>1, <1>2, <2>1
  <2>2. CASE \E j \in 1 .. n : i = m + j
    BY <1>1, <1>2, <2>2
  <2>3. QED
    BY <1>1, <2>1, <2>2
<1>3. ASSUME NEW j \in 1 .. m, a[j] = op PROVE \E i \in 1 .. m + n : c[i] = op
  <2>1. j \in 1 .. m + n
    BY <1>1
  <2>2. QED
    BY <1>1, <1>3, <2>1
<1>4. ASSUME NEW j \in 1 .. n, b[j] = op PROVE \E i \in 1 .. m + n : c[i] = op
  <2>1. m + j \in 1 .. m + n
    BY <1>1
  <2>2. QED
    BY <1>1, <1>4, <2>1
<1>5. (\E i \in 1 .. m + n : c[i] = op)
      <=> (\E j \in 1 .. m : a[j] = op) \/ (\E j \in 1 .. n : b[j] = op)
  BY <1>2, <1>3, <1>4
<1>6. QED
  BY <1>1, <1>5 DEF Has, m, n, c

LEMMA OrderedGlued ==
    ASSUME NEW S, NEW a \in Seq(S), NEW b \in Seq(S), Ordered(a), Ordered(b)
    PROVE  Ordered(a \o b)
<1> DEFINE m == Len(a)
           n == Len(b)
           c == a \o b
           Follows(s, k, x, y) == \A i \in 1 .. k : s[i] = x => i < k /\ s[i + 1] = y
           Ends(s, k) == \A i \in 1 .. k : s[i] \in {"prune", "wrappers"} =>
                             \E j \in i + 1 .. k : s[j] = "manifest"
<1>1. /\ m \in Nat /\ n \in Nat /\ Len(c) = m + n
      /\ \A i \in 1 .. m : c[i] = a[i]
      /\ \A i \in 1 .. n : c[m + i] = b[i]
      /\ \A i \in 1 .. m + n : i \in 1 .. m \/ \E j \in 1 .. n : i = m + j
  BY Joined
<1>2. /\ Follows(a, m, "planCopilot", "swapCopilot") /\ Follows(a, m, "planRepo", "swapRepo")
      /\ Follows(b, n, "planCopilot", "swapCopilot") /\ Follows(b, n, "planRepo", "swapRepo")
      /\ Ends(a, m) /\ Ends(b, n)
  BY DEF Ordered
<1> HIDE DEF m, n, c
<1>3. ASSUME NEW x, NEW y, Follows(a, m, x, y), Follows(b, n, x, y) PROVE Follows(c, m + n, x, y)
  <2> SUFFICES ASSUME NEW i \in 1 .. m + n, c[i] = x PROVE i < m + n /\ c[i + 1] = y
    OBVIOUS
  <2>1. CASE i \in 1 .. m
    <3>1. i < m /\ a[i + 1] = y
      BY <1>1, <1>3, <2>1
    <3>2. i + 1 \in 1 .. m /\ i < m + n
      BY <1>1, <2>1, <3>1
    <3>3. QED
      BY <1>1, <3>1, <3>2
  <2>2. CASE \E j \in 1 .. n : i = m + j
    <3>1. PICK j \in 1 .. n : i = m + j
      BY <2>2
    <3>2. j < n /\ b[j + 1] = y
      BY <1>1, <1>3, <3>1
    <3>3. j + 1 \in 1 .. n /\ i < m + n /\ i + 1 = m + (j + 1)
      BY <1>1, <3>1, <3>2
    <3>4. QED
      BY <1>1, <3>2, <3>3
  <2>3. QED
    BY <1>1, <2>1, <2>2
<1>4. Ends(c, m + n)
  <2> SUFFICES ASSUME NEW i \in 1 .. m + n, c[i] \in {"prune", "wrappers"}
               PROVE  \E j \in i + 1 .. m + n : c[j] = "manifest"
    OBVIOUS
  <2>1. CASE i \in 1 .. m
    <3>1. PICK j \in i + 1 .. m : a[j] = "manifest"
      BY <1>1, <1>2, <2>1
    <3>2. j \in 1 .. m /\ j \in i + 1 .. m + n
      BY <1>1, <2>1, <3>1
    <3>3. QED
      BY <1>1, <3>1, <3>2
  <2>2. CASE \E k \in 1 .. n : i = m + k
    <3>1. PICK k \in 1 .. n : i = m + k
      BY <2>2
    <3>2. PICK j \in k + 1 .. n : b[j] = "manifest"
      BY <1>1, <1>2, <3>1
    <3>3. j \in 1 .. n /\ m + j \in i + 1 .. m + n
      BY <1>1, <3>1, <3>2
    <3>4. QED
      BY <1>1, <3>2, <3>3
  <2>3. QED
    BY <1>1, <2>1, <2>2
<1> HIDE DEF Follows
<1>5. /\ Follows(c, m + n, "planCopilot", "swapCopilot") /\ Follows(c, m + n, "planRepo", "swapRepo")
  BY <1>2, <1>3
<1>6. QED
  <2>1. \A i \in 1 .. Len(c) : c[i] = "planCopilot" => i < Len(c) /\ c[i + 1] = "swapCopilot"
    BY <1>1, <1>5 DEF Follows
  <2>2. \A i \in 1 .. Len(c) : c[i] = "planRepo" => i < Len(c) /\ c[i + 1] = "swapRepo"
    BY <1>1, <1>5 DEF Follows
  <2>3. \A i \in 1 .. Len(c) : c[i] \in {"prune", "wrappers"} =>
            \E j \in i + 1 .. Len(c) : c[j] = "manifest"
    BY <1>1, <1>4
  <2>4. QED
    BY <2>1, <2>2, <2>3 DEF Ordered, c

LEMMA LastGlued ==
    ASSUME NEW S, NEW a \in Seq(S), NEW b \in Seq(S), ProbesLast(b),
           ~Has(a, "probe"), ~Has(a, "probePony")
    PROVE  ProbesLast(a \o b)
<1> DEFINE m == Len(a)
           n == Len(b)
           c == a \o b
<1>1. /\ m \in Nat /\ n \in Nat /\ Len(c) = m + n
      /\ \A i \in 1 .. m : c[i] = a[i]
      /\ \A i \in 1 .. n : c[m + i] = b[i]
      /\ \A i \in 1 .. m + n : i \in 1 .. m \/ \E j \in 1 .. n : i = m + j
  BY Joined
<1>2. /\ \A i \in 1 .. n : b[i] \in {"probe", "probePony"} => i = n
      /\ \A i \in 1 .. m : a[i] \notin {"probe", "probePony"}
  BY DEF ProbesLast, Has
<1> HIDE DEF m, n, c
<1>3. ASSUME NEW i \in 1 .. m + n, c[i] \in {"probe", "probePony"} PROVE i = m + n
  <2>1. CASE i \in 1 .. m
    BY <1>1, <1>2, <1>3, <2>1
  <2>2. CASE \E j \in 1 .. n : i = m + j
    <3>1. PICK j \in 1 .. n : i = m + j
      BY <2>2
    <3>2. c[i] = b[j]
      BY <1>1, <3>1
    <3>3. j = n
      BY <1>2, <1>3, <3>2
    <3>4. QED
      BY <3>1, <3>3
  <2>3. QED
    BY <1>1, <2>1, <2>2
<1>4. QED
  BY <1>1, <1>3 DEF ProbesLast, c

\* The first of them is done.
LEMMA TailHas ==
    ASSUME NEW S, NEW s \in Seq(S), s # <<>>
    PROVE  /\ Head(s) \in S /\ Tail(s) \in Seq(S)
           /\ \A op : Has(s, op) <=> op = Head(s) \/ Has(Tail(s), op)
           /\ Ordered(s) => Ordered(Tail(s))
           /\ ProbesLast(s) => ProbesLast(Tail(s))
           /\ Ordered(s) /\ Head(s) = "planCopilot" =>
                  Tail(s) # <<>> /\ Head(Tail(s)) = "swapCopilot"
           /\ Ordered(s) /\ Head(s) = "planRepo" =>
                  Tail(s) # <<>> /\ Head(Tail(s)) = "swapRepo"
           /\ Ordered(s) /\ Head(s) \in {"prune", "wrappers"} => Has(Tail(s), "manifest")
           /\ ProbesLast(s) /\ Head(s) \in {"probe", "probePony"} => Tail(s) = <<>>
<1> DEFINE t == Tail(s)
           n == Len(s)
<1>1. n \in Nat /\ n > 0
  BY LenProperties, EmptySeq
<1>2. /\ Head(s) \in S /\ t \in Seq(S) /\ Len(t) = n - 1 /\ Head(s) = s[1]
      /\ \A i \in 1 .. n - 1 : t[i] = s[i + 1]
  BY HeadTailProperties
<1>3. \A i \in 1 .. n : i = 1 \/ (i - 1 \in 1 .. n - 1 /\ (i - 1) + 1 = i)
  BY <1>1
<1>4. \A i \in 1 .. n - 1 : i + 1 \in 1 .. n
  BY <1>1
<1>5. t # <<>> => Head(t) = t[1] /\ 1 \in 1 .. n - 1
  BY <1>1, <1>2, EmptySeq, LenProperties
<1>6. t = <<>> <=> n = 1
  <2>1. t = <<>> <=> Len(t) = 0
    BY <1>2, EmptySeq
  <2>2. QED
    BY <1>1, <1>2, <2>1
<1> HIDE DEF t, n
<1>7. ASSUME NEW op PROVE (\E i \in 1 .. n : s[i] = op) <=> op = s[1] \/ \E i \in 1 .. n - 1 : t[i] = op
  <2>1. ASSUME NEW i \in 1 .. n, s[i] = op PROVE op = s[1] \/ \E j \in 1 .. n - 1 : t[j] = op
    <3>1. CASE i = 1
      BY <2>1, <3>1
    <3>2. CASE i - 1 \in 1 .. n - 1 /\ (i - 1) + 1 = i
      BY <1>2, <2>1, <3>2
    <3>3. QED
      BY <1>3, <3>1, <3>2
  <2>2. ASSUME NEW i \in 1 .. n - 1, t[i] = op PROVE \E j \in 1 .. n : s[j] = op
    BY <1>2, <1>4, <2>2
  <2>3. 1 \in 1 .. n
    BY <1>1
  <2>4. QED
    BY <2>1, <2>2, <2>3
<1>8. \A op : Has(s, op) <=> op = s[1] \/ Has(t, op)
  BY <1>2, <1>7 DEF Has, n
<1>9. ASSUME Ordered(s) PROVE Ordered(t)
  <2> SUFFICES ASSUME NEW i \in 1 .. n - 1
               PROVE  /\ t[i] = "planCopilot" => i < n - 1 /\ t[i + 1] = "swapCopilot"
                      /\ t[i] = "planRepo" => i < n - 1 /\ t[i + 1] = "swapRepo"
                      /\ t[i] \in {"prune", "wrappers"} => \E j \in i + 1 .. n - 1 : t[j] = "manifest"
    BY <1>2 DEF Ordered
  <2>1. i + 1 \in 1 .. n /\ t[i] = s[i + 1]
    BY <1>2, <1>4
  <2>2. /\ t[i] = "planCopilot" => i + 1 < n /\ s[(i + 1) + 1] = "swapCopilot"
        /\ t[i] = "planRepo" => i + 1 < n /\ s[(i + 1) + 1] = "swapRepo"
        /\ t[i] \in {"prune", "wrappers"} => \E j \in (i + 1) + 1 .. n : s[j] = "manifest"
    BY <1>9, <2>1 DEF Ordered, n
  <2>3. i + 1 < n => i < n - 1 /\ i + 1 \in 1 .. n - 1
    BY <1>1
  <2>4. ASSUME NEW j \in (i + 1) + 1 .. n, s[j] = "manifest"
        PROVE  \E k \in i + 1 .. n - 1 : t[k] = "manifest"
    <3>1. j - 1 \in i + 1 .. n - 1 /\ j - 1 \in 1 .. n - 1 /\ (j - 1) + 1 = j
      BY <1>1
    <3>2. QED
      BY <1>2, <2>4, <3>1
  <2>5. QED
    BY <1>2, <2>2, <2>3, <2>4
<1>10. ASSUME ProbesLast(s) PROVE ProbesLast(t)
  <2>1. ASSUME NEW i \in 1 .. n - 1, t[i] \in {"probe", "probePony"} PROVE i = n - 1
    <3>1. i + 1 \in 1 .. n /\ s[i + 1] = t[i]
      BY <1>2, <1>4
    <3>2. i + 1 = n
      BY <1>10, <2>1, <3>1 DEF ProbesLast, n
    <3>3. QED
      BY <1>1, <3>2
  <2>2. QED
    BY <1>2, <2>1 DEF ProbesLast
<1>11. 1 \in 1 .. n
  BY <1>1
<1>12. ASSUME Ordered(s), NEW x, NEW y, s[1] = x, 1 < n /\ s[1 + 1] = y PROVE t # <<>> /\ Head(t) = y
  <2>1. t # <<>> /\ 1 \in 1 .. n - 1 /\ Head(t) = t[1]
    BY <1>1, <1>5, <1>6, <1>12
  <2>2. QED
    BY <1>2, <1>12, <2>1
<1>13. ASSUME Ordered(s)
       PROVE  /\ s[1] = "planCopilot" => t # <<>> /\ Head(t) = "swapCopilot"
              /\ s[1] = "planRepo" => t # <<>> /\ Head(t) = "swapRepo"
  <2>1. /\ s[1] = "planCopilot" => 1 < n /\ s[1 + 1] = "swapCopilot"
        /\ s[1] = "planRepo" => 1 < n /\ s[1 + 1] = "swapRepo"
    BY <1>11, <1>13 DEF Ordered, n
  <2>2. QED
    BY <1>12, <1>13, <2>1
<1>14. ASSUME Ordered(s), s[1] \in {"prune", "wrappers"} PROVE Has(t, "manifest")
  <2>1. PICK j \in 1 + 1 .. n : s[j] = "manifest"
    BY <1>11, <1>14 DEF Ordered, n
  <2>2. j - 1 \in 1 .. n - 1 /\ (j - 1) + 1 = j
    BY <1>1
  <2>3. t[j - 1] = "manifest"
    BY <1>2, <2>1, <2>2
  <2>4. QED
    BY <1>2, <2>2, <2>3 DEF Has
<1>15. ASSUME ProbesLast(s), s[1] \in {"probe", "probePony"} PROVE t = <<>>
  <2>1. n = 1
    BY <1>11, <1>15 DEF ProbesLast, n
  <2>2. QED
    BY <1>6, <2>1
<1>16. QED
  BY <1>2, <1>8, <1>9, <1>10, <1>13, <1>14, <1>15 DEF t

\* A list a command may have, and one that says nothing of the probe or the block of text.
Shaped(s) == s \in Seq(PutOps) /\ Ordered(s) /\ ProbesLast(s)
Plain(s) == Shaped(s) /\ ~Has(s, "probe") /\ ~Has(s, "probePony") /\ ~Has(s, "inject")

LEMMA ShapedGlued ==
    ASSUME NEW a, Plain(a), NEW b, Shaped(b)
    PROVE  /\ Shaped(a \o b) /\ \A op : Has(a \o b, op) <=> Has(a, op) \/ Has(b, op)
           /\ Plain(b) => Plain(a \o b)
<1>1. a \in Seq(PutOps) /\ b \in Seq(PutOps)
  BY DEF Plain, Shaped
<1>2. a \o b \in Seq(PutOps) /\ Ordered(a \o b) /\ ProbesLast(a \o b)
  BY <1>1, Joined, OrderedGlued, LastGlued DEF Plain, Shaped
<1>3. \A op : Has(a \o b, op) <=> Has(a, op) \/ Has(b, op)
  BY <1>1, HasGlued
<1>4. QED
  BY <1>2, <1>3 DEF Plain, Shaped

LEMMA PlainOne ==
    ASSUME NEW a \in PutOps \ {"probe", "probePony", "inject", "planCopilot", "planRepo", "prune", "wrappers"}
    PROVE  Plain(<<a>>)
<1>1. <<a>> \in Seq(PutOps) /\ Len(<<a>>) = 1 /\ <<a>>[1] = a
  OBVIOUS
<1>2. \A i \in 1 .. Len(<<a>>) : <<a>>[i] = a
  BY <1>1
<1>3. QED
  BY <1>1, <1>2 DEF Plain, Shaped, Ordered, ProbesLast, Has

LEMMA PlainNone == Plain(<<>>)
  BY EmptySeq DEF Plain, Shaped, Ordered, ProbesLast, Has

LEMMA PlainHooks ==
    ASSUME NEW host, NEW project \in BOOLEAN
    PROVE  /\ Plain(HookOps(host, project))
           /\ host = "claude-code" => Has(HookOps(host, project), "claude")
           /\ host # "claude-code" =>
                  Has(HookOps(host, project), IF project THEN "planRepo" ELSE "planCopilot")
<1>1. CASE host = "claude-code"
  <2>1. HookOps(host, project) = <<"claude">> /\ "claude" \in PutOps
    BY <1>1 DEF HookOps, PutOps
  <2>2. QED
    BY <1>1, <2>1, PlainOne, HasOne
<1>2. Plain(<<"planRepo", "swapRepo">>)
  <2> DEFINE p == <<"planRepo", "swapRepo">>
  <2>1. p \in Seq(PutOps) /\ Len(p) = 2 /\ p[1] = "planRepo" /\ p[2] = "swapRepo"
    BY DEF PutOps
  <2> HIDE DEF p
  <2>2. \A i \in 1 .. Len(p) : i = 1 \/ i = 2
    BY <2>1
  <2>3. Ordered(p)
    BY <2>1, <2>2 DEF Ordered
  <2>4. QED
    BY <2>1, <2>2, <2>3 DEF Plain, Shaped, ProbesLast, Has, p
<1>3. Plain(<<"planCopilot", "swapCopilot">>)
  <2> DEFINE p == <<"planCopilot", "swapCopilot">>
  <2>1. p \in Seq(PutOps) /\ Len(p) = 2 /\ p[1] = "planCopilot" /\ p[2] = "swapCopilot"
    BY DEF PutOps
  <2> HIDE DEF p
  <2>2. \A i \in 1 .. Len(p) : i = 1 \/ i = 2
    BY <2>1
  <2>3. Ordered(p)
    BY <2>1, <2>2 DEF Ordered
  <2>4. QED
    BY <2>1, <2>2, <2>3 DEF Plain, Shaped, ProbesLast, Has, p
<1>4. CASE host # "claude-code"
  <2>1. HookOps(host, project) = IF project THEN <<"planRepo", "swapRepo">>
                                 ELSE <<"planCopilot", "swapCopilot">>
    BY <1>4 DEF HookOps
  <2>2. QED
    BY <1>2, <1>3, <1>4, <2>1, HasTwo
<1>5. QED
  BY <1>1, <1>4

LEMMA PlainGuidance ==
    ASSUME NEW host, NEW pony \in BOOLEAN
    PROVE  /\ Plain(GuidanceOps(host, pony))
           /\ host = "claude-code" => Has(GuidanceOps(host, pony), "claudeMd")
           /\ host = "copilot-cli" => Has(GuidanceOps(host, pony), "copilotMd")
           /\ host = "vscode" => Has(GuidanceOps(host, pony), "vscodeGuide")
<1> DEFINE Easy == {"ctxMd", "pony", "noPony", "claudeMd", "copilotMd", "vscodeGuide", "lazy", "noLazy"}
<1>1. Easy \subseteq PutOps \ {"probe", "probePony", "inject", "planCopilot", "planRepo", "prune", "wrappers"}
  BY DEF PutOps
<1>2. ASSUME NEW x \in Easy, NEW y \in Easy PROVE Plain(<<x, y>>)
  <2>1. <<x, y>> \in Seq(PutOps) /\ Len(<<x, y>>) = 2 /\ \A i \in 1 .. 2 : <<x, y>>[i] \in {x, y}
    BY <1>1
  <2>2. \A i \in 1 .. 2 : <<x, y>>[i] \in Easy
    BY <2>1
  <2> HIDE DEF Easy
  <2>3. QED
    BY <1>1, <2>1, <2>2 DEF Plain, Shaped, Ordered, ProbesLast, Has
<1>3. ASSUME NEW x \in Easy, NEW y \in Easy, NEW z \in Easy PROVE Plain(<<x, y, z>>)
  <2>1. <<x, y, z>> \in Seq(PutOps) /\ Len(<<x, y, z>>) = 3 /\ \A i \in 1 .. 3 : <<x, y, z>>[i] \in {x, y, z}
    BY <1>1
  <2>2. \A i \in 1 .. 3 : <<x, y, z>>[i] \in Easy
    BY <2>1
  <2> HIDE DEF Easy
  <2>3. QED
    BY <1>1, <2>1, <2>2 DEF Plain, Shaped, Ordered, ProbesLast, Has
<1>4. CASE host = "claude-code"
  <2> DEFINE x == IF pony THEN "pony" ELSE "noPony"
  <2>1. GuidanceOps(host, pony) = <<"ctxMd", x, "claudeMd">> /\ x \in Easy
    BY <1>4 DEF GuidanceOps
  <2>2. "ctxMd" \in Easy /\ "claudeMd" \in Easy
    OBVIOUS
  <2> HIDE DEF x, Easy
  <2>3. Plain(<<"ctxMd", x, "claudeMd">>)
    BY <1>3, <2>1, <2>2
  <2>4. QED
    BY <1>4, <2>1, <2>3, HasThree
<1>5. CASE host = "copilot-cli"
  <2>1. GuidanceOps(host, pony) = <<"copilotMd">>
    BY <1>5 DEF GuidanceOps
  <2>2. QED
    BY <1>1, <1>5, <2>1, HasOne, PlainOne
<1>6. CASE host = "vscode"
  <2> DEFINE x == IF pony THEN "lazy" ELSE "noLazy"
  <2>1. GuidanceOps(host, pony) = <<"vscodeGuide", x>> /\ x \in Easy
    BY <1>6 DEF GuidanceOps
  <2>2. "vscodeGuide" \in Easy
    OBVIOUS
  <2> HIDE DEF x, Easy
  <2>3. Plain(<<"vscodeGuide", x>>)
    BY <1>2, <2>1, <2>2
  <2>4. QED
    BY <1>6, <2>1, <2>3, HasTwo
<1>7. CASE host \notin {"claude-code", "copilot-cli", "vscode"}
  <2>1. GuidanceOps(host, pony) = <<>>
    BY <1>7 DEF GuidanceOps
  <2>2. QED
    BY <1>7, <2>1, PlainNone
<1>8. QED
  BY <1>4, <1>5, <1>6, <1>7

LEMMA PlainShim == Plain(ShimOps) /\ Has(ShimOps, "manifest")
<1>1. /\ ShimOps \in Seq(PutOps) /\ Len(ShimOps) = 3
      /\ ShimOps[1] = "prune" /\ ShimOps[2] = "wrappers" /\ ShimOps[3] = "manifest"
  BY DEF ShimOps, PutOps
<1>2. Ordered(ShimOps)
  <2> SUFFICES ASSUME NEW i \in 1 .. Len(ShimOps)
               PROVE  /\ ShimOps[i] \notin {"planCopilot", "planRepo"}
                      /\ ShimOps[i] \in {"prune", "wrappers"} =>
                             \E j \in i + 1 .. Len(ShimOps) : ShimOps[j] = "manifest"
    BY DEF Ordered
  <2>1. i = 1 \/ i = 2 \/ i = 3
    BY <1>1
  <2>2. i # 3 => 3 \in i + 1 .. Len(ShimOps)
    BY <1>1, <2>1
  <2>3. QED
    BY <1>1, <2>1, <2>2
<1>3. ProbesLast(ShimOps)
  BY <1>1 DEF ProbesLast
<1>4. \A op : Has(ShimOps, op) <=> op \in {"prune", "wrappers", "manifest"}
  BY HasThree DEF ShimOps
<1>5. QED
  BY <1>1, <1>2, <1>3, <1>4 DEF Plain, Shaped

-----------------------------------------------------------------------------
(* What an installation has to do *)

\* All that makes the tiers of a host live is on the list.
Complete(s, host, plan) ==
    /\ host = "claude-code" => Has(s, "claude") /\ Has(s, "claudeMd")
    /\ host = "copilot-cli" => Has(s, plan) /\ Has(s, "copilotMd")
    /\ host = "vscode" => /\ Has(s, plan) /\ Has(s, "manifest")
                          /\ Has(s, "probe") \/ Has(s, "probePony")
Fits(s, host) ==
    /\ Shaped(s)
    /\ Has(s, "probe") \/ Has(s, "probePony") => host = "vscode"
    /\ Has(s, "inject") => host = "unknown"

LEMMA Ladder ==
    ASSUME NEW host \in Hosts, NEW project \in BOOLEAN, NEW pony \in BOOLEAN
    PROVE  /\ Fits(LadderOps(host, project, pony), host)
           /\ Complete(LadderOps(host, project, pony), host,
                       IF project THEN "planRepo" ELSE "planCopilot")
<1> DEFINE h == HookOps(host, project)
           g == GuidanceOps(host, pony)
           r == <<"record">>
           s == LadderOps(host, project, pony)
           plan == IF project THEN "planRepo" ELSE "planCopilot"
<1>1. /\ Plain(h)
      /\ host = "claude-code" => Has(h, "claude")
      /\ host # "claude-code" => Has(h, plan)
  BY PlainHooks
<1>2. /\ Plain(g)
      /\ host = "claude-code" => Has(g, "claudeMd")
      /\ host = "copilot-cli" => Has(g, "copilotMd")
  BY PlainGuidance
<1>3. Plain(r)
  BY PlainOne DEF PutOps
<1>4. \A a : Plain(a) => Shaped(a)
  BY DEF Plain
<1> HIDE DEF h, g, r
<1> SUFFICES Fits(s, host) /\ Complete(s, host, plan)
  OBVIOUS
<1> HIDE DEF plan
<1>5. CASE host \in {"claude-code", "copilot-cli"}
  <2>1. s = (h \o g) \o r
    BY <1>5 DEF LadderOps, h, g, r
  <2>2. Plain(h \o g) /\ \A op : Has(h \o g, op) <=> Has(h, op) \/ Has(g, op)
    BY <1>1, <1>2, <1>4, ShapedGlued
  <2>3. Plain((h \o g) \o r) /\ \A op : Has((h \o g) \o r, op) <=> Has(h \o g, op) \/ Has(r, op)
    BY <1>3, <1>4, <2>2, ShapedGlued
  <2> HIDE DEF s
  <2>4. Plain(s) /\ \A op : Has(h, op) \/ Has(g, op) => Has(s, op)
    BY <2>1, <2>2, <2>3
  <2>5. Fits(s, host)
    BY <2>4 DEF Plain, Fits
  <2>6. Complete(s, host, plan)
    BY <1>1, <1>2, <1>5, <2>4 DEF Complete
  <2>7. QED
    BY <2>5, <2>6
<1>6. CASE host = "vscode"
  <2> DEFINE x == IF pony THEN "probePony" ELSE "probe"
             p == <<"settings", x>>
             c == h \o ShimOps
  <2>1. s = c \o p
    BY <1>6 DEF LadderOps, h
  <2>2. Plain(c) /\ \A op : Has(c, op) <=> Has(h, op) \/ Has(ShimOps, op)
    BY <1>1, <1>4, PlainShim, ShapedGlued
  <2>3. x \in {"probe", "probePony"} /\ x \in PutOps /\ "settings" \in PutOps
    BY DEF PutOps
  <2> HIDE DEF x
  <2>4. p \in Seq(PutOps) /\ Len(p) = 2 /\ p[1] = "settings" /\ p[2] = x
    BY <2>3
  <2>5. Shaped(p)
    <3> HIDE DEF p
    <3>1. \A i \in 1 .. Len(p) : p[i] = "settings" \/ (p[i] = x /\ i = Len(p))
      BY <2>4
    <3>2. QED
      BY <2>3, <2>4, <3>1 DEF Shaped, Ordered, ProbesLast
  <2>6. \A op : Has(p, op) <=> op \in {"settings", x}
    BY HasTwo
  <2> HIDE DEF p, c
  <2>7. Shaped(c \o p) /\ \A op : Has(c \o p, op) <=> Has(c, op) \/ Has(p, op)
    BY <2>2, <2>5, ShapedGlued
  <2> HIDE DEF s
  <2>8. ~Has(s, "inject")
    BY <2>1, <2>2, <2>3, <2>6, <2>7 DEF Plain
  <2>9. Fits(s, host)
    BY <1>6, <2>1, <2>7, <2>8 DEF Fits
  <2>10. Complete(s, host, plan)
    BY <1>1, <1>6, <2>1, <2>2, <2>3, <2>6, <2>7, PlainShim DEF Complete
  <2>11. QED
    BY <2>9, <2>10
<1>7. CASE host = "unknown"
  <2> DEFINE p == <<"inject", "record">>
  <2>1. s = p
    BY <1>7 DEF LadderOps
  <2>2. p \in Seq(PutOps) /\ Len(p) = 2 /\ p[1] = "inject" /\ p[2] = "record"
    BY DEF PutOps
  <2>3. \A op : Has(p, op) <=> op \in {"inject", "record"}
    BY HasTwo
  <2> HIDE DEF p
  <2>4. \A i \in 1 .. Len(p) : p[i] \in {"inject", "record"}
    BY <2>2
  <2>5. Shaped(p)
    BY <2>2, <2>4 DEF Shaped, Ordered, ProbesLast
  <2>6. Fits(s, host)
    BY <1>7, <2>1, <2>3, <2>5 DEF Fits
  <2>7. Complete(s, host, plan)
    BY <1>7 DEF Complete
  <2>8. QED
    BY <2>6, <2>7
<1>8. QED
  BY <1>5, <1>6, <1>7 DEF Hosts

LEMMA Installs ==
    ASSUME NEW host \in Hosts, NEW auto \in BOOLEAN, NEW project \in BOOLEAN, NEW pony \in BOOLEAN
    PROVE  /\ Fits(InstallOps(host, auto, project, pony), host)
           /\ Complete(InstallOps(host, auto, project, pony), host,
                       IF project THEN "planRepo" ELSE "planCopilot")
<1> DEFINE os == Others(host)
           a == IF project THEN <<"repoMd">> ELSE <<>>
           b == IF Len(os) > 0 THEN HookOps(os[1], project) ELSE <<>>
           c == IF Len(os) > 1 THEN HookOps(os[2], project) ELSE <<>>
           d == IF ~auto THEN <<>> ELSE b \o c
           e == LadderOps(host, project, pony)
           s == InstallOps(host, auto, project, pony)
           plan == IF project THEN "planRepo" ELSE "planCopilot"
<1>1. s = (a \o d) \o e
  BY DEF InstallOps
<1>2. Plain(a)
  <2>1. Plain(<<"repoMd">>)
    BY PlainOne DEF PutOps
  <2>2. QED
    BY <2>1, PlainNone
<1>3. Plain(b) /\ Plain(c)
  BY PlainHooks, PlainNone
<1>4. \A x : Plain(x) => Shaped(x)
  BY DEF Plain
<1>5. Fits(e, host) /\ Complete(e, host, plan)
  BY Ladder
<1> HIDE DEF os, a, b, c, e, plan
<1>6. Plain(d)
  BY <1>3, <1>4, PlainNone, ShapedGlued
<1> HIDE DEF d
<1>7. Plain(a \o d)
  BY <1>2, <1>4, <1>6, ShapedGlued
<1>8. Shaped((a \o d) \o e) /\ \A op : Has((a \o d) \o e, op) <=> Has(a \o d, op) \/ Has(e, op)
  BY <1>5, <1>7, ShapedGlued DEF Fits
<1> HIDE DEF s
<1>9. /\ Shaped(s)
      /\ \A op : Has(e, op) => Has(s, op)
      /\ \A op \in {"probe", "probePony", "inject"} : Has(s, op) => Has(e, op)
  BY <1>1, <1>7, <1>8 DEF Plain
<1>10. Fits(s, host)
  BY <1>5, <1>9 DEF Fits
<1>11. Complete(s, host, plan)
  BY <1>5, <1>9 DEF Complete
<1>12. QED
  BY <1>10, <1>11 DEF s, plan

-----------------------------------------------------------------------------
(* Steps of a command *)

LEMMA Kinds ==
    ASSUME NEW cmd, NEW op \in OpsOf(cmd)
    PROVE  /\ op \in PutOps => cmd \notin {"uninstall", "uninstallProject"}
           /\ op \in UserRemovals => cmd = "uninstall"
           /\ op \in RepoRemovals => cmd = "uninstallProject"
<1>1. /\ PutOps \cap UserRemovals = {} /\ PutOps \cap RepoRemovals = {}
      /\ UserRemovals \cap RepoRemovals = {}
  BY DEF PutOps, UserRemovals, RepoRemovals
<1>2. QED
  BY <1>1 DEF OpsOf

LEMMA Advances ==
    ASSUME JobInv, NEW ops, Next1(ops), GoesOn, env'.code = env.code
    PROVE  /\ JobInv'
           /\ job'.cmd = job.cmd /\ job'.host = job.host /\ job'.todo = Tail(job.todo)
           /\ job.todo # <<>> /\ Head(job.todo) \in ops /\ Head(job.todo) \in OpsOf(job.cmd)
           /\ \A op : Has(job.todo, op) <=> op = Head(job.todo) \/ Has(job'.todo, op)
<1> DEFINE s == job.todo
           S == OpsOf(job.cmd)
<1>1. /\ s \in Seq(S) /\ s # <<>> /\ Head(s) \in ops /\ Ordered(s) /\ ProbesLast(s)
      /\ job.cmd \in Commands /\ job.host \in Hosts \cup {"none"}
      /\ job \in [cmd : Commands, host : Hosts \cup {"none"}, todo : Seq(S)]
  BY DEF JobInv, Next1
<1>2. job' = [job EXCEPT !.todo = Tail(s)]
  BY DEF GoesOn
<1>3. /\ Head(s) \in S /\ Tail(s) \in Seq(S) /\ Ordered(Tail(s)) /\ ProbesLast(Tail(s))
      /\ \A op : Has(s, op) <=> op = Head(s) \/ Has(Tail(s), op)
  BY <1>1, TailHas
<1> HIDE DEF s
<1>4. job'.cmd = job.cmd /\ job'.host = job.host /\ job'.todo = Tail(s)
  BY <1>1, <1>2
<1>5. job' \in [cmd : Commands, host : Hosts \cup {"none"}, todo : Seq(S)]
  BY <1>1, <1>2, <1>3
<1>6. OpsOf(job'.cmd) = S
  BY <1>4
<1>7. /\ Has(s, "probe") \/ Has(s, "probePony") => job.host = "vscode"
      /\ Has(s, "inject") => job.host = "vscode" \/ (job.host = "unknown" /\ ~env.code)
  BY DEF JobInv, s
<1> HIDE DEF S
<1>8. JobInv'
  BY <1>3, <1>4, <1>5, <1>6, <1>7 DEF JobInv
<1>9. QED
  BY <1>1, <1>3, <1>4, <1>8 DEF s, S

LEMMA Rests ==
    ASSUME job' = Quiet, env'.code = env.code
    PROVE  JobInv' /\ Removed' /\ Put'
<1>1. /\ job'.cmd = "none" /\ job'.host = "unknown" /\ job'.todo = <<>>
      /\ job' \in [cmd : {"none"}, host : {"unknown"}, todo : {<<>>}]
  BY DEF Quiet
<1>2. <<>> \in Seq(OpsOf(job'.cmd)) /\ Len(<<>>) = 0
  BY EmptySeq
<1>3. /\ job' \in [cmd : Commands, host : Hosts \cup {"none"}, todo : Seq(OpsOf(job'.cmd))]
  BY <1>1, <1>2 DEF Commands, Hosts
<1>4. Ordered(job'.todo) /\ ProbesLast(job'.todo) /\ \A op : ~Has(job'.todo, op)
  BY <1>1, PlainNone, HasNone DEF Plain, Shaped
<1>5. QED
  BY <1>1, <1>3, <1>4 DEF JobInv, Removed, Put

\* One file is written.
LEMMA Overwritten ==
    ASSUME TextInv, NEW f \in TextFiles, NEW w, OneOf(w), Wrote(f, w)
    PROVE  TextInv' /\ text'[f] = w /\ \A g \in TextFiles : g # f => text'[g] = text[g]
<1>1. text = [g \in TextFiles |-> text[g]] /\ \A g \in TextFiles : OneOf(text[g])
  BY DEF TextInv, OneOf
<1>2. text' = [text EXCEPT ![f] = w]
  BY DEF Wrote
<1>3. text' = [g \in TextFiles |-> IF g = f THEN w ELSE text[g]]
  BY <1>1, <1>2
<1>4. text'[f] = w /\ \A g \in TextFiles : g # f => text'[g] = text[g]
  BY <1>3
<1>5. text' = [g \in TextFiles |-> text'[g]]
  BY <1>3
<1>6. \A g \in TextFiles : OneOf(text'[g])
  BY <1>1, <1>4
<1>7. QED
  BY <1>4, <1>5, <1>6 DEF TextInv, OneOf

LEMMA Written ==
    ASSUME TextInv, NEW f \in TextFiles, NEW w, OneOf(w), Kept(w, text[f]), Wrote(f, w)
    PROVE  /\ TextInv' /\ text'[f] = w
           /\ \A g \in TextFiles : g # f => text'[g] = text[g]
           /\ \A g \in TextFiles : Kept(text'[g], text[g])
<1>1. TextInv' /\ text'[f] = w /\ \A g \in TextFiles : g # f => text'[g] = text[g]
  BY Overwritten
<1>2. \A g \in TextFiles : Kept(text'[g], text[g])
  BY <1>1 DEF Kept
<1>3. QED
  BY <1>1, <1>2

\* A step that puts something in place takes nothing away that is.
LEMMA PutStep ==
    ASSUME IInv, NEW ops, Next1(ops), ops \subseteq PutOps \ {"planCopilot", "planRepo", "probe", "probePony"},
           GoesOn, env'.code = env.code, Elsewhere => Elsewhere',
           "ours" \in hooks.claude \/ "claude" = Head(job.todo) => "ours" \in hooks'.claude,
           hooks.copilot # "absent" \/ "swapCopilot" = Head(job.todo) => hooks'.copilot # "absent",
           hooks.repo # "absent" \/ "swapRepo" = Head(job.todo) => hooks'.repo # "absent",
           shim = "full" \/ "manifest" = Head(job.todo) =>
               shim' = "full" \/ Head(job.todo) \in {"prune", "wrappers"},
           HasGuidance("claude-code") \/ "claudeMd" = Head(job.todo) => HasGuidance("claude-code")',
           HasGuidance("copilot-cli") \/ "copilotMd" = Head(job.todo) => HasGuidance("copilot-cli")',
           HasGuidance("vscode") \/ "vscodeGuide" = Head(job.todo) => HasGuidance("vscode")'
    PROVE  JobInv' /\ Removed' /\ Put'
<1> DEFINE op == Head(job.todo)
<1>1. /\ JobInv'
      /\ job'.cmd = job.cmd /\ job'.host = job.host /\ job'.todo = Tail(job.todo)
      /\ job.todo # <<>> /\ op \in ops /\ op \in OpsOf(job.cmd)
      /\ \A x : Has(job.todo, x) <=> x = op \/ Has(job'.todo, x)
  BY Advances DEF IInv
<1>2. op \in PutOps /\ op \notin {"planCopilot", "planRepo", "probe", "probePony"}
  BY <1>1
<1>3. Removed'
  BY <1>1, <1>2, Kinds DEF Removed
<1>4. op \in {"prune", "wrappers"} => Has(job'.todo, "manifest")
  BY <1>1, TailHas DEF IInv, JobInv
<1>5. ~Idles("copilot-cli") /\ ~Idles("vscode")
  BY <1>1 DEF Idles
<1>6. Put
  BY DEF IInv
<1> HIDE DEF op
<1>7. ASSUME job.cmd \in Puts, job.host = "claude-code"
      PROVE  /\ Has(job'.todo, "claude") \/ "ours" \in hooks'.claude
             /\ Has(job'.todo, "claudeMd") \/ HasGuidance("claude-code")' \/ Elsewhere'
  BY <1>1, <1>6, <1>7 DEF Put, op
<1>8. ASSUME job.cmd \in Puts, job.host \in {"copilot-cli", "vscode"} PROVE HookPut'
  <2>1. HookPut
    BY <1>6, <1>8 DEF Put
  <2>2. QED
    BY <1>1, <1>2, <2>1 DEF HookPut, HookFile, PlanOp, SwapOp, op
<1>9. ASSUME job.cmd \in Puts, job.host = "copilot-cli"
      PROVE  Has(job'.todo, "copilotMd") \/ HasGuidance("copilot-cli")'
  BY <1>1, <1>5, <1>6, <1>9 DEF Put, op
<1>10. ASSUME job.cmd \in Puts, job.host = "vscode"
       PROVE  /\ Has(job'.todo, "manifest") \/ shim' = "full"
              /\ \/ Has(job'.todo, "probe") \/ Has(job'.todo, "probePony")
                 \/ Has(job'.todo, "vscodeGuide") \/ HasGuidance("vscode")'
  <2>1. Has(job'.todo, "manifest") \/ shim' = "full"
    BY <1>1, <1>4, <1>6, <1>10 DEF Put, op
  <2>2. QED
    BY <1>1, <1>2, <1>5, <1>6, <1>10, <2>1 DEF Put, op
<1>11. Put'
  BY <1>1, <1>7, <1>8, <1>9, <1>10 DEF Put
<1>12. QED
  BY <1>1, <1>3, <1>11

\* A removal brings nothing back.
LEMMA RemovalStep ==
    ASSUME IInv, NEW ops, Next1(ops), ops \subseteq UserRemovals \cup RepoRemovals,
           GoesOn, UNCHANGED env,
           "ours" \notin hooks.claude \/ Head(job.todo) = "unclaude" => "ours" \notin hooks'.claude,
           ~Managed(hooks.copilot) \/ Head(job.todo) = "uncopilot" => ~Managed(hooks'.copilot),
           shim = "absent" \/ Head(job.todo) = "unshim" => shim' = "absent",
           NoBlocks(text["rc"]) \/ Head(job.todo) = "unrc" => NoBlocks(text'["rc"]),
           "shim" \notin settings \/ Head(job.todo) = "unsettings" => "shim" \notin settings',
           NoBlocks(text["homeMd"]) => NoBlocks(text'["homeMd"]),
           Head(job.todo) = "uninject" => NoBlocks(text'["homeMd"]) \/ Elsewhere,
           NoBlocks(text["claudeMd"]) \/ Head(job.todo) = "unguideClaude" => NoBlocks(text'["claudeMd"]),
           NoBlocks(text["copilotMd"]) \/ Head(job.todo) = "unguideCopilot" => NoBlocks(text'["copilotMd"]),
           owned' \subseteq owned,
           Head(job.todo) = "unguideClaude" => owned' \cap {"CTX.md", "PONYTAIL.md"} = {},
           Head(job.todo) = "unguideVscode" => owned' \cap {"guide.vscode", "lazy.vscode"} = {}
    PROVE  JobInv' /\ Removed' /\ Put'
<1> DEFINE op == Head(job.todo)
<1>1. /\ JobInv'
      /\ job'.cmd = job.cmd /\ job'.host = job.host /\ job'.todo = Tail(job.todo)
      /\ job.todo # <<>> /\ op \in ops /\ op \in OpsOf(job.cmd)
      /\ \A x : Has(job.todo, x) <=> x = op \/ Has(job'.todo, x)
  BY Advances DEF IInv
<1>2. job.cmd \in {"uninstall", "uninstallProject"}
  BY <1>1, Kinds
<1>3. Put'
  BY <1>1, <1>2 DEF Put, Puts
<1>4. Elsewhere' <=> Elsewhere
  BY DEF Elsewhere
<1>5. Removed
  BY DEF IInv
<1>6. Removed'
  <2> SUFFICES ASSUME job'.cmd = "uninstall"
               PROVE  /\ Has(job'.todo, "unclaude") \/ "ours" \notin hooks'.claude
                      /\ Has(job'.todo, "uncopilot") \/ ~Managed(hooks'.copilot)
                      /\ Has(job'.todo, "unshim") \/ shim' = "absent"
                      /\ Has(job'.todo, "unrc") \/ NoBlocks(text'["rc"])
                      /\ Has(job'.todo, "unsettings") \/ "shim" \notin settings'
                      /\ Has(job'.todo, "uninject") \/ NoBlocks(text'["homeMd"]) \/ Elsewhere'
                      /\ Has(job'.todo, "unguideClaude") \/ (NoBlocks(text'["claudeMd"]) /\ owned' \cap {"CTX.md", "PONYTAIL.md"} = {})
                      /\ Has(job'.todo, "unguideCopilot") \/ NoBlocks(text'["copilotMd"])
                      /\ Has(job'.todo, "unguideVscode") \/ owned' \cap {"guide.vscode", "lazy.vscode"} = {}
    BY DEF Removed
  <2>1. job.cmd = "uninstall"
    BY <1>1
  <2>2. /\ Has(job'.todo, "unclaude") \/ "ours" \notin hooks'.claude
        /\ Has(job'.todo, "uncopilot") \/ ~Managed(hooks'.copilot)
        /\ Has(job'.todo, "unshim") \/ shim' = "absent"
        /\ Has(job'.todo, "unrc") \/ NoBlocks(text'["rc"])
        /\ Has(job'.todo, "unsettings") \/ "shim" \notin settings'
    BY <1>1, <1>5, <2>1 DEF Removed
  <2>3. /\ Has(job'.todo, "uninject") \/ NoBlocks(text'["homeMd"]) \/ Elsewhere'
        /\ Has(job'.todo, "unguideCopilot") \/ NoBlocks(text'["copilotMd"])
    BY <1>1, <1>4, <1>5, <2>1 DEF Removed
  <2>4. /\ Has(job'.todo, "unguideClaude") \/ (NoBlocks(text'["claudeMd"]) /\ owned' \cap {"CTX.md", "PONYTAIL.md"} = {})
        /\ Has(job'.todo, "unguideVscode") \/ owned' \cap {"guide.vscode", "lazy.vscode"} = {}
    BY <1>1, <1>5, <2>1 DEF Removed
  <2>5. QED
    BY <2>2, <2>3, <2>4
<1>7. QED
  BY <1>1, <1>3, <1>6

LEMMA DirMade ==
    ASSUME env \in Env, NEW b \in BOOLEAN, CopilotDir(b)
    PROVE  env' \in Env /\ env'.code = env.code /\ (Elsewhere => Elsewhere')
<1>1. /\ env'.live = env.live /\ env'.copilot = env.copilot /\ env'.code = env.code
      /\ env'.copilotDir = (env.copilotDir \/ b)
      /\ env' = [env EXCEPT !.copilotDir = env.copilotDir \/ b]
      /\ env.copilotDir \in BOOLEAN
  BY DEF CopilotDir, Env
<1>2. (env.copilotDir \/ b) \in BOOLEAN
  OBVIOUS
<1>3. env' \in Env
  BY <1>1, <1>2 DEF Env
<1>4. Elsewhere => Elsewhere'
  BY <1>1 DEF Elsewhere
<1>5. QED
  BY <1>1, <1>3, <1>4

\* What a step that only writes texts owes the user.
LEMMA OnlyTexts ==
    ASSUME \A f \in TextFiles : Kept(text'[f], text[f]), UNCHANGED <<hooks, settings, backup>>
    PROVE  KeepsUsers
  BY DEF KeepsUsers, Kept

LEMMA TextsAlone ==
    ASSUME TextInv, UNCHANGED text
    PROVE  TextInv' /\ \A f \in TextFiles : Kept(text'[f], text[f])
  BY DEF TextInv, Kept

LEMMA TextThere ==
    ASSUME TextInv, NEW f \in TextFiles PROVE OneOf(text[f]) /\ (text[f] # Absent => Laid(text[f]))
  BY DEF TextInv, OneOf

LEMMA LaidThere == ASSUME NEW t, Laid(t) PROVE t # Absent /\ OneOf(t)
  BY AbsentApart DEF Laid, OneOf

LEMMA WriteTextStep == ASSUME IInv, WriteText PROVE IInv' /\ KeepsUsers
<1> DEFINE f == Head(job.todo)
           w == CASE f = "rc" -> RcBlock(text[f])
                  [] f = "repoMd" -> Inject(text[f], "prefix")
                  [] OTHER -> Inject(text[f], "guide")
<1>1. /\ TextInv /\ FileInv /\ JobInv /\ HomeInv
      /\ Next1({"rc", "claudeMd", "copilotMd", "repoMd"}) /\ GoesOn
      /\ f \in {"rc", "claudeMd", "copilotMd", "repoMd"}
      /\ Wrote(f, w) /\ CopilotDir(f = "copilotMd")
      /\ UNCHANGED <<recorded, commands, userEdits, hooks, settings, backup, owned, shim>>
  BY DEF IInv, WriteText, Next1, Rest
<1>2. f \in TextFiles /\ f # "homeMd"
  BY <1>1 DEF TextFiles
<1>3. OneOf(text[f])
  BY <1>1, <1>2, TextThere
<1>4. Laid(w) /\ Kept(w, text[f])
  <2>1. Laid(RcBlock(text[f])) /\ Kept(RcBlock(text[f]), text[f])
    BY <1>3, RcBlockLays
  <2>2. \A b \in Blocks : Laid(Inject(text[f], b)) /\ Kept(Inject(text[f], b), text[f])
    BY <1>3, InjectLays
  <2>3. "prefix" \in Blocks /\ "guide" \in Blocks
    BY Sorts
  <2> HIDE DEF f
  <2>4. QED
    BY <2>1, <2>2, <2>3
<1>5. env' \in Env /\ env'.code = env.code /\ (Elsewhere => Elsewhere')
  <2>1. (f = "copilotMd") \in BOOLEAN /\ env \in Env
    BY <1>1 DEF FileInv
  <2>2. QED
    BY <1>1, <2>1, DirMade
<1> HIDE DEF f, w
<1>6. /\ TextInv' /\ text'[f] = w
      /\ \A g \in TextFiles : g # f => text'[g] = text[g]
      /\ \A g \in TextFiles : Kept(text'[g], text[g])
  BY <1>1, <1>2, <1>4, LaidThere, Written
<1>7. FileInv'
  BY <1>1, <1>5 DEF FileInv
<1>8. HomeInv'
  <2>1. text'["homeMd"] = text["homeMd"]
    BY <1>2, <1>6 DEF TextFiles
  <2>2. QED
    BY <1>1, <1>5, <2>1 DEF HomeInv
<1>9. text'[f] # Absent
  BY <1>4, <1>6, LaidThere
<1>10. /\ HasGuidance("claude-code") \/ f = "claudeMd" => HasGuidance("claude-code")'
       /\ HasGuidance("copilot-cli") \/ f = "copilotMd" => HasGuidance("copilot-cli")'
       /\ HasGuidance("vscode") => HasGuidance("vscode")'
  <2>1. /\ text["claudeMd"] # Absent \/ f = "claudeMd" => text'["claudeMd"] # Absent
        /\ text["copilotMd"] # Absent \/ f = "copilotMd" => text'["copilotMd"] # Absent
    BY <1>6, <1>9 DEF TextFiles
  <2>2. QED
    BY <1>1, <2>1 DEF HasGuidance
<1>11. JobInv' /\ Removed' /\ Put'
  <2>1. {"rc", "claudeMd", "copilotMd", "repoMd"} \subseteq PutOps \ {"planCopilot", "planRepo", "probe", "probePony"}
    BY DEF PutOps
  <2>2. Head(job.todo) \notin {"claude", "swapCopilot", "swapRepo", "manifest", "vscodeGuide"}
    BY <1>1 DEF f
  <2>3. /\ "ours" \in hooks.claude \/ "claude" = Head(job.todo) => "ours" \in hooks'.claude
        /\ hooks.copilot # "absent" \/ "swapCopilot" = Head(job.todo) => hooks'.copilot # "absent"
        /\ hooks.repo # "absent" \/ "swapRepo" = Head(job.todo) => hooks'.repo # "absent"
        /\ shim = "full" \/ "manifest" = Head(job.todo) =>
               shim' = "full" \/ Head(job.todo) \in {"prune", "wrappers"}
        /\ HasGuidance("claude-code") \/ "claudeMd" = Head(job.todo) => HasGuidance("claude-code")'
        /\ HasGuidance("copilot-cli") \/ "copilotMd" = Head(job.todo) => HasGuidance("copilot-cli")'
        /\ HasGuidance("vscode") \/ "vscodeGuide" = Head(job.todo) => HasGuidance("vscode")'
    BY <1>1, <1>10, <2>2 DEF f
  <2>4. QED
    BY <1>1, <1>5, <2>1, <2>3, PutStep
<1>12. KeepsUsers
  BY <1>1, <1>6, OnlyTexts
<1>13. QED
  BY <1>6, <1>7, <1>8, <1>11, <1>12 DEF IInv

LEMMA WriteInjectionStep == ASSUME IInv, WriteInjection PROVE IInv' /\ KeepsUsers
<1> DEFINE f == InjectionFile(job.host)
<1>1. /\ TextInv /\ FileInv /\ JobInv /\ HomeInv
      /\ Next1({"inject"}) /\ GoesOn /\ Head(job.todo) = "inject"
      /\ IF f \in OwnedFiles THEN owned' = owned \cup {f} /\ UNCHANGED text
         ELSE Wrote(f, Inject(text[f], "prefix")) /\ UNCHANGED owned
      /\ CopilotDir(job.host = "vscode")
      /\ UNCHANGED <<recorded, commands, userEdits, hooks, settings, backup, shim>>
  BY DEF IInv, WriteInjection, Next1, Rest
<1>2. Has(job.todo, "inject")
  <2>1. job.todo \in Seq(OpsOf(job.cmd)) /\ job.todo # <<>>
    BY <1>1 DEF JobInv, Next1
  <2>2. QED
    BY <1>1, <2>1, TailHas
<1>3. job.host = "vscode" \/ (job.host = "unknown" /\ ~env.code)
  BY <1>1, <1>2 DEF JobInv
<1>4. env' \in Env /\ env'.code = env.code /\ (Elsewhere => Elsewhere')
  <2>1. (job.host = "vscode") \in BOOLEAN /\ env \in Env
    BY <1>1 DEF FileInv
  <2>2. QED
    BY <1>1, <2>1, DirMade
<1>5. /\ TextInv' /\ HomeInv' /\ \A g \in TextFiles : Kept(text'[g], text[g])
      /\ owned' \subseteq OwnedFiles /\ owned \subseteq owned'
      /\ text'["claudeMd"] = text["claudeMd"] /\ text'["copilotMd"] = text["copilotMd"]
  <2>1. CASE job.host = "vscode"
    <3>1. f = "prefix.vscode" /\ owned' = owned \cup {f} /\ UNCHANGED text /\ f \in OwnedFiles
      BY <1>1, <2>1 DEF InjectionFile, OwnedFiles
    <3>2. TextInv' /\ \A g \in TextFiles : Kept(text'[g], text[g])
      BY <1>1, <3>1, TextsAlone
    <3>3. HomeInv'
      BY <1>1, <1>4, <3>1 DEF HomeInv
    <3>4. owned' \subseteq OwnedFiles /\ owned \subseteq owned'
      BY <1>1, <3>1 DEF FileInv
    <3> HIDE DEF f
    <3>5. QED
      BY <3>1, <3>2, <3>3, <3>4
  <2>2. CASE job.host = "unknown"
    <3>1. f = "homeMd" /\ f \in TextFiles /\ ~env.code
      BY <1>3, <2>2 DEF InjectionFile, TextFiles
    <3>2. Wrote(f, Inject(text[f], "prefix")) /\ UNCHANGED owned
      BY <1>1, <3>1 DEF OwnedFiles
    <3>3. OneOf(text[f]) /\ "prefix" \in Blocks
      BY <1>1, <3>1, TextThere, Sorts
    <3>4. Laid(Inject(text[f], "prefix")) /\ Kept(Inject(text[f], "prefix"), text[f])
      BY <3>3, InjectLays
    <3> HIDE DEF f
    <3>5. /\ TextInv'
          /\ \A g \in TextFiles : g # f => text'[g] = text[g]
          /\ \A g \in TextFiles : Kept(text'[g], text[g])
      BY <1>1, <3>1, <3>2, <3>4, LaidThere, Written
    <3>6. HomeInv'
      BY <1>4, <3>1 DEF HomeInv
    <3>7. text'["claudeMd"] = text["claudeMd"] /\ text'["copilotMd"] = text["copilotMd"]
      BY <3>1, <3>5 DEF TextFiles
    <3>8. owned' \subseteq OwnedFiles /\ owned \subseteq owned'
      BY <1>1, <3>2 DEF FileInv
    <3>9. QED
      BY <3>5, <3>6, <3>7, <3>8
  <2>3. QED
    BY <1>3, <2>1, <2>2
<1>6. FileInv'
  BY <1>1, <1>4, <1>5 DEF FileInv
<1>7. JobInv' /\ Removed' /\ Put'
  <2>1. {"inject"} \subseteq PutOps \ {"planCopilot", "planRepo", "probe", "probePony"}
    BY DEF PutOps
  <2>2. /\ HasGuidance("claude-code") => HasGuidance("claude-code")'
        /\ HasGuidance("copilot-cli") => HasGuidance("copilot-cli")'
        /\ HasGuidance("vscode") => HasGuidance("vscode")'
    BY <1>5 DEF HasGuidance
  <2>3. QED
    BY <1>1, <1>4, <2>1, <2>2, PutStep
<1>8. KeepsUsers
  BY <1>1, <1>5, OnlyTexts
<1>9. QED
  BY <1>5, <1>6, <1>7, <1>8 DEF IInv

LEMMA WriteOwnedStep == ASSUME IInv, WriteOwned PROVE IInv' /\ KeepsUsers
<1> DEFINE op == Head(job.todo)
           Ops == {"ctxMd", "pony", "noPony", "vscodeGuide", "lazy", "noLazy"}
<1>1. /\ TextInv /\ FileInv /\ JobInv /\ HomeInv
      /\ Next1(Ops) /\ GoesOn /\ op \in Ops
      /\ owned' = CASE op = "ctxMd" -> owned \cup {"CTX.md"}
                    [] op = "pony" -> owned \cup {"PONYTAIL.md"}
                    [] op = "noPony" -> owned \ {"PONYTAIL.md"}
                    [] op = "vscodeGuide" -> owned \cup {"guide.vscode"}
                    [] op = "lazy" -> owned \cup {"lazy.vscode"}
                    [] OTHER -> owned \ {"lazy.vscode"}
      /\ CopilotDir(op = "vscodeGuide")
      /\ UNCHANGED <<recorded, commands, userEdits, text, hooks, settings, backup, shim>>
  BY DEF IInv, WriteOwned, Next1, Rest
<1>2. env' \in Env /\ env'.code = env.code /\ (Elsewhere => Elsewhere')
  <2>1. (op = "vscodeGuide") \in BOOLEAN /\ env \in Env
    BY <1>1 DEF FileInv
  <2>2. QED
    BY <1>1, <2>1, DirMade
<1> HIDE DEF op
<1>3. /\ owned' \subseteq OwnedFiles
      /\ "CTX.md" \in owned => "CTX.md" \in owned'
      /\ "guide.vscode" \in owned \/ op = "vscodeGuide" => "guide.vscode" \in owned'
  BY <1>1 DEF FileInv, OwnedFiles
<1>4. TextInv' /\ \A f \in TextFiles : Kept(text'[f], text[f])
  BY <1>1, TextsAlone
<1>5. FileInv'
  BY <1>1, <1>2, <1>3 DEF FileInv
<1>6. HomeInv'
  BY <1>1, <1>2 DEF HomeInv
<1>7. JobInv' /\ Removed' /\ Put'
  <2>1. Ops \subseteq PutOps \ {"planCopilot", "planRepo", "probe", "probePony"}
    BY DEF PutOps
  <2>2. /\ HasGuidance("claude-code") => HasGuidance("claude-code")'
        /\ HasGuidance("copilot-cli") => HasGuidance("copilot-cli")'
        /\ HasGuidance("vscode") \/ "vscodeGuide" = op => HasGuidance("vscode")'
    BY <1>1, <1>3 DEF HasGuidance
  <2>3. op \notin {"claude", "swapCopilot", "manifest", "claudeMd", "copilotMd"}
    BY <1>1
  <2>4. QED
    BY <1>1, <1>2, <2>1, <2>2, <2>3, PutStep DEF op
<1>8. KeepsUsers
  BY <1>1, <1>4, OnlyTexts
<1>9. QED
  BY <1>4, <1>5, <1>6, <1>7, <1>8 DEF IInv

\* A step that leaves all files alone but the hooks.
LEMMA HooksOnly ==
    ASSUME IInv, UNCHANGED <<text, settings, backup, owned, shim, recorded, commands, userEdits>>,
           hooks' \in [claude : {NoFile, Bad} \cup SUBSET ClaudeEntries, copilot : Configs,
                       repo : Configs],
           env' \in Env, env'.code = env.code,
           "user" \in hooks.claude => "user" \in hooks'.claude,
           hooks.claude = Bad => hooks'.claude = Bad,
           hooks.copilot = "foreign" => hooks'.copilot = "foreign",
           hooks.repo = "foreign" => hooks'.repo = "foreign"
    PROVE  TextInv' /\ FileInv' /\ HomeInv' /\ KeepsUsers
<1>1. TextInv' /\ \A f \in TextFiles : Kept(text'[f], text[f])
  BY TextsAlone DEF IInv
<1>2. FileInv' /\ HomeInv'
  BY DEF IInv, FileInv, HomeInv
<1>3. KeepsUsers
  BY <1>1 DEF KeepsUsers, Kept
<1>4. QED
  BY <1>1, <1>2, <1>3

LEMMA GuidanceAlone ==
    ASSUME UNCHANGED <<text, owned>>
    PROVE  \A h \in {"claude-code", "copilot-cli", "vscode"} : HasGuidance(h)' <=> HasGuidance(h)
  BY DEF HasGuidance

LEMMA WriteClaudeHookStep == ASSUME IInv, WriteClaudeHook PROVE IInv' /\ KeepsUsers
<1>1. /\ FileInv /\ JobInv
      /\ Next1({"claude"})
      /\ IF hooks.claude = Bad THEN job' = Quiet /\ UNCHANGED hooks
         ELSE GoesOn /\ hooks' = [hooks EXCEPT !.claude = ClaudeHook(@)]
      /\ UNCHANGED <<recorded, commands, userEdits, text, settings, backup, owned, shim, env>>
  BY DEF IInv, WriteClaudeHook, Rest
<1>2. /\ hooks \in [claude : {NoFile, Bad} \cup SUBSET ClaudeEntries, copilot : Configs, repo : Configs]
      /\ env' \in Env /\ env'.code = env.code
  BY <1>1 DEF FileInv
<1>3. CASE hooks.claude = Bad
  <2>1. job' = Quiet /\ UNCHANGED hooks
    BY <1>1, <1>3
  <2>2. TextInv' /\ FileInv' /\ HomeInv' /\ KeepsUsers
    BY <1>1, <1>2, <2>1, HooksOnly
  <2>3. QED
    BY <1>2, <2>1, <2>2, Rests DEF IInv
<1>4. CASE hooks.claude # Bad
  <2>1. GoesOn /\ hooks' = [hooks EXCEPT !.claude = ClaudeHook(hooks.claude)]
    BY <1>1, <1>4
  <2>2. /\ ClaudeHook(hooks.claude) \in SUBSET ClaudeEntries
        /\ "ours" \in ClaudeHook(hooks.claude)
        /\ "user" \in hooks.claude => "user" \in ClaudeHook(hooks.claude)
    <3>1. hooks.claude = NoFile \/ hooks.claude \subseteq ClaudeEntries
      BY <1>2, <1>4
    <3>2. QED
      BY <3>1 DEF ClaudeHook, ClaudeEntries, NoFile
  <2>3. /\ hooks'.claude = ClaudeHook(hooks.claude)
        /\ hooks'.copilot = hooks.copilot /\ hooks'.repo = hooks.repo
        /\ hooks' \in [claude : {NoFile, Bad} \cup SUBSET ClaudeEntries, copilot : Configs, repo : Configs]
    BY <1>2, <2>1, <2>2
  <2>4. TextInv' /\ FileInv' /\ HomeInv' /\ KeepsUsers
    BY <1>1, <1>2, <1>4, <2>2, <2>3, HooksOnly
  <2>5. JobInv' /\ Removed' /\ Put'
    <3>1. {"claude"} \subseteq PutOps \ {"planCopilot", "planRepo", "probe", "probePony"} /\ Head(job.todo) = "claude"
      BY <1>1 DEF PutOps, Next1
    <3>2. Elsewhere => Elsewhere'
      BY <1>1 DEF Elsewhere
    <3>3. QED
      BY <1>1, <1>2, <2>1, <2>2, <2>3, <3>1, <3>2, GuidanceAlone, PutStep
  <2>6. QED
    BY <2>4, <2>5 DEF IInv
<1>5. QED
  BY <1>3, <1>4

LEMMA SwapHookStep ==
    ASSUME IInv, NEW d \in {"copilot", "repo"}, NEW swap,
           swap = IF d = "copilot" THEN "swapCopilot" ELSE "swapRepo",
           SwapHook(d, swap)
    PROVE  IInv' /\ KeepsUsers
<1>1. /\ FileInv /\ JobInv
      /\ Next1({swap}) /\ GoesOn
      /\ hooks' = [hooks EXCEPT ![d] = Swapped(hooks[d])]
      /\ CopilotDir(d = "copilot")
      /\ UNCHANGED <<recorded, commands, userEdits, text, settings, backup, owned, shim>>
  BY DEF IInv, SwapHook, Rest
<1>2. hooks \in [claude : {NoFile, Bad} \cup SUBSET ClaudeEntries, copilot : Configs, repo : Configs]
  BY <1>1 DEF FileInv
<1>3. env' \in Env /\ env'.code = env.code /\ (Elsewhere => Elsewhere')
  <2>1. (d = "copilot") \in BOOLEAN /\ env \in Env
    BY <1>1 DEF FileInv
  <2>2. QED
    BY <1>1, <2>1, DirMade
<1>4. \A c \in Configs : Swapped(c) \in Configs /\ Swapped(c) # "absent" /\ (c = "foreign" => Swapped(c) = "foreign")
  BY DEF Swapped, Configs
<1>5. /\ hooks' \in [claude : {NoFile, Bad} \cup SUBSET ClaudeEntries, copilot : Configs, repo : Configs]
      /\ hooks'.claude = hooks.claude
      /\ hooks'.copilot = IF d = "copilot" THEN Swapped(hooks.copilot) ELSE hooks.copilot
      /\ hooks'.repo = IF d = "copilot" THEN hooks.repo ELSE Swapped(hooks.repo)
  <2>1. CASE d = "copilot"
    <3>1. hooks' = [hooks EXCEPT !.copilot = Swapped(hooks.copilot)] /\ Swapped(hooks.copilot) \in Configs
      BY <1>1, <1>2, <1>4, <2>1
    <3>2. QED
      BY <1>2, <2>1, <3>1
  <2>2. CASE d = "repo"
    <3>1. hooks' = [hooks EXCEPT !.repo = Swapped(hooks.repo)] /\ Swapped(hooks.repo) \in Configs
      BY <1>1, <1>2, <1>4, <2>2
    <3>2. QED
      BY <1>2, <2>2, <3>1
  <2>3. QED
    BY <2>1, <2>2
<1>6. /\ hooks.copilot = "foreign" => hooks'.copilot = "foreign"
      /\ hooks.repo = "foreign" => hooks'.repo = "foreign"
      /\ hooks.copilot # "absent" \/ swap = "swapCopilot" => hooks'.copilot # "absent"
      /\ hooks.repo # "absent" \/ swap = "swapRepo" => hooks'.repo # "absent"
  BY <1>2, <1>4, <1>5
<1>7. TextInv' /\ FileInv' /\ HomeInv' /\ KeepsUsers
  BY <1>1, <1>3, <1>5, <1>6, HooksOnly
<1>8. JobInv' /\ Removed' /\ Put'
  <2>1. {swap} \subseteq PutOps \ {"planCopilot", "planRepo", "probe", "probePony"} /\ Head(job.todo) = swap
    BY <1>1 DEF PutOps, Next1
  <2>2. Head(job.todo) \notin {"claude", "manifest", "claudeMd", "copilotMd", "vscodeGuide"}
    BY <2>1
  <2>3. QED
    BY <1>1, <1>3, <1>5, <1>6, <2>1, <2>2, GuidanceAlone, PutStep
<1>9. QED
  BY <1>7, <1>8 DEF IInv

\* Steps that leave all files alone.
LEMMA FilesAlone ==
    ASSUME IInv, UNCHANGED <<Touched, commands, userEdits>>, UNCHANGED env,
           recorded' \in Hosts \cup {"none"}
    PROVE  TextInv' /\ FileInv' /\ HomeInv' /\ KeepsUsers
<1>1. TextInv' /\ \A f \in TextFiles : Kept(text'[f], text[f])
  BY TextsAlone DEF IInv, Touched
<1>2. FileInv' /\ HomeInv'
  BY DEF IInv, FileInv, HomeInv, Touched
<1>3. KeepsUsers
  BY <1>1, OnlyTexts DEF Touched
<1>4. QED
  BY <1>1, <1>2, <1>3

LEMMA PlanHookStep ==
    ASSUME IInv, NEW d \in {"copilot", "repo"}, NEW op,
           op = IF d = "copilot" THEN "planCopilot" ELSE "planRepo",
           PlanHook(d, op)
    PROVE  IInv' /\ KeepsUsers
<1> DEFINE s == job.todo
           t == Tail(s)
           swap == IF d = "copilot" THEN "swapCopilot" ELSE "swapRepo"
<1>1. /\ FileInv /\ JobInv /\ Put
      /\ s # <<>> /\ Head(s) = op
      /\ job' = [job EXCEPT !.todo = IF hooks[d] \in {"absent", "past"} THEN t ELSE Tail(t)]
      /\ UNCHANGED <<recorded, commands, userEdits, Touched, env>>
  BY DEF IInv, PlanHook, Next1, Rest
<1>2. TextInv' /\ FileInv' /\ HomeInv' /\ KeepsUsers
  <2>1. UNCHANGED env /\ UNCHANGED <<Touched, commands, userEdits>> /\ recorded' \in Hosts \cup {"none"}
    BY <1>1 DEF FileInv
  <2>2. QED
    BY <2>1, FilesAlone
<1> DEFINE S == OpsOf(job.cmd)
<1>3. s \in Seq(S) /\ job \in [cmd : Commands, host : Hosts \cup {"none"}, todo : Seq(S)]
      /\ Ordered(s) /\ ProbesLast(s)
  BY <1>1 DEF JobInv
<1>4. /\ Head(s) \in S /\ t \in Seq(S) /\ Ordered(t) /\ ProbesLast(t)
      /\ \A x : Has(s, x) <=> x = op \/ Has(t, x)
      /\ t # <<>> /\ Head(t) = swap
  BY <1>1, <1>3, TailHas
<1> HIDE DEF t
<1>5. /\ Tail(t) \in Seq(S) /\ Ordered(Tail(t)) /\ ProbesLast(Tail(t))
      /\ \A x : Has(t, x) <=> x = swap \/ Has(Tail(t), x)
  BY <1>4, TailHas
<1> DEFINE u == IF hooks[d] \in {"absent", "past"} THEN t ELSE Tail(t)
<1>6. /\ u \in Seq(S) /\ Ordered(u) /\ ProbesLast(u)
      /\ \A x : Has(u, x) => Has(s, x)
      /\ \A x : Has(s, x) /\ x \notin {op, swap} => Has(u, x)
      /\ op = "planCopilot" => Has(u, "swapCopilot") \/ hooks.copilot # "absent"
      /\ op = "planRepo" => Has(u, "swapRepo") \/ hooks.repo # "absent"
  BY <1>4, <1>5
<1>7. job' = [job EXCEPT !.todo = u]
  BY <1>1
<1> HIDE DEF s, u
<1>8. /\ job'.cmd = job.cmd /\ job'.host = job.host /\ job'.todo = u
      /\ job' \in [cmd : Commands, host : Hosts \cup {"none"}, todo : Seq(S)]
  BY <1>3, <1>6, <1>7
<1>9. op \in PutOps /\ op \in S
  BY <1>1, <1>4 DEF PutOps
<1> HIDE DEF S
<1>10. JobInv'
  <2>1. OpsOf(job'.cmd) = S /\ env' = env
    BY <1>1, <1>8 DEF S
  <2>2. /\ Has(s, "probe") \/ Has(s, "probePony") => job.host = "vscode"
        /\ Has(s, "inject") => job.host = "vscode" \/ (job.host = "unknown" /\ ~env.code)
    BY <1>1 DEF JobInv, s
  <2>3. /\ Has(u, "probe") \/ Has(u, "probePony") => job'.host = "vscode"
        /\ Has(u, "inject") => job'.host = "vscode" \/ (job'.host = "unknown" /\ ~env'.code)
    BY <1>6, <1>8, <2>1, <2>2
  <2>4. QED
    BY <1>6, <1>8, <2>1, <2>3 DEF JobInv
<1>11. Removed'
  BY <1>8, <1>9, Kinds DEF Removed, S
<1>12. ~Idles("copilot-cli") /\ ~Idles("vscode")
  BY <1>1 DEF Idles, s
<1>13. \A x \in {"claude", "claudeMd", "copilotMd", "manifest", "probe", "probePony", "vscodeGuide"} :
          Has(job.todo, x) => Has(job'.todo, x)
  BY <1>6, <1>8 DEF s
<1>14. HookPut => HookPut'
  <2>1. hooks' = hooks
    BY <1>1 DEF Touched
  <2>2. CASE op = "planCopilot"
    BY <1>6, <1>8, <2>1, <2>2 DEF HookPut, HookFile, PlanOp, SwapOp, s
  <2>3. CASE op = "planRepo"
    BY <1>6, <1>8, <2>1, <2>3 DEF HookPut, HookFile, PlanOp, SwapOp, s
  <2>4. QED
    BY <2>2, <2>3
<1>15. Put'
  <2>1. /\ hooks' = hooks /\ shim' = shim /\ (Elsewhere' <=> Elsewhere)
        /\ \A h \in {"claude-code", "copilot-cli", "vscode"} : HasGuidance(h)' <=> HasGuidance(h)
    BY <1>1, GuidanceAlone DEF Touched, Elsewhere
  <2>2. QED
    BY <1>1, <1>8, <1>12, <1>13, <1>14, <2>1 DEF Put
<1>16. QED
  BY <1>2, <1>10, <1>11, <1>15 DEF IInv

LEMMA WriteShimStep == ASSUME IInv, WriteShim PROVE IInv' /\ KeepsUsers
<1>1. /\ TextInv /\ FileInv /\ JobInv /\ HomeInv
      /\ Next1({"prune", "wrappers", "manifest"}) /\ GoesOn
      /\ Head(job.todo) \in {"prune", "wrappers", "manifest"}
      /\ shim' = CASE Head(job.todo) = "prune" -> "absent"
                   [] Head(job.todo) = "wrappers" -> "partial"
                   [] OTHER -> "full"
      /\ UNCHANGED <<recorded, commands, userEdits, text, hooks, settings, backup, owned, env>>
  BY DEF IInv, WriteShim, Next1, Rest
<1>2. shim' \in {"absent", "partial", "full"}
  BY <1>1
<1>3. TextInv' /\ \A f \in TextFiles : Kept(text'[f], text[f])
  BY <1>1, TextsAlone
<1>4. FileInv' /\ HomeInv'
  BY <1>1, <1>2 DEF FileInv, HomeInv
<1>5. JobInv' /\ Removed' /\ Put'
  <2>1. {"prune", "wrappers", "manifest"} \subseteq PutOps \ {"planCopilot", "planRepo", "probe", "probePony"}
    BY DEF PutOps
  <2>2. Elsewhere => Elsewhere'
    BY <1>1 DEF Elsewhere
  <2>3. Head(job.todo) \notin {"claude", "swapCopilot", "claudeMd", "copilotMd", "vscodeGuide", "swapRepo"}
    BY <1>1
  <2>4. QED
    BY <1>1, <2>1, <2>2, <2>3, GuidanceAlone, PutStep
<1>6. KeepsUsers
  BY <1>1, <1>3, OnlyTexts
<1>7. QED
  BY <1>3, <1>4, <1>5, <1>6 DEF IInv

\* The settings keep what is the user's, or the backup has it.
LEMMA SettingsKept ==
    ASSUME IInv, NEW s \in SUBSET Marks, "userPath" \in settings => "userPath" \in s,
           \/ UNCHANGED <<settings, backup>>
           \/ settings # Bad /\ Rewritten(s),
           UNCHANGED <<text, hooks, owned, shim, recorded, commands, userEdits, env>>
    PROVE  TextInv' /\ FileInv' /\ HomeInv' /\ KeepsUsers
<1>1. FileInv /\ TextInv /\ HomeInv
  BY DEF IInv
<1>2. TextInv' /\ \A f \in TextFiles : Kept(text'[f], text[f])
  BY <1>1, TextsAlone
<1>3. settings' \in {NoFile, Bad} \cup SUBSET Marks /\ backup' \in {NoFile} \cup SUBSET Marks
  <2>1. settings \in {NoFile, Bad} \cup SUBSET Marks /\ backup \in {NoFile} \cup SUBSET Marks
    BY <1>1 DEF FileInv
  <2>2. "comments" \notin NoFile /\ "comments" \notin Bad
    BY DEF NoFile, Bad
  <2>3. QED
    BY <2>1, <2>2 DEF Rewritten
<1>4. FileInv' /\ HomeInv'
  BY <1>1, <1>3 DEF FileInv, HomeInv
<1>5. /\ settings = Bad => settings' = Bad
      /\ "userPath" \in settings => "userPath" \in settings'
      /\ "comments" \in settings \ settings' => backup' = settings
  BY DEF Rewritten, NoFile, Bad
<1>6. KeepsUsers
  BY <1>2, <1>5 DEF KeepsUsers, Kept
<1>7. QED
  BY <1>2, <1>4, <1>6

LEMMA WriteSettingsStep == ASSUME IInv, WriteSettings PROVE IInv' /\ KeepsUsers
<1>1. /\ FileInv
      /\ Next1({"settings"}) /\ GoesOn /\ Head(job.todo) = "settings"
      /\ IF ~env.code \/ settings = Bad THEN UNCHANGED <<settings, backup>>
         ELSE Rewritten(Patched(settings))
      /\ UNCHANGED <<recorded, commands, userEdits, text, hooks, owned, shim, env>>
  BY DEF IInv, WriteSettings, Next1, Rest
<1>2. TextInv' /\ FileInv' /\ HomeInv' /\ KeepsUsers
  <2>1. CASE settings = Bad
    <3>1. {} \in SUBSET Marks /\ "userPath" \notin settings /\ UNCHANGED <<settings, backup>>
      BY <1>1, <2>1 DEF Bad
    <3>2. QED
      BY <1>1, <3>1, SettingsKept
  <2>2. CASE settings # Bad
    <3>1. Patched(settings) \in SUBSET Marks /\ ("userPath" \in settings => "userPath" \in Patched(settings))
      <4>1. settings = NoFile \/ settings \subseteq Marks
        BY <1>1, <2>2 DEF FileInv
      <4>2. QED
        BY <4>1 DEF Patched, Marks, NoFile
    <3>2. QED
      BY <1>1, <2>2, <3>1, SettingsKept
  <2>3. QED
    BY <2>1, <2>2
<1>3. JobInv' /\ Removed' /\ Put'
  <2>1. {"settings"} \subseteq PutOps \ {"planCopilot", "planRepo", "probe", "probePony"}
    BY DEF PutOps
  <2>2. Elsewhere => Elsewhere'
    BY <1>1 DEF Elsewhere
  <2>3. QED
    BY <1>1, <2>1, <2>2, GuidanceAlone, PutStep
<1>4. QED
  BY <1>2, <1>3 DEF IInv

LEMMA ProbeStep == ASSUME IInv, NEW pass \in BOOLEAN, Probe(pass) PROVE IInv' /\ KeepsUsers
<1> DEFINE s == job.todo
           pony == Head(s) = "probePony"
           i == IF pass THEN <<>> ELSE <<"inject">>
           g == GuidanceOps(job.host, pony)
           r == <<"record">>
           u == (i \o g) \o r
           S == OpsOf(job.cmd)
<1>1. /\ FileInv /\ JobInv /\ Put
      /\ s # <<>> /\ Head(s) \in {"probe", "probePony"}
      /\ job' = [job EXCEPT !.todo = u]
      /\ UNCHANGED <<recorded, commands, userEdits, Touched, env>>
  BY DEF IInv, Probe, Next1, Rest
<1>2. TextInv' /\ FileInv' /\ HomeInv' /\ KeepsUsers
  <2>1. UNCHANGED env /\ UNCHANGED <<Touched, commands, userEdits>> /\ recorded' \in Hosts \cup {"none"}
    BY <1>1 DEF FileInv
  <2>2. QED
    BY <2>1, FilesAlone
<1>3. s \in Seq(S) /\ job \in [cmd : Commands, host : Hosts \cup {"none"}, todo : Seq(S)]
      /\ Ordered(s) /\ ProbesLast(s)
  BY <1>1 DEF JobInv
<1>4. /\ Head(s) \in S /\ Tail(s) = <<>>
      /\ \A x : Has(s, x) <=> x = Head(s) \/ Has(Tail(s), x)
  BY <1>1, <1>3, TailHas
<1>5. /\ \A x : Has(s, x) <=> x = Head(s)
      /\ job.host = "vscode"
  <2>1. \A x : Has(s, x) <=> x = Head(s)
    BY <1>4, HasNone
  <2>2. QED
    BY <1>1, <2>1 DEF JobInv
<1>6. Head(s) \in PutOps
  BY <1>1 DEF PutOps
<1>7. job.cmd \notin {"uninstall", "uninstallProject"} /\ S = PutOps
  <2>1. job.cmd \notin {"uninstall", "uninstallProject"}
    BY <1>4, <1>6, Kinds
  <2>2. QED
    BY <2>1 DEF OpsOf
<1>8. /\ Shaped(u) /\ Has(u, "vscodeGuide") /\ ~Has(u, "probe") /\ ~Has(u, "probePony")
  <2>1. pony \in BOOLEAN
    OBVIOUS
  <2>2. Plain(g) /\ Has(g, "vscodeGuide")
    <3> HIDE DEF pony
    <3>1. QED
      BY <1>5, <2>1, PlainGuidance
  <2>3. Plain(r) /\ "inject" \in PutOps
    BY PlainOne DEF PutOps
  <2>4. Shaped(i) /\ ~Has(i, "probe") /\ ~Has(i, "probePony")
    <3> DEFINE p == <<"inject">>
    <3>1. p \in Seq(PutOps) /\ Len(p) = 1 /\ p[1] = "inject" /\ \A op : Has(p, op) <=> op = "inject"
      BY <2>3, HasOne
    <3> HIDE DEF p
    <3>2. \A k \in 1 .. Len(p) : p[k] = "inject"
      BY <3>1
    <3>3. Shaped(p)
      BY <3>1, <3>2 DEF Shaped, Ordered, ProbesLast
    <3>4. QED
      BY <3>1, <3>3, PlainNone DEF Plain, p
  <2> HIDE DEF i, g, r
  <2>5. /\ i \in Seq(PutOps) /\ g \in Seq(PutOps) /\ r \in Seq(PutOps)
        /\ Ordered(i) /\ Ordered(g) /\ Ordered(r)
        /\ ProbesLast(g) /\ ProbesLast(r)
    BY <2>2, <2>3, <2>4 DEF Plain, Shaped
  <2> DEFINE w == i \o g
  <2>6. /\ w \in Seq(PutOps) /\ Ordered(w)
        /\ \A x : Has(w, x) <=> Has(i, x) \/ Has(g, x)
    <3>1. w \in Seq(PutOps)
      BY <2>5, Joined
    <3>2. Ordered(w)
      BY <2>5, OrderedGlued
    <3>3. QED
      BY <2>5, <3>1, <3>2, HasGlued
  <2>7. ~Has(w, "probe") /\ ~Has(w, "probePony") /\ Has(w, "vscodeGuide")
    BY <2>2, <2>4, <2>6 DEF Plain
  <2>8. /\ u \in Seq(PutOps) /\ Ordered(u) /\ ProbesLast(u)
        /\ \A x : Has(u, x) <=> Has(w, x) \/ Has(r, x)
    <3>1. u = w \o r
      OBVIOUS
    <3> HIDE DEF w, u
    <3>2. w \o r \in Seq(PutOps)
      BY <2>5, <2>6, Joined
    <3>3. Ordered(w \o r)
      BY <2>5, <2>6, OrderedGlued
    <3>4. ProbesLast(w \o r)
      BY <2>5, <2>6, <2>7, LastGlued
    <3>5. \A x : Has(w \o r, x) <=> Has(w, x) \/ Has(r, x)
      BY <2>5, <2>6, HasGlued
    <3>6. QED
      BY <3>1, <3>2, <3>3, <3>4, <3>5
  <2> HIDE DEF u, w
  <2>9. QED
    BY <2>3, <2>7, <2>8 DEF Shaped, Plain
<1> HIDE DEF u, s, pony, i, g, r, S
<1>9. /\ job'.cmd = job.cmd /\ job'.host = job.host /\ job'.todo = u
      /\ job' \in [cmd : Commands, host : Hosts \cup {"none"}, todo : Seq(PutOps)]
  BY <1>1, <1>3, <1>7, <1>8 DEF Shaped
<1>10. JobInv'
  <2>1. OpsOf(job'.cmd) = PutOps
    BY <1>7, <1>9 DEF S
  <2>2. QED
    BY <1>5, <1>8, <1>9, <2>1 DEF JobInv, Shaped
<1>11. Removed'
  BY <1>7, <1>9 DEF Removed
<1>12. Put'
  <2>1. /\ hooks' = hooks /\ shim' = shim
    BY <1>1 DEF Touched
  <2>2. ASSUME job.cmd \in Puts PROVE HookFile # "absent" /\ shim = "full"
    <3>1. HookPut /\ (Has(job.todo, "manifest") \/ shim = "full")
      BY <1>1, <1>5, <2>2 DEF Put
    <3>2. ~Has(job.todo, "manifest") /\ ~Has(job.todo, PlanOp(job.cmd)) /\ ~Has(job.todo, SwapOp(job.cmd))
      BY <1>1, <1>5 DEF s, PlanOp, SwapOp
    <3>3. QED
      BY <3>1, <3>2 DEF HookPut
  <2>3. QED
    BY <1>5, <1>8, <1>9, <2>1, <2>2 DEF Put, HookPut, HookFile
<1>13. QED
  BY <1>2, <1>10, <1>11, <1>12 DEF IInv

LEMMA RecordStep == ASSUME IInv, Record PROVE IInv' /\ KeepsUsers
<1>1. /\ JobInv /\ Next1({"record"}) /\ GoesOn /\ Head(job.todo) = "record" /\ recorded' = job.host
      /\ UNCHANGED <<Touched, env, commands, userEdits>>
  BY DEF IInv, Record, Next1
<1>2. TextInv' /\ FileInv' /\ HomeInv' /\ KeepsUsers
  <2>1. UNCHANGED env /\ UNCHANGED <<Touched, commands, userEdits>> /\ recorded' \in Hosts \cup {"none"}
    BY <1>1 DEF JobInv
  <2>2. QED
    BY <2>1, FilesAlone
<1>3. JobInv' /\ Removed' /\ Put'
  <2>1. {"record"} \subseteq PutOps \ {"planCopilot", "planRepo", "probe", "probePony"}
    BY DEF PutOps
  <2>2. Elsewhere => Elsewhere'
    BY <1>1 DEF Elsewhere
  <2>3. UNCHANGED <<text, owned>> /\ hooks' = hooks /\ shim' = shim /\ env'.code = env.code
    BY <1>1 DEF Touched
  <2>4. QED
    BY <1>1, <2>1, <2>2, <2>3, GuidanceAlone, PutStep
<1>4. QED
  BY <1>2, <1>3 DEF IInv

-----------------------------------------------------------------------------
(* Steps of a removal *)

\* A hook file of ctx goes, an entry of Claude's settings goes, what others put there stays.
LEMMA RemoveHookStep == ASSUME IInv, RemoveHook PROVE IInv' /\ KeepsUsers
<1> DEFINE op == Head(job.todo)
           c == IF op = "unclaude" THEN ClaudeUnhook(hooks.claude) ELSE hooks.claude
           p == IF op = "uncopilot" /\ Managed(hooks.copilot) THEN "absent" ELSE hooks.copilot
           r == IF op = "unrepo" /\ Managed(hooks.repo) THEN "absent" ELSE hooks.repo
<1>1. /\ FileInv /\ JobInv
      /\ Next1({"unclaude", "uncopilot", "unrepo"}) /\ GoesOn
      /\ op \in {"unclaude", "uncopilot", "unrepo"}
      /\ hooks' = CASE op = "unclaude" -> [hooks EXCEPT !.claude = ClaudeUnhook(hooks.claude)]
                    [] op = "uncopilot" ->
                           [hooks EXCEPT !.copilot = IF Managed(hooks.copilot) THEN "absent" ELSE hooks.copilot]
                    [] OTHER -> [hooks EXCEPT !.repo = IF Managed(hooks.repo) THEN "absent" ELSE hooks.repo]
      /\ UNCHANGED <<recorded, commands, userEdits, text, settings, backup, owned, shim, env>>
  BY DEF IInv, RemoveHook, Next1, Rest
<1>2. hooks \in [claude : {NoFile, Bad} \cup SUBSET ClaudeEntries, copilot : Configs, repo : Configs]
  BY <1>1 DEF FileInv
<1> HIDE DEF op
<1>3. hooks'.claude = c /\ hooks'.copilot = p /\ hooks'.repo = r /\ hooks' = [claude |-> c, copilot |-> p, repo |-> r]
  <2>1. CASE op = "unclaude"
    <3>1. hooks' = [hooks EXCEPT !.claude = ClaudeUnhook(hooks.claude)]
      BY <1>1, <2>1
    <3>2. QED
      BY <1>2, <2>1, <3>1
  <2>2. CASE op = "uncopilot"
    <3>1. hooks' = [hooks EXCEPT !.copilot = p]
      BY <1>1, <2>2
    <3>2. QED
      BY <1>2, <2>2, <3>1
  <2>3. CASE op = "unrepo"
    <3>1. hooks' = [hooks EXCEPT !.repo = r]
      BY <1>1, <2>3
    <3>2. QED
      BY <1>2, <2>3, <3>1
  <2>4. QED
    BY <1>1, <2>1, <2>2, <2>3
<1>4. /\ c \in {NoFile, Bad} \cup SUBSET ClaudeEntries
      /\ "user" \in hooks.claude => "user" \in c
      /\ hooks.claude = Bad => c = Bad
      /\ "ours" \notin hooks.claude \/ op = "unclaude" => "ours" \notin c
  <2>1. hooks.claude = NoFile \/ hooks.claude = Bad \/ hooks.claude \subseteq ClaudeEntries
    BY <1>2
  <2>2. ClaudeUnhook(NoFile) = NoFile /\ ClaudeUnhook(Bad) = Bad
    BY DEF ClaudeUnhook, NoFile, Bad
  <2>3. QED
    BY <2>1, <2>2 DEF ClaudeUnhook
<1>5. p \in Configs /\ r \in Configs
  BY <1>2 DEF Configs
<1>6. /\ hooks.copilot = "foreign" => p = "foreign"
      /\ hooks.repo = "foreign" => r = "foreign"
      /\ ~Managed(hooks.copilot) \/ op = "uncopilot" => ~Managed(p)
  BY DEF Managed
<1> HIDE DEF c, p, r
<1>7. TextInv' /\ FileInv' /\ HomeInv' /\ KeepsUsers
  <2>1. hooks' \in [claude : {NoFile, Bad} \cup SUBSET ClaudeEntries, copilot : Configs, repo : Configs]
    BY <1>3, <1>4, <1>5
  <2>2. env' \in Env /\ env'.code = env.code
    BY <1>1 DEF FileInv
  <2>3. QED
    BY <1>1, <1>3, <1>4, <1>6, <2>1, <2>2, HooksOnly
<1>8. JobInv' /\ Removed' /\ Put'
  <2>1. {"unclaude", "uncopilot", "unrepo"} \subseteq UserRemovals \cup RepoRemovals
    BY DEF UserRemovals, RepoRemovals
  <2>2. op \notin {"unshim", "unrc", "unsettings", "uninject", "unguideClaude", "unguideCopilot", "unguideVscode"}
    BY <1>1
  <2>3. QED
    BY <1>1, <1>3, <1>4, <1>6, <2>1, <2>2, RemovalStep DEF op
<1>9. QED
  BY <1>7, <1>8 DEF IInv

LEMMA RemoveShimStep == ASSUME IInv, RemoveShim PROVE IInv' /\ KeepsUsers
<1>1. /\ TextInv /\ FileInv /\ HomeInv
      /\ Next1({"unshim"}) /\ GoesOn /\ Head(job.todo) = "unshim" /\ shim' = "absent"
      /\ UNCHANGED <<recorded, commands, userEdits, text, hooks, settings, backup, owned, env>>
  BY DEF IInv, RemoveShim, Next1, Rest
<1>2. TextInv' /\ \A f \in TextFiles : Kept(text'[f], text[f])
  BY <1>1, TextsAlone
<1>3. FileInv' /\ HomeInv'
  BY <1>1 DEF FileInv, HomeInv
<1>4. JobInv' /\ Removed' /\ Put'
  <2>1. {"unshim"} \subseteq UserRemovals \cup RepoRemovals
    BY DEF UserRemovals
  <2>2. QED
    BY <1>1, <2>1, RemovalStep
<1>5. KeepsUsers
  BY <1>1, <1>2, OnlyTexts
<1>6. QED
  BY <1>2, <1>3, <1>4, <1>5 DEF IInv

LEMMA RemoveTextStep == ASSUME IInv, RemoveText PROVE IInv' /\ KeepsUsers
<1> DEFINE op == Head(job.todo)
           f == IF op = "unrc" THEN "rc" ELSE "repoMd"
           w == IF op = "unrc" THEN Unpatch(text["rc"]) ELSE Uninject(text["repoMd"])
<1>1. /\ TextInv /\ FileInv /\ HomeInv
      /\ Next1({"unrc", "unrepoMd"}) /\ GoesOn /\ op \in {"unrc", "unrepoMd"}
      /\ IF op = "unrc" THEN Wrote("rc", Unpatch(text["rc"]))
         ELSE Wrote("repoMd", Uninject(text["repoMd"]))
      /\ UNCHANGED <<recorded, commands, userEdits, hooks, settings, backup, owned, shim, env>>
  BY DEF IInv, RemoveText, Next1, Rest
<1> HIDE DEF op
<1>2. Wrote(f, w) /\ f \in TextFiles /\ f \notin {"homeMd", "claudeMd", "copilotMd"}
  BY <1>1 DEF TextFiles
<1>3. OneOf(w) /\ Kept(w, text[f]) /\ NoBlocks(w)
  <2>1. OneOf(text["rc"]) /\ OneOf(text["repoMd"])
    BY <1>1, TextThere DEF TextFiles
  <2>2. QED
    BY <2>1, UnpatchClears, UninjectClears
<1>4. op = "unrc" => f = "rc"
  OBVIOUS
<1> HIDE DEF f, w
<1>5. /\ TextInv' /\ text'[f] = w
      /\ \A g \in TextFiles : g # f => text'[g] = text[g]
      /\ \A g \in TextFiles : Kept(text'[g], text[g])
  BY <1>1, <1>2, <1>3, Written
<1>6. /\ text'["homeMd"] = text["homeMd"] /\ text'["claudeMd"] = text["claudeMd"]
      /\ text'["copilotMd"] = text["copilotMd"]
      /\ NoBlocks(text["rc"]) \/ op = "unrc" => NoBlocks(text'["rc"])
  <2>1. {"homeMd", "claudeMd", "copilotMd", "rc"} \subseteq TextFiles
    BY DEF TextFiles
  <2>2. /\ text'["homeMd"] = text["homeMd"] /\ text'["claudeMd"] = text["claudeMd"]
        /\ text'["copilotMd"] = text["copilotMd"]
    BY <1>2, <1>5, <2>1
  <2>3. f # "rc" => text'["rc"] = text["rc"]
    BY <1>5, <2>1
  <2>4. QED
    BY <1>3, <1>4, <1>5, <2>2, <2>3
<1>7. FileInv' /\ HomeInv'
  BY <1>1, <1>6 DEF FileInv, HomeInv
<1>8. JobInv' /\ Removed' /\ Put'
  <2>1. {"unrc", "unrepoMd"} \subseteq UserRemovals \cup RepoRemovals
    BY DEF UserRemovals, RepoRemovals
  <2>2. op \notin {"unclaude", "uncopilot", "unshim", "unsettings", "uninject", "unguideClaude",
                   "unguideCopilot", "unguideVscode"}
    BY <1>1
  <2>3. QED
    BY <1>1, <1>6, <2>1, <2>2, RemovalStep DEF op
<1>9. KeepsUsers
  BY <1>1, <1>5, OnlyTexts
<1>10. QED
  BY <1>5, <1>7, <1>8, <1>9 DEF IInv

LEMMA RemoveSettingsStep == ASSUME IInv, RemoveSettings PROVE IInv' /\ KeepsUsers
<1>1. /\ FileInv
      /\ Next1({"unsettings"}) /\ GoesOn /\ Head(job.todo) = "unsettings"
      /\ IF settings \in {NoFile, Bad} THEN UNCHANGED <<settings, backup>>
         ELSE Rewritten(Unpatched(settings))
      /\ UNCHANGED <<recorded, commands, userEdits, text, hooks, owned, shim, env>>
  BY DEF IInv, RemoveSettings, Next1, Rest
<1>2. /\ TextInv' /\ FileInv' /\ HomeInv' /\ KeepsUsers
      /\ "shim" \notin settings'
  <2>1. CASE settings \in {NoFile, Bad}
    <3>1. /\ {} \in SUBSET Marks /\ "userPath" \notin settings /\ UNCHANGED <<settings, backup>>
          /\ "shim" \notin settings
      BY <1>1, <2>1 DEF Bad, NoFile
    <3>2. QED
      BY <1>1, <3>1, SettingsKept
  <2>2. CASE settings \notin {NoFile, Bad}
    <3>1. /\ Unpatched(settings) \in SUBSET Marks
          /\ "userPath" \in settings => "userPath" \in Unpatched(settings)
          /\ "shim" \notin Unpatched(settings)
      <4>1. settings \subseteq Marks
        BY <1>1, <2>2 DEF FileInv
      <4>2. QED
        BY <4>1 DEF Unpatched
    <3>2. settings # Bad /\ Rewritten(Unpatched(settings))
      BY <1>1, <2>2
    <3>3. TextInv' /\ FileInv' /\ HomeInv' /\ KeepsUsers
      BY <1>1, <3>1, <3>2, SettingsKept
    <3>4. QED
      BY <3>1, <3>2, <3>3 DEF Rewritten
  <2>3. QED
    BY <2>1, <2>2
<1>3. JobInv' /\ Removed' /\ Put'
  <2>1. {"unsettings"} \subseteq UserRemovals \cup RepoRemovals
    BY DEF UserRemovals
  <2>2. QED
    BY <1>1, <1>2, <2>1, RemovalStep
<1>4. QED
  BY <1>2, <1>3 DEF IInv

\* Where the block of text is looked for.
LEMMA Detected ==
    ASSUME FileInv, HomeInv
    PROVE  /\ DetectHost \in Hosts
           /\ InjectionFile(DetectHost) \in {"copilotMd", "homeMd", "prefix.vscode"}
           /\ InjectionFile(DetectHost) = "homeMd" \/ NoBlocks(text["homeMd"]) \/ Elsewhere
           /\ Elsewhere => InjectionFile(DetectHost) # "homeMd" /\ DetectHost # "claude-code"
           /\ DetectHost = "unknown" => ~env.code
<1>1. /\ env.live \in {"claude-code", "vscode", "none"} /\ env.copilot \in BOOLEAN
      /\ env.copilotDir \in BOOLEAN /\ env.code \in BOOLEAN
  BY DEF FileInv, Env
<1>2. CASE env.live # "none"
  <2>1. DetectHost = env.live
    BY <1>2 DEF DetectHost
  <2>2. QED
    BY <1>1, <1>2, <2>1 DEF Hosts, InjectionFile, Elsewhere
<1>3. CASE env.live = "none" /\ (env.copilot \/ env.copilotDir)
  <2>1. DetectHost = "copilot-cli"
    BY <1>3 DEF DetectHost
  <2>2. QED
    BY <1>3, <2>1 DEF Hosts, InjectionFile, Elsewhere
<1>4. CASE env.live = "none" /\ ~env.copilot /\ ~env.copilotDir /\ hooks.claude # NoFile
  <2>1. DetectHost = "claude-code"
    BY <1>4 DEF DetectHost
  <2>2. QED
    BY <1>4, <2>1 DEF Hosts, InjectionFile, Elsewhere
<1>5. CASE env.live = "none" /\ ~env.copilot /\ ~env.copilotDir /\ hooks.claude = NoFile
  <2>1. DetectHost = IF env.code THEN "vscode" ELSE "unknown"
    BY <1>5 DEF DetectHost
  <2>2. QED
    BY <1>5, <2>1 DEF Hosts, InjectionFile, Elsewhere, HomeInv
<1>6. QED
  BY <1>1, <1>2, <1>3, <1>4, <1>5

LEMMA RemoveInjectionStep == ASSUME IInv, RemoveInjection PROVE IInv' /\ KeepsUsers
<1> DEFINE f == InjectionFile(DetectHost)
<1>1. /\ TextInv /\ FileInv /\ HomeInv
      /\ Next1({"uninject"}) /\ GoesOn /\ Head(job.todo) = "uninject"
      /\ IF f \in OwnedFiles THEN owned' = owned \ {f} /\ UNCHANGED text
         ELSE Wrote(f, Uninject(text[f])) /\ UNCHANGED owned
      /\ UNCHANGED <<recorded, commands, userEdits, hooks, settings, backup, shim, env>>
  BY DEF IInv, RemoveInjection, Next1, Rest
<1>2. /\ f \in {"copilotMd", "homeMd", "prefix.vscode"}
      /\ f = "homeMd" \/ NoBlocks(text["homeMd"]) \/ Elsewhere
  BY <1>1, Detected
<1> HIDE DEF f
<1>3. /\ TextInv' /\ \A g \in TextFiles : Kept(text'[g], text[g])
      /\ \A g \in TextFiles : NoBlocks(text[g]) => NoBlocks(text'[g])
      /\ f = "homeMd" => NoBlocks(text'["homeMd"])
      /\ owned' \subseteq owned
  <2>1. CASE f = "prefix.vscode"
    <3>1. owned' = owned \ {f} /\ UNCHANGED text
      BY <1>1, <2>1 DEF OwnedFiles
    <3>2. QED
      BY <1>1, <2>1, <3>1, TextsAlone
  <2>2. CASE f \in {"copilotMd", "homeMd"}
    <3>1. Wrote(f, Uninject(text[f])) /\ UNCHANGED owned /\ f \in TextFiles
      BY <1>1, <2>2 DEF OwnedFiles, TextFiles
    <3>2. /\ OneOf(Uninject(text[f])) /\ Kept(Uninject(text[f]), text[f])
          /\ NoBlocks(Uninject(text[f]))
      BY <1>1, <3>1, TextThere, UninjectClears
    <3>3. /\ TextInv' /\ text'[f] = Uninject(text[f])
          /\ \A g \in TextFiles : g # f => text'[g] = text[g]
          /\ \A g \in TextFiles : Kept(text'[g], text[g])
      BY <1>1, <3>1, <3>2, Written
    <3>4. QED
      BY <3>1, <3>2, <3>3
  <2>3. QED
    BY <1>2, <2>1, <2>2
<1>4. FileInv'
  BY <1>1, <1>3 DEF FileInv
<1>5. {"rc", "homeMd", "claudeMd", "copilotMd"} \subseteq TextFiles
  BY DEF TextFiles
<1>6. HomeInv'
  BY <1>1, <1>3, <1>5 DEF HomeInv
<1>7. JobInv' /\ Removed' /\ Put'
  <2>1. {"uninject"} \subseteq UserRemovals \cup RepoRemovals
    BY DEF UserRemovals
  <2>2. NoBlocks(text'["homeMd"]) \/ Elsewhere
    BY <1>2, <1>3, <1>5
  <2>3. QED
    BY <1>1, <1>3, <1>5, <2>1, <2>2, RemovalStep
<1>8. KeepsUsers
  BY <1>1, <1>3, OnlyTexts
<1>9. QED
  BY <1>3, <1>4, <1>6, <1>7, <1>8 DEF IInv

LEMMA RemoveGuidanceStep == ASSUME IInv, RemoveGuidance PROVE IInv' /\ KeepsUsers
<1> DEFINE op == Head(job.todo)
<1>1. /\ TextInv /\ FileInv /\ HomeInv
      /\ Next1({"unguideClaude", "unguideCopilot", "unguideVscode"}) /\ GoesOn
      /\ op \in {"unguideClaude", "unguideCopilot", "unguideVscode"}
      /\ owned' = owned \ GuideFiles(op)
      /\ text' = CASE op = "unguideClaude" -> [text EXCEPT !["claudeMd"] = Unpatch(text["claudeMd"])]
                   [] op = "unguideCopilot" -> [text EXCEPT !["copilotMd"] = Unpatch(text["copilotMd"])]
                   [] OTHER -> text
      /\ UNCHANGED <<recorded, commands, userEdits, hooks, settings, backup, shim, env>>
  BY DEF IInv, RemoveGuidance, Next1, Rest
<1> HIDE DEF op
<1>2. /\ TextInv' /\ \A g \in TextFiles : Kept(text'[g], text[g])
      /\ \A g \in TextFiles : NoBlocks(text[g]) => NoBlocks(text'[g])
      /\ op = "unguideClaude" => NoBlocks(text'["claudeMd"])
      /\ op = "unguideCopilot" => NoBlocks(text'["copilotMd"])
  <2>1. ASSUME NEW f \in {"claudeMd", "copilotMd"}, text' = [text EXCEPT ![f] = Unpatch(text[f])]
        PROVE  /\ TextInv' /\ \A g \in TextFiles : Kept(text'[g], text[g])
               /\ \A g \in TextFiles : NoBlocks(text[g]) => NoBlocks(text'[g])
               /\ NoBlocks(text'[f])
    <3>1. f \in TextFiles /\ Wrote(f, Unpatch(text[f]))
      BY <2>1 DEF TextFiles, Wrote
    <3>2. /\ OneOf(Unpatch(text[f])) /\ Kept(Unpatch(text[f]), text[f]) /\ NoBlocks(Unpatch(text[f]))
      BY <1>1, <3>1, TextThere, UnpatchClears
    <3>3. /\ TextInv' /\ text'[f] = Unpatch(text[f])
          /\ \A g \in TextFiles : g # f => text'[g] = text[g]
          /\ \A g \in TextFiles : Kept(text'[g], text[g])
      BY <1>1, <3>1, <3>2, Written
    <3>4. QED
      BY <3>2, <3>3
  <2>2. CASE op = "unguideClaude"
    <3>1. text' = [text EXCEPT !["claudeMd"] = Unpatch(text["claudeMd"])]
      BY <1>1, <2>2
    <3>2. QED
      BY <2>1, <2>2, <3>1
  <2>3. CASE op = "unguideCopilot"
    <3>1. text' = [text EXCEPT !["copilotMd"] = Unpatch(text["copilotMd"])]
      BY <1>1, <2>3
    <3>2. QED
      BY <2>1, <2>3, <3>1
  <2>4. CASE op = "unguideVscode"
    <3>1. UNCHANGED text
      BY <1>1, <2>4
    <3>2. QED
      BY <1>1, <2>4, <3>1, TextsAlone
  <2>5. QED
    BY <1>1, <2>2, <2>3, <2>4
<1>3. /\ owned' \subseteq owned
      /\ op = "unguideClaude" => owned' \cap {"CTX.md", "PONYTAIL.md"} = {}
      /\ op = "unguideVscode" => owned' \cap {"guide.vscode", "lazy.vscode"} = {}
  BY <1>1 DEF GuideFiles
<1>4. {"rc", "homeMd", "claudeMd", "copilotMd"} \subseteq TextFiles
  BY DEF TextFiles
<1>5. FileInv' /\ HomeInv'
  BY <1>1, <1>2, <1>3, <1>4 DEF FileInv, HomeInv
<1>6. JobInv' /\ Removed' /\ Put'
  <2>1. {"unguideClaude", "unguideCopilot", "unguideVscode"} \subseteq UserRemovals \cup RepoRemovals
    BY DEF UserRemovals
  <2>2. op \notin {"unclaude", "uncopilot", "unshim", "unrc", "unsettings", "uninject"}
    BY <1>1
  <2>3. QED
    BY <1>1, <1>2, <1>3, <1>4, <2>1, <2>2, RemovalStep DEF op
<1>7. KeepsUsers
  BY <1>1, <1>2, OnlyTexts
<1>8. QED
  BY <1>2, <1>5, <1>6, <1>7 DEF IInv

LEMMA RestStep == ASSUME IInv, End \/ Killed PROVE IInv' /\ KeepsUsers
<1>1. job' = Quiet /\ UNCHANGED <<Touched, recorded, env, commands, userEdits>> /\ FileInv
  BY DEF IInv, End, Killed
<1>2. TextInv' /\ FileInv' /\ HomeInv' /\ KeepsUsers
  <2>1. UNCHANGED env /\ UNCHANGED <<Touched, commands, userEdits>> /\ recorded' \in Hosts \cup {"none"}
    BY <1>1 DEF FileInv
  <2>2. QED
    BY <2>1, FilesAlone
<1>3. QED
  BY <1>1, <1>2, Rests DEF IInv

-----------------------------------------------------------------------------
(* Steps of the user *)

\* While a command runs, what the user does takes nothing of ctx's away, but for a hook file
\* that becomes the user's own.
LEMMA UserStep ==
    ASSUME IInv, UNCHANGED <<job, env, owned, shim, settings>>,
           \/ hooks'.claude = hooks.claude \/ hooks'.claude = hooks.claude \cup {"user"}
           \/ hooks.claude \in {NoFile, Bad} /\ hooks'.claude = {"user"},
           hooks'.copilot = hooks.copilot \/ hooks'.copilot = "foreign", hooks'.repo = hooks.repo,
           \A f \in TextFiles : /\ NoBlocks(text[f]) => NoBlocks(text'[f])
                                /\ text[f] # Absent => text'[f] # Absent
    PROVE  JobInv' /\ Removed' /\ Put'
<1>1. JobInv /\ Removed /\ Put
  BY DEF IInv
<1>2. JobInv'
  BY <1>1 DEF JobInv
<1>3. {"rc", "homeMd", "claudeMd", "copilotMd"} \subseteq TextFiles
  BY DEF TextFiles
<1>4. /\ "ours" \in hooks.claude <=> "ours" \in hooks'.claude
      /\ hooks.claude # NoFile => hooks'.claude # NoFile
  BY DEF NoFile, Bad
<1>5. /\ ~Managed(hooks.copilot) => ~Managed(hooks'.copilot)
      /\ hooks.copilot # "absent" => hooks'.copilot # "absent"
  BY DEF Managed
<1>6. Elsewhere' <=> Elsewhere
  BY DEF Elsewhere
<1>7. Removed'
  BY <1>1, <1>3, <1>4, <1>5, <1>6 DEF Removed
<1>8. \A h \in {"claude-code", "copilot-cli", "vscode"} : HasGuidance(h) => HasGuidance(h)'
  BY <1>3 DEF HasGuidance
<1>9. DetectHost' = DetectHost \/ DetectHost' = "claude-code"
  <2>1. CASE env.live # "none"
    BY <2>1 DEF DetectHost
  <2>2. CASE env.live = "none" /\ (env.copilot \/ env.copilotDir)
    BY <2>2 DEF DetectHost
  <2>3. CASE env.live = "none" /\ ~env.copilot /\ ~env.copilotDir /\ hooks'.claude # NoFile
    BY <2>3 DEF DetectHost
  <2>4. CASE env.live = "none" /\ ~env.copilot /\ ~env.copilotDir /\ hooks'.claude = NoFile
    <3>1. hooks.claude = NoFile
      BY <1>4, <2>4
    <3>2. QED
      BY <2>4, <3>1 DEF DetectHost
  <2>5. QED
    BY <2>1, <2>2, <2>3, <2>4
<1>10. /\ Idles("copilot-cli") => Idles("copilot-cli")'
       /\ Idles("vscode") => Idles("vscode")'
  BY <1>9 DEF Idles
<1>11. HookPut => HookPut'
  BY <1>5 DEF HookPut, HookFile
<1>12. Put'
  BY <1>1, <1>4, <1>6, <1>8, <1>10, <1>11 DEF Put
<1>13. QED
  BY <1>2, <1>7, <1>12

LEMMA EditsAlone == ASSUME FileInv, Edits PROVE KeepsUsers /\ userEdits' \in Nat
<1>1. userEdits \in Nat /\ userEdits' = userEdits + 1
  BY DEF FileInv, Edits
<1>2. userEdits' # userEdits /\ userEdits' \in Nat
  BY <1>1
<1>3. QED
  BY <1>2 DEF KeepsUsers

LEMMA TypesStep == ASSUME IInv, NEW f \in TextFiles, Types(f) PROVE IInv' /\ KeepsUsers
<1> DEFINE w == Closed(Text(text[f])) \o <<"b", "nl">>
<1>1. /\ TextInv /\ FileInv /\ HomeInv /\ Edits /\ Wrote(f, w)
      /\ UNCHANGED <<hooks, settings, env, backup, owned, shim, recorded, job, commands>>
  BY DEF IInv, Types, Edits
<1>2. Laid(w) /\ (NoBlocks(text[f]) => NoBlocks(w)) /\ OneOf(w) /\ w # Absent
  <2>1. OneOf(text[f])
    BY <1>1, TextThere
  <2>2. Laid(w) /\ (NoBlocks(text[f]) => NoBlocks(w))
    BY <2>1, TypesMore
  <2> HIDE DEF w
  <2>3. QED
    BY <2>2, LaidThere
<1> HIDE DEF w
<1>3. TextInv' /\ text'[f] = w /\ \A g \in TextFiles : g # f => text'[g] = text[g]
  BY <1>1, <1>2, Overwritten
<1>4. \A g \in TextFiles : /\ NoBlocks(text[g]) => NoBlocks(text'[g])
                           /\ text[g] # Absent => text'[g] # Absent
  BY <1>2, <1>3
<1>5. KeepsUsers /\ userEdits' \in Nat
  BY <1>1, EditsAlone
<1>6. FileInv'
  BY <1>1, <1>5 DEF FileInv
<1>7. HomeInv'
  BY <1>1, <1>4 DEF HomeInv, TextFiles
<1>8. JobInv' /\ Removed' /\ Put'
  BY <1>1, <1>4, UserStep
<1>9. QED
  BY <1>3, <1>5, <1>6, <1>7, <1>8 DEF IInv

LEMMA AddsHookStep == ASSUME IInv, AddsHook PROVE IInv' /\ KeepsUsers
<1> DEFINE c == IF hooks.claude \in {NoFile, Bad} THEN {"user"} ELSE hooks.claude \cup {"user"}
<1>1. /\ TextInv /\ FileInv /\ HomeInv /\ Edits
      /\ hooks' = [hooks EXCEPT !.claude = c] \/ hooks' = [hooks EXCEPT !.copilot = "foreign"]
      /\ UNCHANGED <<text, settings, env, backup, owned, shim, recorded, job, commands>>
  BY DEF IInv, AddsHook, Edits
<1>2. hooks \in [claude : {NoFile, Bad} \cup SUBSET ClaudeEntries, copilot : Configs, repo : Configs]
  BY <1>1 DEF FileInv
<1>3. c \in SUBSET ClaudeEntries /\ "foreign" \in Configs
  BY <1>2 DEF ClaudeEntries, Configs
<1>4. /\ \/ hooks.claude \in {NoFile, Bad} /\ c = {"user"}
         \/ c = hooks.claude \cup {"user"}
  OBVIOUS
<1> HIDE DEF c
<1>5. /\ hooks' \in [claude : {NoFile, Bad} \cup SUBSET ClaudeEntries, copilot : Configs, repo : Configs]
      /\ hooks'.claude = hooks.claude \/ hooks'.claude = c
      /\ hooks'.copilot = hooks.copilot \/ hooks'.copilot = "foreign"
      /\ hooks'.repo = hooks.repo
  BY <1>1, <1>2, <1>3
<1>6. KeepsUsers /\ userEdits' \in Nat
  BY <1>1, EditsAlone
<1>7. TextInv' /\ FileInv' /\ HomeInv'
  BY <1>1, <1>5, <1>6 DEF TextInv, FileInv, HomeInv
<1>8. JobInv' /\ Removed' /\ Put'
  BY <1>1, <1>4, <1>5, UserStep
<1>9. QED
  BY <1>6, <1>7, <1>8 DEF IInv

\* With no command at work.
LEMMA Between == ASSUME NoJob, UNCHANGED job, JobInv, env'.code = env.code PROVE JobInv' /\ Removed' /\ Put'
  BY DEF NoJob, JobInv, Removed, Put, Puts

LEMMA MovesStep == ASSUME IInv, Moves PROVE IInv' /\ KeepsUsers
<1>1. PICK l \in {"claude-code", "vscode", "none"} : env' = [env EXCEPT !.live = l]
  BY DEF Moves
<1>2. /\ FileInv /\ JobInv /\ TextInv /\ HomeInv /\ Edits /\ NoJob
      /\ UNCHANGED <<text, hooks, settings, backup, owned, shim, recorded, job, commands>>
  BY DEF IInv, Moves, Edits
<1>3. env' \in Env /\ env'.code = env.code
  <2>1. env \in Env
    BY <1>2 DEF FileInv
  <2>2. QED
    BY <1>1, <2>1 DEF Env
<1>4. KeepsUsers /\ userEdits' \in Nat
  BY <1>2, EditsAlone
<1>5. TextInv' /\ FileInv' /\ HomeInv'
  BY <1>2, <1>3, <1>4 DEF TextInv, FileInv, HomeInv
<1>6. JobInv' /\ Removed' /\ Put'
  BY <1>2, <1>3, Between
<1>7. QED
  BY <1>4, <1>5, <1>6 DEF IInv

LEMMA RelocatesStep == ASSUME IInv, Relocates PROVE IInv' /\ KeepsUsers
<1>1. /\ FileInv /\ JobInv /\ TextInv /\ HomeInv /\ Edits /\ NoJob
      /\ hooks' = [claude |-> IF "ours" \in hooks.claude THEN (hooks.claude \ {"ours"}) \cup {"past"}
                              ELSE hooks.claude,
                   copilot |-> IF hooks.copilot = "ours" THEN "past" ELSE hooks.copilot,
                   repo |-> IF hooks.repo = "ours" THEN "past" ELSE hooks.repo]
      /\ UNCHANGED <<text, settings, env, backup, owned, shim, recorded, job, commands>>
  BY DEF IInv, Relocates, Edits
<1>2. hooks' \in [claude : {NoFile, Bad} \cup SUBSET ClaudeEntries, copilot : Configs, repo : Configs]
  <2>1. hooks \in [claude : {NoFile, Bad} \cup SUBSET ClaudeEntries, copilot : Configs, repo : Configs]
    BY <1>1 DEF FileInv
  <2>2. (IF "ours" \in hooks.claude THEN (hooks.claude \ {"ours"}) \cup {"past"} ELSE hooks.claude)
        \in {NoFile, Bad} \cup SUBSET ClaudeEntries
    <3>1. hooks.claude = NoFile \/ hooks.claude = Bad \/ hooks.claude \subseteq ClaudeEntries
      BY <2>1
    <3>2. "ours" \notin NoFile /\ "ours" \notin Bad /\ "past" \in ClaudeEntries
      BY DEF NoFile, Bad, ClaudeEntries
    <3>3. QED
      BY <3>1, <3>2
  <2>3. /\ (IF hooks.copilot = "ours" THEN "past" ELSE hooks.copilot) \in Configs
        /\ (IF hooks.repo = "ours" THEN "past" ELSE hooks.repo) \in Configs
    BY <2>1 DEF Configs
  <2>4. QED
    BY <1>1, <2>2, <2>3
<1>3. KeepsUsers /\ userEdits' \in Nat
  BY <1>1, EditsAlone
<1>4. TextInv' /\ FileInv' /\ HomeInv'
  BY <1>1, <1>2, <1>3 DEF TextInv, FileInv, HomeInv
<1>5. JobInv' /\ Removed' /\ Put'
  BY <1>1, Between
<1>6. QED
  BY <1>3, <1>4, <1>5 DEF IInv

-----------------------------------------------------------------------------
(* Commands start *)

\* What a host needs is there already.
Settled(host) ==
    /\ host = "claude-code" =>
           "ours" \in hooks.claude /\ (HasGuidance("claude-code") \/ Elsewhere)
    /\ host = "copilot-cli" =>
           hooks.copilot # "absent" /\ (HasGuidance("copilot-cli") \/ DetectHost # "copilot-cli")
    /\ host = "vscode" =>
           /\ hooks.copilot # "absent" /\ shim = "full"
           /\ HasGuidance("vscode") \/ DetectHost # "vscode"

LEMMA StartsStep ==
    ASSUME IInv, NEW cmd \in Commands, NEW host \in Hosts \cup {"none"},
           NEW todo \in Seq(OpsOf(cmd)), Starts(cmd, host, todo),
           Ordered(todo), ProbesLast(todo),
           Has(todo, "probe") \/ Has(todo, "probePony") => host = "vscode",
           Has(todo, "inject") => host = "unknown" /\ ~env.code,
           cmd = "uninstall" => \A op \in UserRemovals : Has(todo, op),
           cmd \in Puts => \/ Complete(todo, host, PlanOp(cmd))
                           \/ cmd = "doctor" /\ todo = <<>> /\ Settled(host)
    PROVE  IInv' /\ KeepsUsers
<1>1. /\ FileInv /\ commands' = commands + 1
      /\ job' = [cmd |-> cmd, host |-> host, todo |-> todo]
      /\ UNCHANGED <<Touched, recorded, env, userEdits>>
  BY DEF IInv, Starts
<1>2. TextInv' /\ FileInv' /\ HomeInv' /\ KeepsUsers
  <2>1. TextInv' /\ \A f \in TextFiles : Kept(text'[f], text[f])
    BY <1>1, TextsAlone DEF IInv, Touched
  <2>2. commands' \in Nat
    BY <1>1 DEF FileInv
  <2>3. FileInv' /\ HomeInv'
    BY <1>1, <2>2 DEF IInv, FileInv, HomeInv, Touched
  <2>4. KeepsUsers
    BY <1>1, <2>1, OnlyTexts DEF Touched
  <2>5. QED
    BY <2>1, <2>3, <2>4
<1>3. job'.cmd = cmd /\ job'.host = host /\ job'.todo = todo
  BY <1>1
<1>4. JobInv'
  <2>1. job' \in [cmd : Commands, host : Hosts \cup {"none"}, todo : Seq(OpsOf(cmd))]
    BY <1>1
  <2>2. env' = env
    BY <1>1
  <2>3. QED
    BY <1>3, <2>1, <2>2 DEF JobInv
<1>5. Removed'
  <2>1. cmd = "uninstall" => \A op \in {"unclaude", "uncopilot", "unshim", "unrc", "unsettings", "uninject",
            "unguideClaude", "unguideCopilot", "unguideVscode"} : Has(todo, op)
    BY DEF UserRemovals
  <2>2. QED
    BY <1>3, <2>1 DEF Removed
<1>6. Put'
  <2>1. CASE cmd \notin Puts
    BY <1>3, <2>1 DEF Put
  <2>2. CASE Complete(todo, host, PlanOp(cmd))
    BY <1>3, <2>2 DEF Put, Complete, HookPut
  <2>3. CASE cmd = "doctor" /\ todo = <<>> /\ Settled(host)
    <3>1. /\ hooks' = hooks /\ shim' = shim /\ (Elsewhere' <=> Elsewhere) /\ DetectHost' = DetectHost
          /\ \A h \in {"claude-code", "copilot-cli", "vscode"} : HasGuidance(h)' <=> HasGuidance(h)
      BY <1>1, GuidanceAlone DEF Touched, Elsewhere, DetectHost
    <3>2. QED
      BY <1>3, <2>3, <3>1 DEF Put, Settled, HookPut, HookFile, Idles
  <2>4. QED
    BY <2>1, <2>2, <2>3
<1>7. QED
  BY <1>2, <1>4, <1>5, <1>6 DEF IInv

\* The commands but those that install.
LEMMA OthersStart == ASSUME IInv, ShimInstall \/ Uninstall \/ UninstallProject PROVE IInv' /\ KeepsUsers
<1>1. CASE ShimInstall
  <2> DEFINE p == <<"rc", "settings">>
             s == ShimOps \o p
  <2>1. Starts("shim", "vscode", s)
    BY <1>1 DEF ShimInstall
  <2>2. Plain(p)
    <3>1. p \in Seq(PutOps) /\ Len(p) = 2 /\ p[1] = "rc" /\ p[2] = "settings"
      BY DEF PutOps
    <3> HIDE DEF p
    <3>2. \A i \in 1 .. Len(p) : p[i] \in {"rc", "settings"}
      BY <3>1
    <3>3. QED
      BY <3>1, <3>2 DEF Plain, Shaped, Ordered, ProbesLast, Has
  <2> HIDE DEF p
  <2>3. Plain(s)
    <3>1. Shaped(p)
      BY <2>2 DEF Plain
    <3>2. QED
      BY <2>2, <3>1, PlainShim, ShapedGlued
  <2> HIDE DEF s
  <2>4. s \in Seq(OpsOf("shim")) /\ "shim" \in Commands /\ "vscode" \in Hosts
    BY <2>3 DEF Plain, Shaped, OpsOf, Commands, Hosts
  <2>5. QED
    BY <2>1, <2>3, <2>4, StartsStep DEF Plain, Shaped, Puts
<1>2. CASE Uninstall
  <2> DEFINE s == UninstallOps
  <2>1. Starts("uninstall", DetectHost, s)
    BY <1>2 DEF Uninstall
  <2>2. /\ s \in Seq(UserRemovals) /\ Len(s) = 9
        /\ s[1] = "unclaude" /\ s[2] = "uncopilot" /\ s[3] = "unshim" /\ s[4] = "unrc"
        /\ s[5] = "unsettings" /\ s[6] = "uninject" /\ s[7] = "unguideClaude"
        /\ s[8] = "unguideCopilot" /\ s[9] = "unguideVscode"
    BY DEF UninstallOps, UserRemovals
  <2> HIDE DEF s
  <2>3. \A i \in 1 .. Len(s) : s[i] \in UserRemovals
    BY <2>2, ElementOfSeq
  <2>4. /\ ~Has(s, "probe") /\ ~Has(s, "probePony") /\ ~Has(s, "inject")
        /\ Ordered(s) /\ ProbesLast(s)
    BY <2>3 DEF Ordered, ProbesLast, Has, UserRemovals
  <2>5. \A op \in UserRemovals : Has(s, op)
    <3>1. /\ 1 \in 1 .. Len(s) /\ 2 \in 1 .. Len(s) /\ 3 \in 1 .. Len(s) /\ 4 \in 1 .. Len(s)
          /\ 5 \in 1 .. Len(s) /\ 6 \in 1 .. Len(s) /\ 7 \in 1 .. Len(s) /\ 8 \in 1 .. Len(s)
          /\ 9 \in 1 .. Len(s)
      BY <2>2
    <3>2. QED
      BY <2>2, <3>1 DEF UserRemovals, Has
  <2>6. s \in Seq(OpsOf("uninstall")) /\ "uninstall" \in Commands
    BY <2>2 DEF OpsOf, Commands
  <2>7. DetectHost \in Hosts
    BY Detected DEF IInv
  <2>8. \E h \in Hosts : h = DetectHost /\ Starts("uninstall", h, s)
    BY <2>1, <2>7
  <2>9. QED
    BY <2>4, <2>5, <2>6, <2>8, StartsStep DEF Puts
<1>3. CASE UninstallProject
  <2> DEFINE s == <<"unrepo", "unrepoMd">>
  <2>1. Starts("uninstallProject", DetectHost, s)
    BY <1>3 DEF UninstallProject
  <2>2. s \in Seq(RepoRemovals) /\ Len(s) = 2 /\ s[1] = "unrepo" /\ s[2] = "unrepoMd"
    BY DEF RepoRemovals
  <2> HIDE DEF s
  <2>3. \A i \in 1 .. Len(s) : s[i] \in {"unrepo", "unrepoMd"}
    BY <2>2
  <2>4. /\ ~Has(s, "probe") /\ ~Has(s, "probePony") /\ ~Has(s, "inject")
        /\ Ordered(s) /\ ProbesLast(s)
    BY <2>3 DEF Ordered, ProbesLast, Has
  <2>5. s \in Seq(OpsOf("uninstallProject")) /\ "uninstallProject" \in Commands
    BY <2>2 DEF OpsOf, Commands
  <2>6. DetectHost \in Hosts
    BY Detected DEF IInv
  <2>7. \E h \in Hosts : h = DetectHost /\ Starts("uninstallProject", h, s)
    BY <2>1, <2>6
  <2>8. QED
    BY <2>4, <2>5, <2>7, StartsStep DEF Puts
<1>4. QED
  BY <1>1, <1>2, <1>3

LEMMA InstallStep ==
    ASSUME IInv, NEW forced \in {"auto", "claude-code", "copilot-cli", "vscode"},
           NEW project \in BOOLEAN, NEW pony \in BOOLEAN, Install(forced, project, pony)
    PROVE  IInv' /\ KeepsUsers
<1> DEFINE host == IF forced = "auto" THEN DetectHost ELSE forced
           auto == forced = "auto"
           s == InstallOps(host, auto, project, pony)
           cmd == IF project THEN "installProject" ELSE "install"
<1>1. Starts(cmd, host, s)
  BY DEF Install
<1>2. DetectHost \in Hosts /\ (DetectHost = "unknown" => ~env.code)
  BY Detected DEF IInv
<1>3. host \in Hosts /\ (host = "unknown" => ~env.code) /\ auto \in BOOLEAN
  BY <1>2 DEF Hosts
<1> HIDE DEF host, auto
<1>4. Fits(s, host) /\ Complete(s, host, PlanOp(cmd))
  <2>1. PlanOp(cmd) = IF project THEN "planRepo" ELSE "planCopilot"
    BY DEF PlanOp
  <2>2. QED
    BY <1>3, <2>1, Installs
<1> HIDE DEF s
<1>5. cmd \in Commands /\ OpsOf(cmd) = PutOps /\ cmd # "uninstall"
  BY DEF Commands, OpsOf
<1> HIDE DEF cmd
<1>6. /\ s \in Seq(OpsOf(cmd)) /\ Ordered(s) /\ ProbesLast(s)
      /\ Has(s, "probe") \/ Has(s, "probePony") => host = "vscode"
      /\ Has(s, "inject") => host = "unknown" /\ ~env.code
      /\ Complete(s, host, PlanOp(cmd))
  BY <1>3, <1>4, <1>5 DEF Fits, Shaped
<1>7. QED
  BY <1>1, <1>3, <1>5, <1>6, StartsStep

\* Nothing is missing.
LEMMA Finds ==
    ASSUME FileInv, HomeInv, MissingTiers = {} \/ recorded = "unknown" PROVE Settled(recorded)
<1>1. recorded \in Hosts \cup {"none"} /\ DetectHost \in Hosts
  BY Detected DEF FileInv
<1>2. ASSUME NEW t \in TierIds(recorded), recorded \in {"claude-code", "copilot-cli", "vscode"} PROVE Live(t)
  BY <1>2 DEF MissingTiers
<1>3. CASE recorded = "claude-code"
  <2>1. "claude-hook" \in TierIds(recorded) /\ "guidance" \in TierIds(recorded)
    BY <1>3 DEF TierIds
  <2>2. "ours" \in hooks.claude /\ HasGuidance(DetectHost)
    <3>1. Live("claude-hook") /\ Live("guidance")
      BY <1>2, <1>3, <2>1
    <3>2. QED
      BY <3>1 DEF Live
  <2>3. DetectHost = "claude-code" \/ Elsewhere
    <3>1. hooks.claude # NoFile
      BY <2>2 DEF NoFile
    <3>2. env.live \in {"claude-code", "vscode", "none"}
      BY DEF FileInv, Env
    <3>3. CASE env.live # "none"
      BY <3>2, <3>3 DEF DetectHost, Elsewhere
    <3>4. CASE env.live = "none" /\ ~(env.copilot \/ env.copilotDir)
      BY <3>1, <3>4 DEF DetectHost
    <3>5. QED
      BY <3>3, <3>4 DEF Elsewhere
  <2>4. QED
    BY <1>3, <2>2, <2>3 DEF Settled
<1>4. CASE recorded = "copilot-cli"
  <2>1. "copilot-hook" \in TierIds(recorded) /\ "guidance" \in TierIds(recorded)
    BY <1>4 DEF TierIds
  <2>2. Managed(hooks.copilot) /\ HasGuidance(DetectHost)
    <3>1. Live("copilot-hook") /\ Live("guidance")
      BY <1>2, <1>4, <2>1
    <3>2. QED
      BY <3>1 DEF Live
  <2>3. QED
    BY <1>4, <2>2 DEF Settled, Managed
<1>5. CASE recorded = "vscode"
  <2>1. "shim" \in TierIds(recorded) /\ "vscode-hook" \in TierIds(recorded) /\ "guidance" \in TierIds(recorded)
    BY <1>5 DEF TierIds
  <2>2. shim = "full" /\ Managed(hooks.copilot) /\ HasGuidance(DetectHost)
    <3>1. Live("shim") /\ Live("vscode-hook") /\ Live("guidance")
      BY <1>2, <1>5, <2>1
    <3>2. QED
      BY <3>1 DEF Live
  <2>3. QED
    BY <1>5, <2>2 DEF Settled, Managed
<1>6. CASE recorded \in {"unknown", "none"}
  BY <1>6 DEF Settled
<1>7. QED
  BY <1>1, <1>3, <1>4, <1>5, <1>6 DEF Hosts

LEMMA DoctorStep == ASSUME IInv, Doctor PROVE IInv' /\ KeepsUsers
<1>1. /\ Starts("doctor", recorded, Repair) /\ recorded \in Hosts \cup {"none"}
      /\ FileInv /\ HomeInv
  BY DEF IInv, Doctor, FileInv
<1>2. "doctor" \in Commands /\ OpsOf("doctor") = PutOps
  BY DEF Commands, OpsOf
<1>3. CASE MissingTiers = {} \/ recorded = "unknown"
  <2>1. Repair = <<>> /\ Settled(recorded)
    BY <1>1, <1>3, Finds DEF Repair
  <2>2. /\ <<>> \in Seq(OpsOf("doctor")) /\ Ordered(<<>>) /\ ProbesLast(<<>>)
        /\ \A op : ~Has(<<>>, op)
    BY <1>2, PlainNone, HasNone DEF Plain, Shaped
  <2>3. Starts("doctor", recorded, <<>>)
    BY <1>1, <2>1
  <2>4. \E h \in Hosts \cup {"none"} : h = recorded /\ Starts("doctor", h, <<>>) /\ Settled(h)
    BY <1>1, <2>1, <2>3
  <2>5. QED
    BY <1>2, <2>2, <2>4, StartsStep
<1>4. CASE ~(MissingTiers = {} \/ recorded = "unknown")
  <2> DEFINE s == InstallOps(recorded, FALSE, FALSE, FALSE)
  <2>1. Repair = s
    BY <1>4 DEF Repair
  <2>2. recorded \in Hosts
    BY <1>1, <1>4 DEF MissingTiers
  <2>3. Fits(s, recorded) /\ Complete(s, recorded, PlanOp("doctor"))
    BY <2>2, Installs DEF PlanOp
  <2> HIDE DEF s
  <2>4. /\ s \in Seq(OpsOf("doctor")) /\ Ordered(s) /\ ProbesLast(s)
        /\ Has(s, "probe") \/ Has(s, "probePony") => recorded = "vscode"
        /\ ~Has(s, "inject")
    BY <1>2, <1>4, <2>3 DEF Fits, Shaped
  <2>5. Starts("doctor", recorded, s)
    BY <1>1, <2>1
  <2>6. \E h \in Hosts \cup {"none"} : /\ h = recorded /\ Starts("doctor", h, s)
                                      /\ Complete(s, h, PlanOp("doctor"))
    BY <2>2, <2>3, <2>5
  <2>7. QED
    BY <1>2, <2>4, <2>6, StartsStep
<1>5. QED
  BY <1>3, <1>4

-----------------------------------------------------------------------------
(* The invariant *)

LEMMA InstallStarts == ASSUME InstallInit PROVE IInv
<1>1. /\ text \in [TextFiles -> {Absent, <<"a", "nl">>, <<"a">>}]
      /\ hooks \in [claude : {NoFile, Bad} \cup SUBSET {"user", "rtk"},
                    copilot : {"absent", "foreign"}, repo : {"absent", "foreign"}]
      /\ settings \in {NoFile, Bad} \cup SUBSET {"userPath", "comments"}
      /\ backup = NoFile /\ owned = {} /\ shim = "absent" /\ recorded = "none"
      /\ env \in [live : {"claude-code", "vscode", "none"}, copilot : BOOLEAN, code : BOOLEAN,
                  copilotDir : {FALSE}]
      /\ job = Quiet /\ commands = 0 /\ userEdits = 0
  BY DEF InstallInit
<1> DEFINE l == <<"a", "nl">>
           w == <<"a">>
<1>2. Laid(l) /\ NoBlocks(l) /\ Laid(w) /\ NoBlocks(w)
  <2>1. /\ l \in Seq(Tokens) /\ Len(l) = 2 /\ l[1] = "a" /\ l[2] = "nl"
        /\ w \in Seq(Tokens) /\ Len(w) = 1 /\ w[1] = "a"
    BY DEF Tokens, Words
  <2> HIDE DEF l, w
  <2>2. (\A i \in 1 .. Len(l) : l[i] \notin Blocks) /\ \A i \in 1 .. Len(w) : w[i] \notin Blocks
    BY <2>1, Sorts DEF Blocks
  <2>3. NoBlocks(l) /\ NoBlocks(w)
    BY <2>2 DEF NoBlocks
  <2>4. QED
    BY <2>1, <2>3, Cleared
<1> HIDE DEF l, w
<1>3. /\ text = [f \in TextFiles |-> text[f]]
      /\ \A f \in TextFiles : text[f] = Absent \/ text[f] = l \/ text[f] = w
  BY <1>1 DEF l, w
<1>4. TextInv
  BY <1>2, <1>3 DEF TextInv
<1>5. HomeInv
  BY <1>2, <1>3, AbsentText DEF HomeInv, TextFiles
<1>6. FileInv
  <2>1. hooks \in [claude : {NoFile, Bad} \cup SUBSET ClaudeEntries, copilot : Configs, repo : Configs]
    BY <1>1 DEF ClaudeEntries, Configs
  <2>2. settings \in {NoFile, Bad} \cup SUBSET Marks
    BY <1>1 DEF Marks
  <2>3. env \in Env
    BY <1>1 DEF Env
  <2>4. QED
    BY <1>1, <2>1, <2>2, <2>3 DEF FileInv
<1>7. JobInv /\ Removed /\ Put
  <2>1. /\ job.cmd = "none" /\ job.host = "unknown" /\ job.todo = <<>>
        /\ job \in [cmd : {"none"}, host : {"unknown"}, todo : {<<>>}]
    BY <1>1 DEF Quiet
  <2>2. /\ job \in [cmd : Commands, host : Hosts \cup {"none"}, todo : Seq(OpsOf(job.cmd))]
    BY <2>1, EmptySeq DEF Commands, Hosts
  <2>3. Ordered(job.todo) /\ ProbesLast(job.todo) /\ \A op : ~Has(job.todo, op)
    BY <2>1, PlainNone, HasNone DEF Plain, Shaped
  <2>4. QED
    BY <2>1, <2>2, <2>3 DEF JobInv, Removed, Put
<1>8. QED
  BY <1>4, <1>5, <1>6, <1>7 DEF IInv

LEMMA InstallHolds == ASSUME IInv, [InstallNext]_installVars PROVE IInv' /\ KeepsUsers
<1>1. CASE UNCHANGED installVars
  <2>1. UNCHANGED <<text, hooks, settings, backup, owned, shim, recorded, env, job, commands, userEdits>>
    BY <1>1 DEF installVars
  <2>2. TextInv' /\ FileInv' /\ HomeInv' /\ JobInv' /\ KeepsUsers
    BY <2>1 DEF IInv, TextInv, FileInv, HomeInv, JobInv, KeepsUsers
  <2>3. Removed' /\ Put'
    <3>1. Removed /\ Put
      BY DEF IInv
    <3>2. QED
      BY <2>1, <3>1, UserStep DEF IInv
  <2>4. QED
    BY <2>2, <2>3 DEF IInv
<1>2. CASE \E h \in {"auto", "claude-code", "copilot-cli", "vscode"}, project, pony \in BOOLEAN :
               Install(h, project, pony)
  BY <1>2, InstallStep
<1>3. CASE ShimInstall \/ Uninstall \/ UninstallProject
  BY <1>3, OthersStart
<1>4. CASE Doctor
  BY <1>4, DoctorStep
<1>5. CASE WriteText
  BY <1>5, WriteTextStep
<1>6. CASE WriteInjection
  BY <1>6, WriteInjectionStep
<1>7. CASE WriteOwned
  BY <1>7, WriteOwnedStep
<1>8. CASE WriteClaudeHook
  BY <1>8, WriteClaudeHookStep
<1>9. CASE PlanHook("copilot", "planCopilot") \/ PlanHook("repo", "planRepo")
  BY <1>9, PlanHookStep
<1>10. CASE SwapHook("copilot", "swapCopilot") \/ SwapHook("repo", "swapRepo")
  BY <1>10, SwapHookStep
<1>11. CASE WriteShim
  BY <1>11, WriteShimStep
<1>12. CASE WriteSettings
  BY <1>12, WriteSettingsStep
<1>13. CASE \E pass \in BOOLEAN : Probe(pass)
  BY <1>13, ProbeStep
<1>14. CASE Record
  BY <1>14, RecordStep
<1>15. CASE RemoveHook
  BY <1>15, RemoveHookStep
<1>16. CASE RemoveShim
  BY <1>16, RemoveShimStep
<1>17. CASE RemoveText
  BY <1>17, RemoveTextStep
<1>18. CASE RemoveSettings
  BY <1>18, RemoveSettingsStep
<1>19. CASE RemoveInjection
  BY <1>19, RemoveInjectionStep
<1>20. CASE RemoveGuidance
  BY <1>20, RemoveGuidanceStep
<1>21. CASE End \/ Killed
  BY <1>21, RestStep
<1>22. CASE \E f \in TextFiles : Types(f)
  BY <1>22, TypesStep
<1>23. CASE AddsHook
  BY <1>23, AddsHookStep
<1>24. CASE Moves
  BY <1>24, MovesStep
<1>25. CASE Relocates
  BY <1>25, RelocatesStep
<1>26. QED
  BY <1>1, <1>2, <1>3, <1>4, <1>5, <1>6, <1>7, <1>8, <1>9, <1>10, <1>11, <1>12, <1>13, <1>14,
     <1>15, <1>16, <1>17, <1>18, <1>19, <1>20, <1>21, <1>22, <1>23, <1>24, <1>25 DEF InstallNext

LEMMA InstallInvariant == InstallSpec => []IInv
<1>1. InstallInit => IInv
  BY InstallStarts
<1>2. IInv /\ [InstallNext]_installVars => IInv'
  BY InstallHolds
<1>3. QED
  BY <1>1, <1>2, PTL DEF InstallSpec

-----------------------------------------------------------------------------

\* The types: texts are made of lines and blocks, the hooks and the settings hold known
\* entries, and only ctx's own files are counted as such.
THEOREM InstallTypes == InstallSpec => []InstallTypeOK
<1>1. IInv => InstallTypeOK
  <2> SUFFICES ASSUME IInv PROVE InstallTypeOK
    OBVIOUS
  <2>1. \A f \in TextFiles : text[f] = Absent \/ text[f] \in Seq(Tokens)
    BY DEF IInv, TextInv, Laid
  <2>2. job.host \in Hosts \cup {"none"}
    BY DEF IInv, JobInv
  <2>3. QED
    BY <2>1, <2>2 DEF IInv, FileInv, InstallTypeOK
<1>2. QED
  BY <1>1, InstallInvariant, PTL

\* An uninstall that comes to its end has removed all that commands of any host have written
\* for the user, but for hooks of an earlier place and blocks of a host no longer detected.
THEOREM UninstallsClean == InstallSpec => []UninstalledClean
<1>1. IInv => UninstalledClean
  <2> SUFFICES ASSUME IInv, job.cmd = "uninstall", job.todo = <<>>
               PROVE  /\ "ours" \notin hooks.claude /\ ~Managed(hooks.copilot)
                      /\ shim = "absent" /\ "shim" \notin settings
                      /\ \A f \in {"rc", "claudeMd", "copilotMd"} : \A b \in Blocks : ~Holds(text[f], b)
                      /\ owned \subseteq {"prefix.vscode"}
                      /\ InjectionFile(DetectHost) = "homeMd" => ~Holds(text["homeMd"], "prefix")
    BY DEF UninstalledClean
  <2>1. \A op : ~Has(job.todo, op)
    BY HasNone
  <2>2. /\ "ours" \notin hooks.claude /\ ~Managed(hooks.copilot)
        /\ shim = "absent" /\ "shim" \notin settings
        /\ NoBlocks(text["rc"]) /\ NoBlocks(text["claudeMd"]) /\ NoBlocks(text["copilotMd"])
        /\ NoBlocks(text["homeMd"]) \/ Elsewhere
        /\ owned \cap {"CTX.md", "PONYTAIL.md"} = {} /\ owned \cap {"guide.vscode", "lazy.vscode"} = {}
    BY <2>1 DEF IInv, Removed
  <2>3. owned \subseteq {"prefix.vscode"}
    BY <2>2 DEF IInv, FileInv, OwnedFiles
  <2>4. ASSUME NEW f \in TextFiles, NoBlocks(text[f]), NEW b \in Blocks PROVE ~Holds(text[f], b)
    <3>1. DOMAIN text[f] = 1 .. Len(text[f])
      <4>1. CASE text[f] = Absent
        BY <4>1 DEF Absent
      <4>2. CASE text[f] # Absent
        BY <4>2, TextThere, LenProperties DEF IInv, Laid
      <4>3. QED
        BY <4>1, <4>2
    <3>2. QED
      BY <2>4, <3>1 DEF NoBlocks, Holds
  <2>5. \A f \in {"rc", "claudeMd", "copilotMd"} : \A b \in Blocks : ~Holds(text[f], b)
    BY <2>2, <2>4 DEF TextFiles
  <2>6. InjectionFile(DetectHost) = "homeMd" => ~Holds(text["homeMd"], "prefix")
    <3>1. Elsewhere => InjectionFile(DetectHost) # "homeMd"
      BY Detected DEF IInv
    <3>2. NoBlocks(text["homeMd"]) => ~Holds(text["homeMd"], "prefix")
      BY <2>4, Sorts DEF TextFiles
    <3>3. QED
      BY <2>2, <3>1, <3>2
  <2>7. QED
    BY <2>2, <2>3, <2>5, <2>6
<1>2. QED
  BY <1>1, InstallInvariant, PTL

\* An install, also one into a repository, or a repair that comes to its end has every tier in
\* place that is recorded for the host, and the hook in the file the command puts it in, unless
\* that file is somebody else's.
THEOREM InstallsLive == InstallSpec => []InstalledIsLive
<1>1. IInv => InstalledIsLive
  <2> SUFFICES ASSUME IInv, job.cmd \in Puts, job.todo = <<>>,
                      recorded # "unknown", recorded = job.host, DetectHost = recorded,
                      NEW t \in TierIds(recorded)
               PROVE  IF t \in {"copilot-hook", "vscode-hook"}
                      THEN Managed(HookFile) \/ HookFile = "foreign" ELSE Live(t)
    BY DEF InstalledIsLive, Puts
  <2>1. \A op : ~Has(job.todo, op)
    BY HasNone
  <2>2. Put /\ FileInv /\ HomeInv
    BY DEF IInv
  <2>3. HookPut => Managed(HookFile) \/ HookFile = "foreign"
    <3>1. HookFile \in Configs
      BY <2>2 DEF FileInv, HookFile
    <3>2. QED
      BY <2>1, <3>1 DEF HookPut, Configs, Managed
  <2>4. Elsewhere => DetectHost # "claude-code"
    BY <2>2, Detected
  <2>5. CASE recorded = "claude-code"
    <3>1. "ours" \in hooks.claude /\ HasGuidance(DetectHost)
      BY <2>1, <2>2, <2>4, <2>5 DEF Put
    <3>2. QED
      BY <2>5, <3>1 DEF TierIds, Live
  <2>6. CASE recorded = "copilot-cli"
    <3>1. HookPut /\ HasGuidance(DetectHost)
      BY <2>1, <2>2, <2>6 DEF Put, Idles
    <3>2. QED
      BY <2>3, <2>6, <3>1 DEF TierIds, Live
  <2>7. CASE recorded = "vscode"
    <3>1. HookPut /\ shim = "full" /\ HasGuidance(DetectHost)
      BY <2>1, <2>2, <2>7 DEF Put, Idles
    <3>2. QED
      BY <2>3, <2>7, <3>1 DEF TierIds, Live
  <2>8. DetectHost \in Hosts
    BY Detected DEF IInv
  <2>9. QED
    BY <2>5, <2>6, <2>7, <2>8 DEF Hosts
<1>2. QED
  BY <1>1, InstallInvariant, PTL

\* No step of ctx touches what is the user's: lines of text stay, in order and apart (but two
\* lines whose only end of line was the one the shell's block brought), hooks of others stay,
\* files that do not parse stay, and comments are in the backup.
THEOREM UsersSafe == InstallSpec => UsersKept
<1>1. IInv /\ [InstallNext]_installVars => [KeepsUsers]_installVars
  BY InstallHolds
<1>2. QED
  BY <1>1, InstallInvariant, PTL DEF InstallSpec, UsersKept
=============================================================================
