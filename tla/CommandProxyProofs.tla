------------------------ MODULE CommandProxyProofs -------------------------
(***************************************************************************)
(* The safety properties of CommandProxy, for all handlers, exit codes,    *)
(* signals and sizes of text.  None of them is inductive: each speaks of   *)
(* the end of an invocation, and what makes it true happens along the way. *)
(* IInv says what is known at every point of the way.                      *)
(***************************************************************************)
EXTENDS CommandProxy, TLAPS

\* Which route leads where: only a captured run is filtered, only a compressed one
\* is deduplicated, and only a compressed one is failed open.
OnRoute ==
    /\ pc \in {"captured", "spawnAux", "waitAux", "respawn", "waitAgain"} => Captures
    /\ pc \in {"dedup", "emit", "commit", "failOpen"} => route = "compress"
    /\ pc = "account" => route \in {"stream", "capture"}

\* Nothing has been written for the reader up to the first write of a body; a child
\* that streams is writing it.
Silent ==
    /\ pc \in {"dispatch", "spawn", "spawnAux", "waitAux", "respawn", "captured",
               "dedup", "emit", "failOpen", "waitAgain"} => shown = <<>>
    /\ pc = "wait" /\ Captures => shown = <<>>
    /\ pc = "wait" /\ ~Captures => shown = <<"tool">>

\* A body can only be the first thing written, and after the first write there is one.
FirstIsBody ==
    /\ \A i \in DOMAIN shown : shown[i] \in Body => i = 1
    /\ pc \in {"account", "commit", "flush", "exit"} => shown # <<>>

\* The exit code on its way from the child to the end of ctx.
CodeCarried ==
    /\ pc \in {"wait", "waitAgain"} /\ child = "ended" => toolExit # NoExit
    /\ pc \in {"spawnAux", "waitAux", "respawn", "captured", "dedup", "emit", "commit"}
          => raw.exit = toolExit
    /\ pc \in {"spawnAux", "waitAux", "captured", "dedup", "emit", "commit"}
          => toolExit # NoExit
    /\ pc \in {"account", "flush"} => exit = toolExit /\ exit # NoExit

\* How often a handler that drives one child has started it, and where it never is.
OneChild ==
    inv.handler \notin AuxSpawn \cup Respawn =>
        /\ runs <= 1
        /\ pc \in {"dispatch", "spawn", "failOpen"} => runs = 0
        /\ pc \notin {"spawnAux", "waitAux", "respawn", "waitAgain"}

\* The ledger is empty until the deferred writes; they know a hit by its marker.
Booked ==
    /\ pc \notin {"flush", "exit"} => ledger = {}
    /\ pc = "emit" => (result.dedup = "hit" <=> result.content = "marker")
    /\ pc = "dedup" => result.dedup = "none" /\ result.content # "marker"
    /\ pc = "commit" => (result.dedup = "hit" <=> \E i \in DOMAIN shown : shown[i] = "marker")
    /\ pc = "account" => \A i \in DOMAIN shown : shown[i] # "marker"

IInv ==
    /\ TypeOK /\ OnRoute /\ Silent /\ FirstIsBody /\ CodeCarried /\ OneChild /\ Booked
    /\ ExitIdentity /\ LedgerHonest /\ LossyIsRecoverable

-----------------------------------------------------------------------------
(* The quality gate *)

\* What makeFilteredResult returns is a result.
LEMMA GateResultType ==
    ASSUME NEW h, NEW r, NEW view \in Views, NEW save, NEW diskOk \in BOOLEAN
    PROVE  GateResult(h, r, view, save, diskOk) \in
              [content : {"filtered", "raw", "safeFull"}, status : Statuses,
               pointer : BOOLEAN, omission : OmissionKinds \cup {"none"}]
  <1>1. SnapshotTaken(h, r, view, save, diskOk) \in BOOLEAN
    BY DEF SnapshotTaken, ShouldSave
  <1>2. InitialStatus(h, r, view) \in Statuses
    BY DEF InitialStatus, Statuses
  <1>3. view.omission \in OmissionKinds \cup {"none"}
    BY DEF Views
  <1> QED BY <1>1, <1>2, <1>3 DEF GateResult, Statuses

\* Whatever the text, the handler and the disk: a replacement is shipped without a
\* snapshot only by a masking handler, and is then flagged.
LEMMA GateRecoverable ==
    ASSUME NEW h, NEW r, NEW view, NEW save, NEW diskOk
    PROVE  LET g == GateResult(h, r, view, save, diskOk)
           IN  /\ g.content = "filtered" /\ g.omission = "replacement" /\ ~g.pointer
                     => h \in Masking /\ g.status = "inflated"
               /\ h \notin Masking /\ g.omission = "replacement" => g.pointer
  BY DEF GateResult, Declared

-----------------------------------------------------------------------------
(* Types *)

LEMMA ExitCodeType ==
    ASSUME NEW end \in ChildEnd PROVE ResolveExitCode(end) \in ExitCodes
  BY CodesAssumption DEF ChildEnd, ResolveExitCode, ExitCodes









LEMMA NoExitIsNoCode == NoExit \notin ExitCodes /\ {0, 1, 127} \subseteq ExitCodes
  <1>1. ASSUME NEW n \in Signals \cup {0} PROVE 128 + n \in Nat
    BY CodesAssumption
  <1>2. ASSUME NEW c \in ExitCodes PROVE c \in Nat
    <2>1. c \in Codes \cup {0, 1, 127} \/ \E n \in Signals \cup {0} : c = 128 + n
      BY DEF ExitCodes
    <2>2. CASE c \in Codes \cup {0, 1, 127}
      BY <2>2, CodesAssumption
    <2>3. CASE \E n \in Signals \cup {0} : c = 128 + n
      BY <2>3, <1>1
    <2> QED BY <2>1, <2>2, <2>3
  <1>3. {0, 1, 127} \subseteq ExitCodes
    BY DEF ExitCodes
  <1> QED BY <1>2, <1>3, CodesAssumption

LEMMA Said ==
    ASSUME NEW text \in Seq(Body \cup Notes), NEW x \in Body \cup Notes
    PROVE  Append(text, x) \in Seq(Body \cup Notes)
  OBVIOUS

LEMMA Joined ==
    ASSUME NEW S, NEW s \in Seq(S), NEW t \in Seq(S) PROVE s \o t \in Seq(S)
  OBVIOUS

LEMMA InitType == Init => TypeOK
  BY DEF Init, TypeOK, Invocation, Routes, NoRaw, NoResult, Body, Statuses, Ledgers

\* Every action keeps the types.
LEMMA NextType == TypeOK /\ [Next]_vars => TypeOK'
  <1> SUFFICES ASSUME TypeOK, [Next]_vars PROVE TypeOK'
    OBVIOUS
  <1>1. CASE DispatchRaw
    BY <1>1 DEF TypeOK, DispatchRaw, Routes
  <1>2. CASE Refuse
    BY <1>2, Said, NoExitIsNoCode DEF TypeOK, Refuse, Notes
  <1>3. CASE Gate
    BY <1>3 DEF TypeOK, Gate, Routes
  <1>4. CASE SpawnThrows
    BY <1>4, Said, NoExitIsNoCode DEF TypeOK, SpawnThrows, ThrowTo, Notes
  <1>5. CASE Start
    BY <1>5 DEF TypeOK, Start, Body, Captures
  <1>6. CASE AuxRuns
    BY <1>6 DEF TypeOK, AuxRuns
  <1>7. CASE StreamDone
    BY <1>7 DEF TypeOK, StreamDone, AfterStream
  <1>8. CASE FailOpen
    BY <1>8 DEF TypeOK, FailOpen, Routes, NoRaw
  <1>9. CASE PrintCaptured
    BY <1>9 DEF TypeOK, PrintCaptured, Body
  <1>10. CASE Account
    <2>1. ledger' \subseteq Ledgers
      BY <1>10 DEF TypeOK, Account, Ledgers
    <2>2. shown' \in Seq(Body \cup Notes)
      BY <1>10, Said DEF TypeOK, Account, Notes
    <2> QED BY <1>10, <2>1, <2>2 DEF TypeOK, Account
  <1>11. CASE PipelineThrows
    BY <1>11 DEF TypeOK, PipelineThrows, Body
  <1>12. CASE DedupPass
    BY <1>12 DEF TypeOK, DedupPass
  <1>13. CASE DedupHit
    BY <1>13 DEF TypeOK, DedupHit, Body, Statuses
  <1>14. CASE DedupMiss
    BY <1>14 DEF TypeOK, DedupMiss
  <1>15. CASE Emit
    <2>1. PICK hint \in BOOLEAN : shown' = shown \o <<result.content>> \o Notices(hint)
      BY <1>15 DEF Emit
    <2>2. result.content \in Body
      BY DEF TypeOK
    <2>3. Notices(hint) \in Seq(Body \cup Notes)
      <3>1. <<>> \in Seq(Body \cup Notes) /\ <<"hint">> \in Seq(Body \cup Notes)
        BY DEF Notes
      <3>2. <<"stats">> \in Seq(Body \cup Notes)
        BY DEF Notes
      <3>3. CASE inv.stats
        BY <3>1, <3>2, <3>3, Joined DEF Notices
      <3>4. CASE ~inv.stats
        BY <3>1, <3>4, Joined DEF Notices
      <3> QED BY <3>3, <3>4
    <2>4. shown' \in Seq(Body \cup Notes)
      <3>1. shown \o <<result.content>> \in Seq(Body \cup Notes)
        BY <2>2, Joined DEF TypeOK
      <3> QED BY <3>1, <2>1, <2>3, Joined
    <2> QED BY <1>15, <2>4 DEF TypeOK, Emit
  <1>16. CASE Commit
    BY <1>16 DEF TypeOK, Commit, CommitRows, Ledgers
  <1>17. CASE Flush
    BY <1>17 DEF TypeOK, Flush, Ledgers
  <1>18. ASSUME NEW code \in {127, 1}, StartFails(code) PROVE TypeOK'
    <2>1. code \in ExitCodes /\ code \in Nat
      BY NoExitIsNoCode
    <2>2. "error" \in Body \cup Notes
      BY DEF Notes
    <2>3. shown' \in Seq(Body \cup Notes)
      BY <1>18, <2>2, Said DEF TypeOK, StartFails
    <2> QED BY <1>18, <2>1, <2>3 DEF TypeOK, StartFails, Captures, AfterStream
  <1>19. ASSUME NEW len \in RawLens, CaptureDone(len) PROVE TypeOK'
    BY <1>19, LensAssumption DEF TypeOK, CaptureDone
  <1>20. ASSUME NEW len \in RawLens, NEW code \in {0, 1}, AnswerInternally(len, code) PROVE TypeOK'
    BY <1>20, LensAssumption, NoExitIsNoCode DEF TypeOK, AnswerInternally
  <1>21. ASSUME NEW diskOk \in BOOLEAN, FilterFallback(diskOk) PROVE TypeOK'
    BY <1>21 DEF TypeOK, FilterFallback, ShouldSave, Body, Statuses
  <1>22. ASSUME NEW diskOk \in BOOLEAN, NEW view \in Views, Filter(view, diskOk) PROVE TypeOK'
    <2> DEFINE r == GateResult(inv.handler, raw, view, inv.save, diskOk)
    <2>1. r \in [content : {"filtered", "raw", "safeFull"}, status : Statuses,
               pointer : BOOLEAN, omission : OmissionKinds \cup {"none"}]
      BY GateResultType
    <2>2. view.len \in Nat /\ raw.len \in Nat
      BY LensAssumption DEF Views, TypeOK
    <2> HIDE DEF r
    <2>3. result' = WithDedup(r, IF r.content = "raw" THEN raw.len ELSE view.len, "none")
      BY <1>22 DEF Filter, r
    <2>4. result' \in [content : Body, pointer : BOOLEAN,
                   omission : OmissionKinds \cup {"none"}, status : Statuses,
                   len : Nat, dedup : {"none", "hit", "miss"}]
      BY <2>1, <2>2, <2>3 DEF WithDedup, Body
    <2> QED BY <1>22, <2>4 DEF TypeOK, Filter
  <1>23. ASSUME NEW end \in ChildEnd, ToolEnds(end) PROVE TypeOK'
    BY <1>23, ExitCodeType DEF TypeOK, ToolEnds
  <1>24. CASE AuxEnds
    BY <1>24 DEF TypeOK, AuxEnds
  <1>25. CASE Exited
    BY <1>25 DEF TypeOK, Exited, vars
  <1>26. CASE UNCHANGED vars
    BY <1>26 DEF TypeOK, vars
  <1> QED
    BY <1>1, <1>2, <1>3, <1>4, <1>5, <1>6, <1>7, <1>8, <1>9, <1>10, <1>11, <1>12, <1>13,
       <1>14, <1>15, <1>16, <1>17, <1>18, <1>19, <1>20, <1>21, <1>22, <1>23, <1>24, <1>25, <1>26
    DEF Next, Ctx, Tool

\* The variables keep their types, whatever the handlers, codes and sizes of text.
THEOREM TypeCorrect == Spec => []TypeOK
  <1> QED BY InitType, NextType, PTL DEF Spec

-----------------------------------------------------------------------------
(* The way of an invocation *)

LEMMA SaidFirst ==
    ASSUME NEW x
    PROVE  /\ Append(<<>>, x) = <<x>> /\ <<x>> # <<>>
           /\ DOMAIN <<x>> = {1} /\ <<x>>[1] = x
  OBVIOUS

LEMMA SaidMore ==
    ASSUME NEW S, NEW s \in Seq(S), NEW x
    PROVE  /\ Append(s, x) # <<>>
           /\ \A i \in DOMAIN s : i \in DOMAIN Append(s, x) /\ Append(s, x)[i] = s[i]
           /\ \A i \in DOMAIN Append(s, x) : i \in DOMAIN s \/ Append(s, x)[i] = x
  OBVIOUS

\* What Emit writes: the body, then notices only.
LEMMA BodyThenNotices ==
    ASSUME NEW x, NEW hint
    PROVE  LET t == <<>> \o <<x>> \o Notices(hint) IN
           /\ t # <<>> /\ 1 \in DOMAIN t /\ t[1] = x
           /\ \A i \in DOMAIN t : i = 1 \/ t[i] \in Notes
  <1> DEFINE h == IF raw.exit # 0 /\ hint THEN <<"hint">> ELSE <<>>
             n == IF inv.stats THEN <<"stats">> ELSE <<>>
  <1>1. h = <<"hint">> \/ h = <<>>
    OBVIOUS
  <1>2. n = <<"stats">> \/ n = <<>>
    OBVIOUS
  <1>3. Notices(hint) = h \o n
    BY DEF Notices
  <1> HIDE DEF h, n
  <1>4. /\ Notices(hint) \in Seq(Notes)
    <2>1. <<>> \in Seq(Notes) /\ <<"hint">> \in Seq(Notes) /\ <<"stats">> \in Seq(Notes)
      BY DEF Notes
    <2>2. h \in Seq(Notes)
      BY <1>1, <2>1
    <2>3. n \in Seq(Notes)
      BY <1>2, <2>1
    <2> QED BY <2>2, <2>3, <1>3, Joined
  <1>5. <<>> \o <<x>> = <<x>>
    OBVIOUS
  <1> QED BY <1>4, <1>5

LEMMA InitInv == Init => IInv
  BY InitType DEF Init, IInv, OnRoute, Silent, FirstIsBody, CodeCarried, OneChild, Booked,
                  ExitIdentity, LedgerHonest, LossyIsRecoverable, Captures, BodyAt, Body,
                  NoResult, NoRaw

LEMMA NextInv == IInv /\ [Next]_vars => IInv'
  <1> SUFFICES ASSUME IInv, [Next]_vars PROVE IInv'
    OBVIOUS
  <1>0. TypeOK /\ TypeOK'
    BY NextType DEF IInv
  <1> USE DEF IInv, TypeOK, OnRoute, Silent, FirstIsBody, CodeCarried, OneChild, Booked,
              ExitIdentity, LedgerHonest, LossyIsRecoverable, Captures, BodyAt, Body
  <1>1. CASE DispatchRaw
    BY <1>0, <1>1 DEF DispatchRaw
  <1>2. CASE Refuse
    <2>1. shown' = <<"refusal">>
      BY <1>2, SaidFirst DEF Refuse
    <2> QED
      BY <1>0, <1>2, <2>1, NoExitIsNoCode DEF Refuse
  <1>3. CASE Gate
    BY <1>0, <1>3 DEF Gate
  <1>4. CASE SpawnThrows
    <2>1. CASE route = "compress"
      BY <1>0, <1>4, <2>1 DEF SpawnThrows, ThrowTo
    <2>2. CASE route # "compress"
      <3>1. shown' = <<"error">>
        BY <1>4, <2>2, SaidFirst DEF SpawnThrows, ThrowTo
      <3> QED
        BY <1>0, <1>4, <2>2, <3>1, NoExitIsNoCode DEF SpawnThrows, ThrowTo
    <2> QED BY <2>1, <2>2
  <1>5. CASE Start
    <2>1. shown' = IF Captures THEN <<>> ELSE <<"tool">>
      BY <1>5, SaidFirst DEF Start
    <2>2. OnRoute'
      BY <1>5, <2>1 DEF Start
    <2>3. Silent'
      BY <1>5, <2>1 DEF Start
    <2>4. FirstIsBody'
      BY <1>5, <2>1 DEF Start
    <2>5. CodeCarried'
      BY <1>5, <2>1 DEF Start
    <2>6. OneChild'
      BY <1>5, <2>1 DEF Start
    <2>7. Booked'
      BY <1>5, <2>1 DEF Start
    <2>8. ExitIdentity'
      BY <1>5, <2>1 DEF Start
    <2>9. LedgerHonest'
      BY <1>5, <2>1 DEF Start
    <2>10. LossyIsRecoverable'
      BY <1>5, <2>1 DEF Start
    <2> QED BY <1>0, <2>2, <2>3, <2>4, <2>5, <2>6, <2>7, <2>8, <2>9, <2>10
  <1>6. CASE AuxRuns
    BY <1>0, <1>6 DEF AuxRuns
  <1>7. CASE StreamDone
    <2>1. shown' = <<"tool">>
      BY <1>7 DEF StreamDone
    <2>2. OnRoute'
      BY <1>7, <2>1 DEF StreamDone, AfterStream
    <2>3. Silent'
      BY <1>7, <2>1 DEF StreamDone, AfterStream
    <2>4. FirstIsBody'
      BY <1>7, <2>1 DEF StreamDone, AfterStream
    <2>5. CodeCarried'
      BY <1>7, <2>1 DEF StreamDone, AfterStream
    <2>6. OneChild'
      BY <1>7, <2>1 DEF StreamDone, AfterStream
    <2>7. Booked'
      BY <1>7, <2>1 DEF StreamDone, AfterStream
    <2>8. ExitIdentity'
      BY <1>7, <2>1 DEF StreamDone, AfterStream
    <2>9. LedgerHonest'
      BY <1>7, <2>1 DEF StreamDone, AfterStream
    <2>10. LossyIsRecoverable'
      BY <1>7, <2>1 DEF StreamDone, AfterStream
    <2> QED BY <1>0, <2>2, <2>3, <2>4, <2>5, <2>6, <2>7, <2>8, <2>9, <2>10
  <1>8. CASE FailOpen
    BY <1>0, <1>8 DEF FailOpen, NoRaw
  <1>9. CASE PrintCaptured
    BY <1>0, <1>9 DEF PrintCaptured
  <1>10. CASE Account
    <2>1. shown' = shown \/ shown' = Append(shown, "stats")
      BY <1>10 DEF Account
    <2>2. shown' # <<>> /\ \A i \in DOMAIN shown' : shown'[i] # "marker"
      BY <1>10, <2>1, SaidMore DEF Account
    <2>3. \A i \in DOMAIN shown' : shown'[i] \in Body => i = 1
      <3>1. CASE shown' = shown
        BY <3>1
      <3>2. CASE shown' = Append(shown, "stats")
        BY <3>2, SaidMore
      <3> QED BY <2>1, <3>1, <3>2
    <2>4. OnRoute'
      BY <1>10, <2>1, <2>2, <2>3 DEF Account
    <2>5. Silent'
      BY <1>10, <2>1, <2>2, <2>3 DEF Account
    <2>6. FirstIsBody'
      BY <1>10, <2>1, <2>2, <2>3 DEF Account
    <2>7. CodeCarried'
      BY <1>10, <2>1, <2>2, <2>3 DEF Account
    <2>8. OneChild'
      BY <1>10, <2>1, <2>2, <2>3 DEF Account
    <2>9. Booked'
      BY <1>10, <2>1, <2>2, <2>3 DEF Account
    <2>10. ExitIdentity'
      BY <1>10, <2>1, <2>2, <2>3 DEF Account
    <2>11. LedgerHonest'
      BY <1>10, <2>1, <2>2, <2>3 DEF Account
    <2>12. LossyIsRecoverable'
      BY <1>10, <2>1, <2>2, <2>3 DEF Account
    <2> QED BY <1>0, <2>4, <2>5, <2>6, <2>7, <2>8, <2>9, <2>10, <2>11, <2>12
  <1>11. CASE PipelineThrows
    BY <1>0, <1>11 DEF PipelineThrows
  <1>12. CASE DedupPass
    BY <1>0, <1>12 DEF DedupPass
  <1>13. CASE DedupHit
    BY <1>0, <1>13 DEF DedupHit, DedupEligible
  <1>14. CASE DedupMiss
    BY <1>0, <1>14 DEF DedupMiss, DedupEligible
  <1>15. CASE Emit
    <2>1. PICK hint \in BOOLEAN : shown' = <<>> \o <<result.content>> \o Notices(hint)
      BY <1>15 DEF Emit
    <2>2. /\ shown' # <<>> /\ 1 \in DOMAIN shown' /\ shown'[1] = result.content
          /\ \A i \in DOMAIN shown' : i = 1 \/ shown'[i] \in Notes
      BY <2>1, BodyThenNotices
    <2>3. result.content = "marker" <=> \E i \in DOMAIN shown' : shown'[i] = "marker"
      BY <2>2 DEF Notes
    <2>4. OnRoute'
      BY <1>15, <2>1, <2>2, <2>3 DEF Emit, Notes
    <2>5. Silent'
      BY <1>15, <2>1, <2>2, <2>3 DEF Emit, Notes
    <2>6. FirstIsBody'
      BY <1>15, <2>1, <2>2, <2>3 DEF Emit, Notes
    <2>7. CodeCarried'
      BY <1>15, <2>1, <2>2, <2>3 DEF Emit, Notes
    <2>8. OneChild'
      BY <1>15, <2>1, <2>2, <2>3 DEF Emit, Notes
    <2>9. Booked'
      BY <1>15, <2>1, <2>2, <2>3 DEF Emit, Notes
    <2>10. ExitIdentity'
      BY <1>15, <2>1, <2>2, <2>3 DEF Emit, Notes
    <2>11. LedgerHonest'
      BY <1>15, <2>1, <2>2, <2>3 DEF Emit, Notes
    <2>12. LossyIsRecoverable'
      BY <1>15, <2>1, <2>2, <2>3 DEF Emit, Notes
    <2> QED BY <1>0, <2>4, <2>5, <2>6, <2>7, <2>8, <2>9, <2>10, <2>11, <2>12
  <1>16. CASE Commit
    BY <1>0, <1>16 DEF Commit, CommitRows
  <1>17. CASE Flush
    BY <1>0, <1>17 DEF Flush
  <1>18. CASE AuxEnds
    BY <1>0, <1>18 DEF AuxEnds
  <1>19. CASE Exited
    BY <1>0, <1>19 DEF Exited, vars
  <1>20. ASSUME NEW code \in {127, 1}, StartFails(code) PROVE IInv'
    BY <1>0, <1>20, NoExitIsNoCode DEF StartFails, AfterStream
  <1>21. ASSUME NEW len \in RawLens, CaptureDone(len) PROVE IInv'
    BY <1>0, <1>21 DEF CaptureDone
  <1>22. ASSUME NEW len \in RawLens, NEW code \in {0, 1}, AnswerInternally(len, code) PROVE IInv'
    BY <1>0, <1>22, NoExitIsNoCode DEF AnswerInternally
  <1>23. ASSUME NEW diskOk \in BOOLEAN, FilterFallback(diskOk) PROVE IInv'
    BY <1>0, <1>23 DEF FilterFallback
  <1>24. ASSUME NEW diskOk \in BOOLEAN, NEW view \in Views, Filter(view, diskOk) PROVE IInv'
    BY <1>0, <1>24, GateResultType, GateRecoverable DEF Filter, WithDedup
  <1>25. ASSUME NEW end \in ChildEnd, ToolEnds(end) PROVE IInv'
    BY <1>0, <1>25, ExitCodeType, NoExitIsNoCode DEF ToolEnds
  <1>26. CASE UNCHANGED vars
    <2>1. (OnRoute /\ Silent /\ FirstIsBody /\ CodeCarried /\ OneChild /\ Booked)'
      BY <1>26 DEF vars
    <2>2. (ExitIdentity /\ LedgerHonest /\ LossyIsRecoverable)'
      BY <1>26 DEF vars
    <2> QED BY <1>0, <2>1, <2>2
  <1> HIDE DEF IInv
  <1> QED
    BY <1>1, <1>2, <1>3, <1>4, <1>5, <1>6, <1>7, <1>8, <1>9, <1>10, <1>11, <1>12, <1>13,
       <1>14, <1>15, <1>16, <1>17, <1>18, <1>19, <1>20, <1>21, <1>22, <1>23, <1>24, <1>25, <1>26
    DEF Next, Ctx, Tool

-----------------------------------------------------------------------------
(* What follows, for every invocation *)

LEMMA Invariance == Spec => []IInv
  <1> QED BY InitInv, NextInv, PTL DEF Spec

\* The output is written once, and before the end something has been said: no failure
\* after the first write makes cli.ts or core/emit.ts write it again.
THEOREM OutputOnce == Spec => []AnsweredOnce
  <1>1. IInv => AnsweredOnce
    BY DEF IInv, FirstIsBody, AnsweredOnce, BodyAt
  <1> QED BY <1>1, Invariance, PTL

\* ctx exits with the code of the run whose output it showed.
THEOREM ExitIdentityHolds == Spec => []ExitIdentity
  <1>1. IInv => ExitIdentity
    BY DEF IInv
  <1> QED BY <1>1, Invariance, PTL

\* A handler with one child runs the user's command at most once: the captured result
\* is never followed by the fail-open (C6).
THEOREM NeverRunTwice == Spec => []SingleChildRunsOnce
  <1>1. IInv => SingleChildRunsOnce
    BY DEF IInv, OneChild, SingleChildRunsOnce
  <1> QED BY <1>1, Invariance, PTL

\* The books are written after the answer, and no saving is booked twice.
THEOREM LedgerHonestHolds == Spec => []LedgerHonest
  <1>1. IInv => LedgerHonest
    BY DEF IInv
  <1> QED BY <1>1, Invariance, PTL

\* What was left out can be had from a snapshot, for every handler and every text.
THEOREM LossyIsRecoverableHolds == Spec => []LossyIsRecoverable
  <1>1. IInv => LossyIsRecoverable
    BY DEF IInv
  <1> QED BY <1>1, Invariance, PTL
=============================================================================
