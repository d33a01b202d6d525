-------------------------- MODULE OneCommandProofs --------------------------
(***************************************************************************)
(* Proofs about the stations of one command: what is captured (Capture),   *)
(* the file that is started (ShimResolution), what a batch script is given *)
(* (SpawnTarget), and what the hook makes of the line before (Hook).       *)
(*                                                                         *)
(* The four models are built on functions over sequences.  What such a     *)
(* function gives for every input is proved from the least place at which  *)
(* it would go wrong (Least, from the library's WFMin): the theorems of    *)
(* the library that say "by induction" take an operator, which no prover   *)
(* here can be given.                                                      *)
(***************************************************************************)
EXTENDS Capture, ShimResolution, SpawnTarget, Hook, SequenceTheorems, FiniteSetTheorems,
        WellFoundedInduction, TLAPS

-----------------------------------------------------------------------------
(* Capture *)

LEMMA PrefixFacts ==
    ASSUME NEW s \in Seq(Byte), NEW n \in Nat
    PROVE  /\ Prefix(s, n) \in Seq(Byte)
           /\ Len(Prefix(s, n)) = IF n < Len(s) THEN n ELSE Len(s)
           /\ \A i \in 1 .. Len(Prefix(s, n)) : Prefix(s, n)[i] = s[i]
<1> DEFINE k == IF n < Len(s) THEN n ELSE Len(s)
<1>1. Len(s) \in Nat /\ \A i \in 1 .. Len(s) : s[i] \in Byte
  BY LenProperties, ElementOfSeq
<1>2. k \in Nat /\ k <= Len(s)
  BY <1>1
<1> HIDE DEF k
<1>3. /\ SubSeq(s, 1, k) \in Seq(Byte)
      /\ Len(SubSeq(s, 1, k)) = IF 1 <= k THEN k - 1 + 1 ELSE 0
      /\ \A i \in 1 .. k - 1 + 1 : SubSeq(s, 1, k)[i] = s[1 + i - 1]
  BY <1>1, <1>2, SubSeqProperties
<1>4. Len(SubSeq(s, 1, k)) = k /\ \A i \in 1 .. k : SubSeq(s, 1, k)[i] = s[i]
  BY <1>2, <1>3
<1>5. QED
  BY <1>3, <1>4 DEF Prefix, k

LEMMA PrefixWhole ==
    ASSUME NEW s \in Seq(Byte), NEW n \in Nat, n >= Len(s) PROVE Prefix(s, n) = s
<1>1. Prefix(s, n) = SubSeq(s, 1, Len(s))
  BY LenProperties DEF Prefix
<1>2. QED
  BY <1>1, SubSeqFull

LEMMA PrefixOfPrefix ==
    ASSUME NEW s \in Seq(Byte), NEW n \in Nat, NEW m \in Nat, m <= n
    PROVE  Prefix(Prefix(s, n), m) = Prefix(s, m)
<1> DEFINE t == Prefix(s, n)
<1>1. t \in Seq(Byte) /\ Len(t) = (IF n < Len(s) THEN n ELSE Len(s)) /\ \A i \in 1 .. Len(t) : t[i] = s[i]
  BY PrefixFacts
<1> HIDE DEF t
<1>2. /\ Prefix(t, m) \in Seq(Byte) /\ Len(Prefix(t, m)) = (IF m < Len(t) THEN m ELSE Len(t))
      /\ \A i \in 1 .. Len(Prefix(t, m)) : Prefix(t, m)[i] = t[i]
  BY <1>1, PrefixFacts
<1>3. /\ Prefix(s, m) \in Seq(Byte) /\ Len(Prefix(s, m)) = (IF m < Len(s) THEN m ELSE Len(s))
      /\ \A i \in 1 .. Len(Prefix(s, m)) : Prefix(s, m)[i] = s[i]
  BY PrefixFacts
<1>4. Len(s) \in Nat /\ Len(t) \in Nat
  BY <1>1, LenProperties
<1>5. Len(Prefix(t, m)) = Len(Prefix(s, m)) /\ Len(Prefix(s, m)) <= Len(t)
  BY <1>1, <1>2, <1>3, <1>4
<1>6. \A i \in 1 .. Len(Prefix(t, m)) : Prefix(t, m)[i] = Prefix(s, m)[i]
  BY <1>1, <1>2, <1>3, <1>4, <1>5
<1>7. Prefix(t, m) = Prefix(s, m)
  BY <1>2, <1>3, <1>5, <1>6, SeqEqual
<1>8. QED
  BY <1>7 DEF t

LEMMA AnnouncedRange ==
    ASSUME NEW b \in Byte PROVE Announced(b) \in 0 .. 4 /\ (Announced(b) = 0 <=> b = "more")
  BY DEF Announced, Byte

\* No character begun in the first n bytes is broken off within them.
Unbroken(s, n) ==
    \A i \in 1 .. n : \A j \in i + 1 .. i + Announced(s[i]) - 1 : j <= n => s[j] = "more"
\* None reaches beyond them.
Ends(s, n) == \A i \in 1 .. n : i + Announced(s[i]) - 1 <= n

\* The trimming takes a broken character off, three bytes at the most.
LEMMA TrimCuts ==
    ASSUME NEW s \in Seq(Byte)
    PROVE  \E m \in 0 .. Len(s) : /\ m >= Len(s) - 3 /\ TrimIncompleteTail(s) = Prefix(s, m)
                                  /\ Unbroken(s, Len(s)) => Ends(s, m)
<1> DEFINE n == Len(s)
           leads == {i \in 1 .. n : i > n - 3 /\ s[i] # "more"}
           last == CHOOSE i \in leads : \A j \in leads : j <= i
<1>1. n \in Nat /\ \A i \in 1 .. n : /\ s[i] \in Byte /\ Announced(s[i]) \in 0 .. 4
                                     /\ Announced(s[i]) = 0 <=> s[i] = "more"
  BY LenProperties, ElementOfSeq, AnnouncedRange
<1> HIDE DEF n
<1>2. \A i \in 1 .. n : i + Announced(s[i]) - 1 > n => i \in leads
  BY <1>1
<1>3. leads # {} => last \in leads /\ \A j \in leads : j <= last
  <2> SUFFICES ASSUME leads # {} PROVE \E i \in leads : \A j \in leads : j <= i
    OBVIOUS
  <2>1. \A i \in leads : i \in {n, n - 1, n - 2}
    BY <1>1
  <2>2. CASE n \in leads
    BY <1>1, <2>1, <2>2
  <2>3. CASE n \notin leads /\ n - 1 \in leads
    BY <1>1, <2>1, <2>3
  <2>4. CASE n \notin leads /\ n - 1 \notin leads
    BY <1>1, <2>1, <2>4
  <2>5. QED
    BY <2>2, <2>3, <2>4
<1>4. TrimIncompleteTail(s) = IF leads = {} \/ Announced(s[last]) <= n - last + 1 THEN s
                              ELSE Prefix(s, last - 1)
  BY DEF TrimIncompleteTail, n
<1> HIDE DEF last
<1>5. CASE leads = {}
  <2>1. TrimIncompleteTail(s) = Prefix(s, n)
    BY <1>1, <1>4, <1>5, PrefixWhole DEF n
  <2>2. Ends(s, n)
    BY <1>1, <1>2, <1>5 DEF Ends
  <2>3. QED
    BY <1>1, <2>1, <2>2 DEF n
<1>6. CASE leads # {} /\ Announced(s[last]) <= n - last + 1
  <2>1. TrimIncompleteTail(s) = Prefix(s, n)
    BY <1>1, <1>4, <1>6, PrefixWhole DEF n
  <2>2. ASSUME Unbroken(s, n), NEW i \in 1 .. n, i + Announced(s[i]) - 1 > n
        PROVE  FALSE
    <3> last \in 1 .. n /\ Announced(s[i]) \in 0 .. 4
      BY <1>1, <1>3, <1>6
    <3> i # last
      BY <1>1, <1>6, <2>2
    <3>1. i \in leads /\ last \in leads /\ i <= last /\ i # last /\ s[last] # "more"
      BY <1>2, <1>3, <1>6, <2>2
    <3>2. last \in i + 1 .. i + Announced(s[i]) - 1 /\ last <= n
      BY <1>1, <2>2, <3>1
    <3>3. s[last] = "more"
      BY <2>2, <3>2 DEF Unbroken
    <3>4. QED
      BY <3>1, <3>3
  <2>3. Unbroken(s, n) => Ends(s, n)
    BY <1>1, <2>2 DEF Ends
  <2>4. QED
    BY <1>1, <2>1, <2>3 DEF n
<1>7. CASE leads # {} /\ ~(Announced(s[last]) <= n - last + 1)
  <2>1. last \in 1 .. n /\ last > n - 3 /\ s[last] # "more"
    BY <1>3, <1>7
  <2>2. TrimIncompleteTail(s) = Prefix(s, last - 1) /\ last - 1 \in 0 .. n /\ last - 1 >= n - 3
    BY <1>1, <1>4, <1>7, <2>1
  <2>3. ASSUME Unbroken(s, n), NEW i \in 1 .. last - 1, i + Announced(s[i]) - 1 > last - 1
        PROVE  FALSE
    <3>1. i \in 1 .. n /\ last \in i + 1 .. i + Announced(s[i]) - 1 /\ last <= n
      BY <1>1, <2>1, <2>3
    <3>2. s[last] = "more"
      BY <2>3, <3>1 DEF Unbroken
    <3>3. QED
      BY <2>1, <3>2
  <2>4. Unbroken(s, n) => Ends(s, last - 1)
    BY <1>1, <2>1, <2>3 DEF Ends
  <2>5. QED
    BY <2>2, <2>4 DEF n
<1>8. QED
  BY <1>5, <1>6, <1>7

LEMMA Utf8Prefix ==
    ASSUME NEW s \in Seq(Byte), Utf8(s), NEW n \in Nat, n <= Len(s), Ends(s, n)
    PROVE  Utf8(Prefix(s, n))
<1> DEFINE t == Prefix(s, n)
<1>1. Len(t) = n /\ Len(s) \in Nat /\ \A i \in 1 .. n : t[i] = s[i]
  BY PrefixFacts, LenProperties
<1> HIDE DEF t
<1>2. ASSUME NEW i \in 1 .. n, Announced(t[i]) > 0
      PROVE  /\ i + Announced(t[i]) - 1 <= n
             /\ \A j \in i + 1 .. i + Announced(t[i]) - 1 : t[j] = "more"
  <2>1. i \in 1 .. Len(s) /\ t[i] = s[i] /\ i + Announced(s[i]) - 1 <= n
    BY <1>1 DEF Ends
  <2>2. Announced(s[i]) \in Nat
    BY <2>1, ElementOfSeq, AnnouncedRange
  <2>3. \A j \in i + 1 .. i + Announced(s[i]) - 1 : s[j] = "more"
    BY <1>2, <2>1 DEF Utf8
  <2>4. \A j \in i + 1 .. i + Announced(s[i]) - 1 : j \in 1 .. n
    BY <2>1, <2>2
  <2>5. QED
    BY <1>1, <2>1, <2>3, <2>4
<1>3. ASSUME NEW i \in 1 .. n, t[i] = "more"
      PROVE  \E l \in 1 .. i - 1 : /\ l + Announced(t[l]) - 1 >= i
                                   /\ \A j \in l + 1 .. i : t[j] = "more"
  <2>1. i \in 1 .. Len(s) /\ s[i] = "more"
    BY <1>1, <1>3
  <2>2. PICK l \in 1 .. i - 1 : l + Announced(s[l]) - 1 >= i /\ \A j \in l + 1 .. i : s[j] = "more"
    BY <2>1 DEF Utf8
  <2>3. t[l] = s[l] /\ \A j \in l + 1 .. i : t[j] = s[j]
    BY <1>1, <2>2
  <2>4. QED
    BY <2>2, <2>3
<1>4. Utf8(t)
  BY <1>1, <1>2, <1>3 DEF Utf8
<1>5. QED
  BY <1>4 DEF t

\* What is left of the text of a tool, cut at n bytes and trimmed.
LEMMA TrimmedPrefix ==
    ASSUME NEW s \in Seq(Byte), NEW n \in Nat, n <= Len(s)
    PROVE  \E m \in 0 .. n : /\ m >= n - 3 /\ TrimIncompleteTail(Prefix(s, n)) = Prefix(s, m)
                             /\ Utf8(s) => Utf8(Prefix(s, m))
<1> DEFINE t == Prefix(s, n)
<1>1. t \in Seq(Byte) /\ Len(t) = n /\ Len(s) \in Nat /\ \A i \in 1 .. n : t[i] = s[i]
  BY PrefixFacts, LenProperties
<1>2. PICK m \in 0 .. n : /\ m >= n - 3 /\ TrimIncompleteTail(t) = Prefix(t, m)
                          /\ Unbroken(t, n) => Ends(t, m)
  BY <1>1, TrimCuts
<1>3. Prefix(t, m) = Prefix(s, m)
  BY PrefixOfPrefix
<1> HIDE DEF t
<1>4. ASSUME Utf8(s) PROVE Utf8(Prefix(s, m))
  <2>1. \A i \in 1 .. n : s[i] \in Byte /\ Announced(s[i]) \in 0 .. 4
    BY <1>1, ElementOfSeq, AnnouncedRange
  <2>2. ASSUME NEW i \in 1 .. n, NEW j \in i + 1 .. i + Announced(t[i]) - 1, j <= n
        PROVE  t[j] = "more"
    <3>1. j \in i + 1 .. i + Announced(s[i]) - 1 /\ i \in 1 .. Len(s) /\ j \in 1 .. n
      BY <1>1, <2>1, <2>2
    <3>2. Announced(s[i]) > 0
      BY <2>1, <3>1
    <3>3. s[j] = "more"
      BY <1>4, <3>1, <3>2 DEF Utf8
    <3>4. QED
      BY <1>1, <3>1, <3>3
  <2>3. Ends(t, m)
    BY <1>2, <2>2 DEF Unbroken
  <2>4. Ends(s, m)
    BY <1>1, <2>3 DEF Ends
  <2>5. QED
    BY <1>1, <1>4, <2>4, Utf8Prefix
<1>5. QED
  BY <1>2, <1>3, <1>4 DEF t

-----------------------------------------------------------------------------
\* What has arrived of a stream is what is kept, up to the cap, and cut says that there was
\* more; a result says what CaptureHonest asks of it.
StreamInv(s) ==
    /\ written[s] \in Seq(Byte) /\ sent[s] \in 0 .. Len(written[s])
    /\ kept[s] = Prefix(written[s], IF sent[s] < MaxCapture THEN sent[s] ELSE MaxCapture)
    /\ cut[s] <=> sent[s] > MaxCapture

CaptureInv ==
    /\ DOMAIN sent = Streams /\ DOMAIN kept = Streams /\ cut \in [Streams -> BOOLEAN]
    /\ \A s \in Streams : StreamInv(s)
    /\ CaptureHonest

LEMMA ChunkJoins ==
    ASSUME NEW w \in Seq(Byte), NEW a \in Nat, NEW n \in Nat, a + n <= Len(w)
    PROVE  /\ SubSeq(w, a + 1, a + n) \in Seq(Byte) /\ Len(SubSeq(w, a + 1, a + n)) = n
           /\ Prefix(w, a) \o SubSeq(w, a + 1, a + n) = Prefix(w, a + n)
<1> DEFINE chunk == SubSeq(w, a + 1, a + n)
<1>1. Len(w) \in Nat /\ \A i \in a + 1 .. a + n : w[i] \in Byte
  BY LenProperties, ElementOfSeq
<1>2. /\ chunk \in Seq(Byte) /\ Len(chunk) = n
      /\ \A i \in 1 .. n : chunk[i] = w[a + i]
  <2>1. /\ chunk \in Seq(Byte)
        /\ Len(chunk) = IF a + 1 <= a + n THEN a + n - (a + 1) + 1 ELSE 0
        /\ \A i \in 1 .. a + n - (a + 1) + 1 : chunk[i] = w[a + 1 + i - 1]
    BY <1>1, SubSeqProperties
  <2> HIDE DEF chunk
  <2>2. QED
    BY <2>1
<1>3. Prefix(w, a) = SubSeq(w, 1, a) /\ Prefix(w, a + n) = SubSeq(w, 1, a + n)
  BY <1>1 DEF Prefix
<1>4. 1 \in 1 .. Len(w) + 1 /\ a \in 1 - 1 .. Len(w) /\ a + n \in a .. Len(w)
  BY <1>1
<1>5. SubSeq(w, 1, a) \o chunk = SubSeq(w, 1, a + n)
  BY <1>4, ConcatAdjacentSubSeq
<1>6. QED
  BY <1>2, <1>3, <1>5

\* One chunk, kept as far as it fits.
LEMMA KeepPrefix ==
    ASSUME MaxCapture \in Nat, CaptureInv, NEW s \in Streams, ~cut[s],
           NEW n \in 1 .. Len(written[s]) - sent[s],
           Keep(s, SubSeq(written[s], sent[s] + 1, sent[s] + n))
    PROVE  /\ kept' = [kept EXCEPT ![s] = Prefix(written[s], IF sent[s] + n < MaxCapture
                                                             THEN sent[s] + n ELSE MaxCapture)]
           /\ cut' \in [Streams -> BOOLEAN] /\ \A t \in Streams \ {s} : cut'[t] = cut[t]
           /\ cut'[s] <=> sent[s] + n > MaxCapture
<1> DEFINE w == written[s]
           a == sent[s]
           chunk == SubSeq(w, a + 1, a + n)
           room == MaxCapture - Len(kept[s])
<1>1. w \in Seq(Byte) /\ a \in 0 .. Len(w) /\ a <= MaxCapture /\ Len(w) \in Nat
  BY LenProperties DEF CaptureInv, StreamInv
<1>2. kept[s] = Prefix(w, a) /\ Len(kept[s]) = a
  <2>1. kept[s] = Prefix(w, a)
    BY <1>1 DEF CaptureInv, StreamInv
  <2>2. Len(Prefix(w, a)) = a
    BY <1>1, PrefixFacts
  <2>3. QED
    BY <2>1, <2>2
<1>3. a + n <= Len(w) /\ a \in Nat /\ n \in Nat /\ n > 0
  BY <1>1
<1>4. Keep(s, chunk)
  OBVIOUS
<1> HIDE DEF w, a
<1>5. chunk \in Seq(Byte) /\ Len(chunk) = n /\ Prefix(w, a) \o chunk = Prefix(w, a + n)
  BY <1>1, <1>3, ChunkJoins DEF chunk
<1> HIDE DEF chunk, room
<1>6. room = MaxCapture - a /\ room \in Nat
  BY <1>1, <1>2 DEF room
<1>7. CASE n > room
  <2> kept' = [kept EXCEPT ![s] = kept[s] \o Prefix(chunk, room)] /\ cut' = [cut EXCEPT ![s] = TRUE]
    BY <1>4, <1>5, <1>7 DEF Keep, room
  <2>1. Prefix(chunk, room) = SubSeq(w, a + 1, a + room)
    <3>1. Prefix(chunk, room) = SubSeq(chunk, 1, room)
      BY <1>5, <1>6, <1>7 DEF Prefix
    <3>2. CASE room = 0
      <4>1. SubSeq(chunk, 1, 0) = <<>> /\ SubSeq(w, a + 1, a + 0) = <<>>
        BY <1>1, SubSeqEmpty
      <4>2. QED
        BY <3>1, <3>2, <4>1
    <3>3. CASE room > 0
      <4>1. /\ a + 1 \in 1 .. Len(w) /\ a + n \in 1 .. Len(w)
            /\ 1 \in 1 .. a + n - (a + 1) + 1 /\ room \in 1 .. a + n - (a + 1) + 1
        BY <1>1, <1>3, <1>6, <1>7, <3>3
      <4>2. SubSeq(chunk, 1, room) = SubSeq(w, a + 1 + 1 - 1, a + 1 + room - 1)
        BY <1>1, <1>5, <4>1, SubSeqOfSubSeq DEF chunk
      <4>3. a + 1 + 1 - 1 = a + 1 /\ a + 1 + room - 1 = a + room
        BY <1>1, <1>6
      <4>4. QED
        BY <3>1, <4>2, <4>3
    <3>4. QED
      BY <1>6, <3>2, <3>3
  <2>2. a + room <= Len(w) /\ a + room = MaxCapture
    BY <1>1, <1>3, <1>6, <1>7
  <2>3. Prefix(w, a) \o SubSeq(w, a + 1, a + room) = Prefix(w, a + room)
    BY <1>1, <1>3, <1>6, <2>2, ChunkJoins
  <2>4. a + n > MaxCapture
    BY <1>1, <1>3, <1>6, <1>7
  <2>5. kept[s] \o Prefix(chunk, room) = Prefix(w, MaxCapture)
    BY <1>2, <2>1, <2>2, <2>3
  <2>6. kept' = [kept EXCEPT ![s] = Prefix(w, MaxCapture)] /\ cut' = [cut EXCEPT ![s] = TRUE]
    BY <2>5
  <2>7. cut \in [Streams -> BOOLEAN]
    BY DEF CaptureInv
  <2>8. (IF a + n < MaxCapture THEN a + n ELSE MaxCapture) = MaxCapture
    BY <1>3, <2>4
  <2>9. cut' \in [Streams -> BOOLEAN] /\ cut'[s] /\ \A t \in Streams \ {s} : cut'[t] = cut[t]
    BY <2>6, <2>7
  <2>10. QED
    BY <2>4, <2>6, <2>8, <2>9 DEF w, a
<1>8. CASE ~(n > room)
  <2>0. kept' = [kept EXCEPT ![s] = kept[s] \o chunk] /\ cut' = cut
    BY <1>4, <1>5, <1>8 DEF Keep, room
  <2>1. kept' = [kept EXCEPT ![s] = Prefix(w, a + n)] /\ cut' = cut
    BY <1>2, <1>5, <2>0
  <2>2. a + n <= MaxCapture
    BY <1>1, <1>3, <1>6, <1>8
  <2>3. (IF a + n < MaxCapture THEN a + n ELSE MaxCapture) = a + n
    BY <1>1, <1>3, <2>2
  <2>4. cut \in [Streams -> BOOLEAN] /\ ~cut[s] /\ ~(a + n > MaxCapture)
    BY <1>1, <1>3, <2>2 DEF CaptureInv
  <2>5. QED
    BY <2>1, <2>3, <2>4 DEF w, a
<1>9. QED
  BY <1>7, <1>8

LEMMA DataInv ==
    ASSUME MaxCapture \in Nat, CaptureInv, NEW s \in Streams, Data(s) PROVE CaptureInv'
<1>1. PICK n \in 1 .. Len(written[s]) - sent[s] :
        /\ sent' = [sent EXCEPT ![s] = @ + n]
        /\ IF cut[s] THEN UNCHANGED <<kept, cut>>
           ELSE Keep(s, SubSeq(written[s], sent[s] + 1, sent[s] + n))
  BY DEF Data
<1>2. written' = written /\ resolved' = resolved
  BY DEF Data
<1>3. written[s] \in Seq(Byte) /\ Len(written[s]) \in Nat /\ sent[s] \in 0 .. Len(written[s])
  BY LenProperties DEF CaptureInv, StreamInv
<1>4. sent'[s] = sent[s] + n /\ sent'[s] \in 0 .. Len(written[s])
  BY <1>1, <1>3 DEF CaptureInv
<1>5. \A t \in Streams \ {s} : sent'[t] = sent[t] /\ kept'[t] = kept[t] /\ cut'[t] = cut[t]
  <2>1. CASE cut[s]
    BY <1>1, <2>1 DEF CaptureInv
  <2>2. CASE ~cut[s]
    BY <1>1, <2>2, KeepPrefix DEF CaptureInv
  <2>3. QED
    BY <2>1, <2>2
<1>6. DOMAIN sent' = Streams /\ DOMAIN kept' = Streams /\ cut' \in [Streams -> BOOLEAN]
  <2>1. CASE cut[s]
    BY <1>1, <2>1 DEF CaptureInv
  <2>2. CASE ~cut[s]
    BY <1>1, <2>2, KeepPrefix DEF CaptureInv
  <2>3. QED
    BY <2>1, <2>2
<1>7. StreamInv(s)'
  <2>1. CASE cut[s]
    BY <1>1, <1>2, <1>3, <1>4, <2>1 DEF CaptureInv, StreamInv
  <2>2. CASE ~cut[s]
    <3>1. /\ kept'[s] = Prefix(written[s], IF sent[s] + n < MaxCapture THEN sent[s] + n ELSE MaxCapture)
          /\ cut'[s] <=> sent[s] + n > MaxCapture
      BY <1>1, <2>2, KeepPrefix DEF CaptureInv
    <3>2. QED
      BY <1>2, <1>3, <1>4, <3>1 DEF StreamInv
  <2>3. QED
    BY <2>1, <2>2
<1>8. \A t \in Streams : StreamInv(t)'
  BY <1>2, <1>5, <1>7 DEF CaptureInv, StreamInv
<1>9. CaptureHonest'
  BY <1>2 DEF CaptureInv, CaptureHonest
<1>10. QED
  BY <1>6, <1>8, <1>9 DEF CaptureInv

LEMMA CloseInv ==
    ASSUME MaxCapture \in Nat, CaptureInv, Close PROVE CaptureInv'
<1> DEFINE held(s) == IF cut[s] THEN TrimIncompleteTail(kept[s]) ELSE kept[s]
<1>1. /\ UNCHANGED <<written, sent, kept, cut>>
      /\ \A s \in Streams : sent[s] = Len(written[s])
  BY DEF Close
<1>2. PICK codePage \in BOOLEAN :
        resolved' = [kind |-> "text", marked |-> \E s \in Streams : cut[s],
                     text |-> [s \in Streams |-> Decode(held(s), codePage)]]
  BY DEF Close
<1>3. \A s \in Streams : cut[s] <=> Len(written[s]) > MaxCapture
  BY <1>1 DEF CaptureInv, StreamInv
<1>4. ASSUME NEW s \in Streams
      PROVE  LET text == resolved'.text[s]
                 whole == Len(written[s]) <= MaxCapture
             IN /\ \E n \in 0 .. Len(written[s]) :
                      /\ text.bytes = IF text.as = "utf8" THEN Unmarked(Prefix(written[s], n))
                                      ELSE Prefix(written[s], n)
                      /\ whole => n = Len(written[s])
                      /\ ~whole => n \in MaxCapture - 3 .. MaxCapture
                /\ Utf8(written[s]) => text.as = "utf8"
                /\ whole /\ ~Utf8(written[s]) => text.as # "utf8"
  <2> DEFINE w == written[s]
             b == held(s)
  <2>1. w \in Seq(Byte) /\ Len(w) \in Nat
    BY LenProperties DEF CaptureInv, StreamInv
  <2>2. kept[s] = Prefix(w, IF Len(w) < MaxCapture THEN Len(w) ELSE MaxCapture)
    BY <1>1 DEF CaptureInv, StreamInv
  <2>3. \E m \in 0 .. Len(w) : /\ b = Prefix(w, m) /\ (Utf8(w) => Utf8(b))
                               /\ Len(w) <= MaxCapture => m = Len(w)
                               /\ ~(Len(w) <= MaxCapture) => m \in MaxCapture - 3 .. MaxCapture
    <3>1. CASE Len(w) <= MaxCapture
      <4>1. ~cut[s]
        BY <1>3, <2>1, <3>1
      <4>2. b = Prefix(w, Len(w)) /\ Prefix(w, Len(w)) = w
        BY <2>1, <2>2, <3>1, <4>1, PrefixWhole
      <4>3. QED
        BY <2>1, <3>1, <4>2
    <3>2. CASE ~(Len(w) <= MaxCapture)
      <4>1. cut[s] /\ b = TrimIncompleteTail(Prefix(w, MaxCapture))
        BY <1>3, <2>1, <2>2, <3>2
      <4>2. MaxCapture <= Len(w)
        BY <2>1, <3>2
      <4>3. PICK m \in 0 .. MaxCapture :
              /\ m >= MaxCapture - 3 /\ TrimIncompleteTail(Prefix(w, MaxCapture)) = Prefix(w, m)
              /\ Utf8(w) => Utf8(Prefix(w, m))
        BY <2>1, <4>2, TrimmedPrefix
      <4> HIDE DEF b, w
      <4>4. m \in 0 .. Len(w) /\ m \in MaxCapture - 3 .. MaxCapture
        BY <2>1, <4>2, <4>3
      <4>5. QED
        BY <3>2, <4>1, <4>3, <4>4
    <3>3. QED
      BY <3>1, <3>2
  <2> HIDE DEF b
  <2>4. PICK m \in 0 .. Len(w) : /\ b = Prefix(w, m) /\ (Utf8(w) => Utf8(b))
                                 /\ Len(w) <= MaxCapture => m = Len(w)
                                 /\ ~(Len(w) <= MaxCapture) => m \in MaxCapture - 3 .. MaxCapture
    BY <2>3
  <2> DEFINE text == resolved'.text[s]
  <2>5. text = Decode(b, codePage)
    BY <1>2 DEF b
  <2> HIDE DEF text
  <2>6. text.bytes = (IF text.as = "utf8" THEN Unmarked(b) ELSE b) /\ (text.as = "utf8" <=> Utf8(b))
    <3>1. CASE Utf8(b)
      BY <2>5, <3>1 DEF Decode
    <3>2. CASE ~Utf8(b)
      <4>1. text.bytes = b /\ text.as = (IF codePage THEN "legacy" ELSE "lossy")
        BY <2>5, <3>2 DEF Decode
      <4>2. QED
        BY <3>2, <4>1
    <3>3. QED
      BY <3>1, <3>2
  <2>7. Len(w) <= MaxCapture => b = w
    BY <2>1, <2>4, PrefixWhole
  <2> HIDE DEF w
  <2>8. /\ text.bytes = IF text.as = "utf8" THEN Unmarked(Prefix(w, m)) ELSE Prefix(w, m)
        /\ Utf8(w) => text.as = "utf8"
        /\ Len(w) <= MaxCapture /\ ~Utf8(w) => text.as # "utf8"
    BY <2>4, <2>6, <2>7
  <2>9. QED
    BY <2>4, <2>8 DEF text, w
<1>5. CaptureHonest'
  BY <1>1, <1>2, <1>3, <1>4 DEF CaptureHonest
<1>6. QED
  BY <1>1, <1>5 DEF CaptureInv, StreamInv

LEMMA InitCapture == MaxCapture \in Nat /\ Outputs \subseteq Seq(Byte) /\ CaptureInit => CaptureInv
<1> SUFFICES ASSUME MaxCapture \in Nat, Outputs \subseteq Seq(Byte), CaptureInit PROVE CaptureInv
  OBVIOUS
<1>1. ASSUME NEW s \in Streams PROVE StreamInv(s)
  <2>1. written[s] \in Seq(Byte) /\ sent[s] = 0 /\ kept[s] = <<>> /\ cut[s] = FALSE
    BY DEF CaptureInit
  <2>2. Prefix(written[s], 0) = <<>>
    <3>1. Prefix(written[s], 0) = SubSeq(written[s], 1, 0)
      BY <2>1, LenProperties DEF Prefix
    <3>2. QED
      BY <3>1, SubSeqEmpty
  <2>3. QED
    BY <2>1, <2>2, LenProperties DEF StreamInv
<1>2. QED
  BY <1>1 DEF CaptureInit, CaptureInv, CaptureHonest, NoText

\* executor.ts:519-613: for any cap, any output and any cutting into chunks, a handler is
\* given a marked prefix, trimmed by three bytes at the most and UTF-8 if the tool's was.
THEOREM HonestCapture == CaptureSpec => []CaptureHonest
<1>1. CaptureInit => CaptureInv
  BY CaptureAssumption, InitCapture
<1>2. CaptureInv /\ [CaptureNext]_captureVars => CaptureInv'
  <2> SUFFICES ASSUME CaptureInv, [CaptureNext]_captureVars PROVE CaptureInv'
    OBVIOUS
  <2>1. CASE Error
    BY <2>1 DEF Error, CaptureInv, StreamInv, CaptureHonest
  <2>2. CASE UNCHANGED captureVars
    BY <2>2 DEF captureVars, CaptureInv, StreamInv, CaptureHonest
  <2>3. QED
    BY <2>1, <2>2, CaptureAssumption, DataInv, CloseInv DEF CaptureNext
<1>3. CaptureInv => CaptureHonest
  BY DEF CaptureInv
<1>4. QED
  BY <1>1, <1>2, <1>3, PTL DEF CaptureSpec

-----------------------------------------------------------------------------
(* Sequences, by way of the least counterexample *)

LEMMA Least ==
    ASSUME NEW T, T \subseteq Nat, T # {} PROVE \E x \in T : \A y \in T : x <= y
<1>1. PICK x \in T : \A y \in T : ~(<<y, x>> \in OpToRel(<, Nat))
  BY WFMin, NatLessThanWellFounded
<1>2. \A y \in T : ~(y < x)
  BY <1>1 DEF OpToRel
<1>3. QED
  BY <1>2

\* The function that Without builds its answer by.
Dropping(search, dropped, rest) ==
    /\ DOMAIN rest = 0 .. Len(search) /\ rest[0] = <<>>
    /\ \A i \in 1 .. Len(search) :
          rest[i] = IF search[i] \in dropped THEN rest[i - 1] ELSE Append(rest[i - 1], search[i])

LEMMA WithoutBy ==
    ASSUME NEW S, NEW search \in Seq(S), NEW dropped
    PROVE  \E rest : Dropping(search, dropped, rest) /\ Without(search, dropped) = rest[Len(search)]
<1> DEFINE step(f, i) == IF i = 0 THEN <<>>
                         ELSE IF search[i] \in dropped THEN f[i - 1] ELSE Append(f[i - 1], search[i])
           Built(f, n) == f = [i \in 0 .. n |-> step(f, i)]
           rest == CHOOSE f : Built(f, Len(search))
           T == {n \in Nat : ~ \E f : Built(f, n)}
<1>1. Len(search) \in Nat
  BY LenProperties
<1>2. T = {}
  <2> SUFFICES ASSUME T # {} PROVE FALSE
    OBVIOUS
  <2>1. PICK n \in T : \A m \in T : n <= m
    BY Least
  <2>2. Built([i \in 0 .. 0 |-> <<>>], 0)
    OBVIOUS
  <2>3. 0 \notin T
    BY <2>2
  <2>4. n \in Nat /\ n # 0
    BY <2>1, <2>3
  <2> HIDE DEF T
  <2>5. n - 1 \in Nat /\ n - 1 \notin T
    BY <2>1, <2>4
  <2> USE DEF T
  <2>6. PICK f : Built(f, n - 1)
    BY <2>5
  <2> DEFINE g == [i \in 0 .. n |-> IF i = n THEN step(f, n) ELSE f[i]]
  <2>7. \A i \in 0 .. n - 1 : f[i] = step(f, i)
    BY <2>6
  <2>8. \A i \in 0 .. n : step(g, i) = step(f, i)
    BY <2>4
  <2>9. \A i \in 0 .. n : g[i] = step(g, i)
    BY <2>4, <2>7, <2>8
  <2>10. Built(g, n)
    BY <2>9
  <2>11. QED
    BY <2>1, <2>10
<1>3. Built(rest, Len(search))
  BY <1>1, <1>2
<1>4. Without(search, dropped) = rest[Len(search)]
  BY DEF Without
<1> HIDE DEF rest
<1>5. DOMAIN rest = 0 .. Len(search)
  BY <1>3
<1>6. \A i \in 0 .. Len(search) : rest[i] = step(rest, i)
  BY <1>3
<1>7. rest[0] = <<>>
  BY <1>1, <1>6
<1>8. ASSUME NEW i \in 1 .. Len(search)
      PROVE  rest[i] = IF search[i] \in dropped THEN rest[i - 1] ELSE Append(rest[i - 1], search[i])
  <2>1. i \in 0 .. Len(search) /\ i # 0
    BY <1>1
  <2>2. QED
    BY <1>6, <2>1
<1>9. Dropping(search, dropped, rest)
  BY <1>5, <1>7, <1>8 DEF Dropping
<1>10. QED
  BY <1>4, <1>9

\* What is left has none of what was dropped.
LEMMA WithoutTyped ==
    ASSUME NEW S, NEW search \in Seq(S), NEW dropped
    PROVE  Without(search, dropped) \in Seq(S \ dropped)
<1>1. PICK rest : Dropping(search, dropped, rest) /\ Without(search, dropped) = rest[Len(search)]
  BY WithoutBy
<1>2. Len(search) \in Nat
  BY LenProperties
<1> DEFINE T == {n \in 0 .. Len(search) : rest[n] \notin Seq(S \ dropped)}
<1>3. T = {}
  <2> SUFFICES ASSUME T # {} PROVE FALSE
    OBVIOUS
  <2>1. PICK n \in T : \A m \in T : n <= m
    <3>1. T \subseteq Nat
      BY <1>2
    <3>2. QED
      BY <3>1, Least
  <2>2. rest[0] \in Seq(S \ dropped)
    BY <1>1, EmptySeq DEF Dropping
  <2>3. n # 0 /\ n \in 1 .. Len(search) /\ n - 1 \in 0 .. Len(search)
    BY <1>2, <2>1, <2>2
  <2>4. rest[n - 1] \in Seq(S \ dropped)
    BY <1>2, <2>1, <2>3
  <2>5. search[n] \in S
    BY <2>3, ElementOfSeq
  <2>6. rest[n] \in Seq(S \ dropped)
    <3>1. CASE search[n] \in dropped
      BY <1>1, <2>3, <2>4, <3>1 DEF Dropping
    <3>2. CASE search[n] \notin dropped
      <4>1. rest[n] = Append(rest[n - 1], search[n]) /\ search[n] \in S \ dropped
        BY <1>1, <2>3, <2>5, <3>2 DEF Dropping
      <4>2. QED
        BY <2>4, <4>1, AppendProperties
    <3>3. QED
      BY <3>1, <3>2
  <2>7. QED
    BY <2>1, <2>6
<1>4. QED
  BY <1>1, <1>2, <1>3

\* Two ways to leave out the same entries.
LEMMA WithoutSame ==
    ASSUME NEW S, NEW search \in Seq(S), NEW A, NEW B,
           \A i \in 1 .. Len(search) : search[i] \in A <=> search[i] \in B
    PROVE  Without(search, A) = Without(search, B)
<1>1. PICK f : Dropping(search, A, f) /\ Without(search, A) = f[Len(search)]
  BY WithoutBy
<1>2. PICK g : Dropping(search, B, g) /\ Without(search, B) = g[Len(search)]
  BY WithoutBy
<1>3. Len(search) \in Nat
  BY LenProperties
<1> DEFINE T == {n \in 0 .. Len(search) : f[n] # g[n]}
<1>4. T = {}
  <2> SUFFICES ASSUME T # {} PROVE FALSE
    OBVIOUS
  <2>1. PICK n \in T : \A m \in T : n <= m
    <3>1. T \subseteq Nat
      BY <1>3
    <3>2. QED
      BY <3>1, Least
  <2>2. n # 0 /\ n \in 1 .. Len(search) /\ n - 1 \in 0 .. Len(search)
    BY <1>1, <1>2, <1>3, <2>1 DEF Dropping
  <2>3. f[n - 1] = g[n - 1]
    BY <1>3, <2>1, <2>2
  <2>4. f[n] = g[n]
    BY <1>1, <1>2, <2>2, <2>3 DEF Dropping
  <2>5. QED
    BY <2>1, <2>4
<1>5. QED
  BY <1>1, <1>2, <1>3, <1>4

-----------------------------------------------------------------------------
(* Shim resolution *)

Foreign == {e \in Entries : DirOf(e) # "shim"}
ShimEntries == {e \in Entries : Normal(e) = "shim" \/ DirOf(e) = "shim"}

\* The first entry at which there was an executable file, below directories other than the
\* shim directory.
FirstExec(found, search) ==
    LET hits == {i \in 1 .. Len(search) : found[search[i]] = "exec"}
    IN IF hits = {} THEN "none" ELSE search[CHOOSE i \in hits : \A j \in hits : i <= j]

\* A wrapper installed under a path that spells the shim directory as itself holds the first
\* real tool of what it takes for the search path.
Baked(w) ==
    /\ w.baked \in Entries \cup {"none"} /\ w.search \in Seq(Entries) /\ w.aliased \in BOOLEAN
    /\ ~w.aliased => w.search \in Seq(Foreign) /\ w.baked = FirstExec(w.found, w.search)

Env == [shim : BOOLEAN, of : Programs \cup {"none"}, baked : Entries \cup {"none"}, search : Seq(Entries)]
Proc == [prog : Programs, env : Env, search : Seq(Entries), target : Entries \cup {"none"},
         again : BOOLEAN, end : {"running", "ran", "refused"}]

\* A running command goes by its own wrapper as it is now, and by the path as it is now
\* unless it came through that wrapper once more.
Running ==
    /\ proc.env.of = proc.prog /\ proc.env.baked # "none" =>
          proc.env = Exports(proc.prog)
    /\ proc.env.baked # "none" => proc.env.shim
    /\ proc.again \/ proc.search = path

ShimInv ==
    /\ path \in Seq(Entries)
    /\ wrapper = [p \in Programs |-> wrapper[p]] /\ \A p \in Programs : Baked(wrapper[p])
    /\ proc \in Proc \cup {NoProc}
    /\ proc.end = "running" => Running
    /\ RunsTheRealTool

LEMMA StripFacts ==
    ASSUME NEW search \in Seq(Entries)
    PROVE  /\ StripShimDir(search) \in Seq(Foreign) /\ StripShimDir(search) \in Seq(Entries)
           /\ StripExact(search) \in Seq(Entries)
           /\ (\A i \in 1 .. Len(search) : search[i] \notin Aliases \ {"shim"})
                 => StripExact(search) = StripShimDir(search)
<1>1. StripShimDir(search) = Without(search, ShimEntries) /\ StripExact(search) = Without(search, {"shim"})
  BY DEF StripShimDir, StripExact, ShimEntries
<1>2. StripShimDir(search) \in Seq(Entries \ ShimEntries) /\ StripExact(search) \in Seq(Entries \ {"shim"})
  BY <1>1, WithoutTyped
<1>3. Entries \ ShimEntries \subseteq Foreign /\ Foreign \subseteq Entries
  BY DEF ShimEntries, Foreign
<1>4. StripShimDir(search) \in Seq(Foreign) /\ StripShimDir(search) \in Seq(Entries)
  BY <1>2, <1>3, SeqMonotonic
<1>5. StripExact(search) \in Seq(Entries)
  BY <1>2, SeqMonotonic
<1>6. ASSUME \A i \in 1 .. Len(search) : search[i] \notin Aliases \ {"shim"}
      PROVE  StripExact(search) = StripShimDir(search)
  <2>1. \A i \in 1 .. Len(search) : search[i] \in {"shim"} <=> search[i] \in ShimEntries
    BY <1>6, ElementOfSeq DEF ShimEntries, Normal, DirOf, Aliases
  <2>2. QED
    BY <1>1, <2>1, WithoutSame
<1>7. QED
  BY <1>4, <1>5, <1>6

\* What is found is an entry that was searched.
LEMMA RealFound ==
    ASSUME NEW S, NEW prog, NEW search \in Seq(S)
    PROVE  ResolveReal(prog, search) \in S \cup {"none"}
<1> DEFINE hits == {i \in 1 .. Len(search) : At(prog, search[i]) = "exec"}
<1>1. CASE hits = {}
  BY <1>1 DEF ResolveReal
<1>2. CASE hits # {}
  <2>1. hits \subseteq Nat
    BY LenProperties
  <2>2. \E i \in hits : \A j \in hits : i <= j
    BY <1>2, <2>1, Least
  <2>3. PICK i \in hits : ResolveReal(prog, search) = search[i]
    BY <1>2, <2>2 DEF ResolveReal
  <2>4. QED
    BY <2>3, ElementOfSeq
<1>3. QED
  BY <1>1, <1>2

LEMMA RealIsFirst ==
    ASSUME NEW prog, NEW search \in Seq(Foreign)
    PROVE  ResolveReal(prog, search) = FirstExec(files[prog], search)
<1>1. \A i \in 1 .. Len(search) : search[i] \in Foreign
  BY ElementOfSeq
<1>2. \A i \in 1 .. Len(search) : At(prog, search[i]) = files[prog][search[i]]
  BY <1>1 DEF Foreign, At
<1> DEFINE hits == {i \in 1 .. Len(search) : At(prog, search[i]) = "exec"}
           execs == {i \in 1 .. Len(search) : files[prog][search[i]] = "exec"}
<1>3. hits = execs
  BY <1>2
<1>4. ResolveReal(prog, search) = IF hits = {} THEN "none"
                                  ELSE search[CHOOSE i \in hits : \A j \in hits : i <= j]
  BY DEF ResolveReal
<1>5. FirstExec(files[prog], search) = IF execs = {} THEN "none"
                                       ELSE search[CHOOSE i \in execs : \A j \in execs : i <= j]
  BY DEF FirstExec
<1> HIDE DEF hits, execs
<1>6. QED
  BY <1>3, <1>4, <1>5

LEMMA FirstFound ==
    ASSUME NEW found, NEW search \in Seq(Foreign)
    PROVE  FirstExec(found, search) \in Foreign \cup {"none"}
<1> DEFINE hits == {i \in 1 .. Len(search) : found[search[i]] = "exec"}
<1>1. CASE hits = {}
  BY <1>1 DEF FirstExec
<1>2. CASE hits # {}
  <2>1. hits \subseteq Nat
    BY LenProperties
  <2>2. \E i \in hits : \A j \in hits : i <= j
    BY <1>2, <2>1, Least
  <2>3. PICK i \in hits : FirstExec(found, search) = search[i]
    BY <1>2, <2>2 DEF FirstExec
  <2>4. QED
    BY <2>3, ElementOfSeq
<1>3. QED
  BY <1>1, <1>2

LEMMA ForeignDir ==
    ASSUME NEW e \in Foreign \cup {"none"} PROVE DirOf(e) # "shim"
  BY DEF Foreign, DirOf, Aliases

\* Nothing runs yet, or nothing any more.
LEMMA ShimQuiet ==
    ASSUME NEW p, p = NoProc PROVE p.end = "none" /\ p.again = FALSE /\ p.end # "running"
  BY DEF NoProc

\* The user, or an installation, changes something while no command is under way.
LEMMA StepChange ==
    ASSUME ShimInv, Install \/ Uninstall \/ MoveTool \/ EditPath PROVE ShimInv'
<1>1. proc' = NoProc /\ proc'.end # "running" /\ RunsTheRealTool'
  BY ShimQuiet DEF Install, Uninstall, MoveTool, EditPath, Change, RunsTheRealTool
<1>2. path' \in Seq(Entries)
  <2>1. CASE path' = path
    BY <2>1 DEF ShimInv
  <2>2. CASE path' \in Paths
    <3>1. Paths \subseteq UNION {[1 .. n -> Entries] : n \in Nat}
      BY ShimAssumption DEF Paths, SeqOf
    <3>2. QED
      BY <2>2, <3>1, SeqDef
  <2>3. QED
    BY <2>1, <2>2 DEF Install, Uninstall, MoveTool, EditPath
<1>3. wrapper' = [p \in Programs |-> wrapper'[p]] /\ \A p \in Programs : Baked(wrapper'[p])
  <2>1. CASE wrapper' = wrapper
    BY <2>1 DEF ShimInv
  <2>2. CASE Uninstall
    <3>1. Baked(NoWrapper)
      <4>1. <<>> \in Seq(Entries) /\ <<>> \in Seq(Foreign) /\ Len(<<>>) = 0
        BY EmptySeq
      <4>2. FirstExec(<<>>, <<>>) = "none"
        BY <4>1 DEF FirstExec
      <4>3. QED
        BY <4>1, <4>2 DEF Baked, NoWrapper
    <3>2. QED
      BY <2>2, <3>1 DEF Uninstall
  <2>3. CASE Install
    <3> DEFINE w(p) == [baked |-> ResolveReal(p, StripExact(path)), search |-> StripShimDir(path),
                        found |-> files[p],
                        aliased |-> \E i \in 1 .. Len(path) : path[i] \in Aliases \ {"shim"}]
    <3>1. wrapper' = [p \in Programs |-> w(p)]
      BY <2>3 DEF Install
    <3>2. ASSUME NEW p \in Programs PROVE Baked(w(p))
      <4>1. path \in Seq(Entries)
        BY DEF ShimInv
      <4>2. ResolveReal(p, StripExact(path)) \in Entries \cup {"none"}
        BY <4>1, StripFacts, RealFound
      <4>3. w(p).baked = ResolveReal(p, StripExact(path)) /\ w(p).search = StripShimDir(path) /\ w(p).found = files[p]
            /\ w(p).aliased = \E i \in 1 .. Len(path) : path[i] \in Aliases \ {"shim"}
        OBVIOUS
      <4>4. StripShimDir(path) \in Seq(Foreign) /\ StripShimDir(path) \in Seq(Entries)
        BY <4>1, StripFacts
      <4>5. ASSUME ~w(p).aliased
            PROVE  w(p).baked = FirstExec(w(p).found, w(p).search)
        <5>1. StripExact(path) = StripShimDir(path)
          BY <4>1, <4>3, <4>5, StripFacts
        <5>2. QED
          BY <4>3, <4>4, <5>1, RealIsFirst
      <4>6. w(p).aliased \in BOOLEAN
        BY <4>3
      <4> HIDE DEF w
      <4>7. QED
        BY <4>2, <4>3, <4>4, <4>5, <4>6 DEF Baked
    <3> HIDE DEF w
    <3>3. QED
      BY <3>1, <3>2
  <2>4. QED
    BY <2>1, <2>2, <2>3 DEF MoveTool, EditPath
<1>4. QED
  BY <1>1, <1>2, <1>3 DEF ShimInv

\* What a wrapper exports.
LEMMA ExportsTyped ==
    ASSUME ShimInv, NEW p \in Programs
    PROVE  /\ Exports(p) \in Env /\ Exports(p).shim /\ Exports(p).of = p
           /\ Exports(p).baked = wrapper[p].baked /\ Exports(p).search = wrapper[p].search
  BY DEF ShimInv, Baked, Exports, Env

LEMMA StepCommand ==
    ASSUME ShimInv, Command PROVE ShimInv'
<1>1. PICK p \in Programs, env \in {Outside} \cup {Exports(q) : q \in {q \in Programs : wrapper[q] # NoWrapper}} :
        proc' = [prog |-> p, env |-> env, search |-> path, target |-> "none",
                 again |-> FALSE, end |-> "running"]
  BY DEF Command
<1>2. UNCHANGED <<path, files, wrapper>>
  BY DEF Command
<1>3. Outside \in Env
  BY EmptySeq DEF Outside, Env
<1>4. env \in Env
  BY <1>1, <1>3, ExportsTyped
<1>5. proc'.prog = p /\ proc'.env = env /\ proc'.search = path /\ proc'.again = FALSE /\ proc'.end = "running"
  BY <1>1
<1>6. proc' \in Proc
  BY <1>1, <1>4 DEF Proc, ShimInv
<1>7. Running'
  <2>1. CASE env = Outside
    <3>1. env.baked = "none"
      BY <2>1 DEF Outside
    <3>2. QED
      BY <1>2, <1>5, <3>1 DEF Running
  <2>2. ASSUME NEW q \in Programs, env = Exports(q)
        PROVE  Running'
    <3>1. env.shim /\ env.of = q
      BY <2>2, ExportsTyped
    <3>2. Exports(q)' = Exports(q)
      BY <1>2 DEF Exports
    <3>3. QED
      BY <1>2, <1>5, <2>2, <3>1, <3>2 DEF Running
  <2>3. QED
    BY <1>1, <2>1, <2>2
<1>8. RunsTheRealTool'
  BY <1>5 DEF RunsTheRealTool
<1>9. QED
  BY <1>2, <1>6, <1>7, <1>8 DEF ShimInv

\* Who goes by what was baked in goes by the own wrapper, and by the path as it is.
LEMMA BakedTarget ==
    ASSUME ShimInv, proc.end = "running",
           NEW search, search = IF proc.env.shim THEN StripShimDir(proc.search) ELSE proc.search,
           BakedRealBin(proc.prog, proc.env, search) # "none"
    PROVE  /\ BakedRealBin(proc.prog, proc.env, search) = wrapper[proc.prog].baked
           /\ proc.env.shim /\ wrapper[proc.prog].search = search
           /\ proc.again \/ search = StripShimDir(path)
<1>1. proc \in Proc /\ Running
  BY ShimQuiet DEF ShimInv
<1>2. /\ proc.env.baked # "none" /\ proc.env.search = search /\ proc.env.of = proc.prog
      /\ BakedRealBin(proc.prog, proc.env, search) = proc.env.baked
  BY DEF BakedRealBin
<1>3. proc.env = Exports(proc.prog) /\ proc.env.shim
  BY <1>1, <1>2 DEF Running
<1>4. proc.prog \in Programs
  BY <1>1 DEF Proc
<1>5. proc.env.baked = wrapper[proc.prog].baked /\ proc.env.search = wrapper[proc.prog].search
  BY <1>3, <1>4, ExportsTyped
<1>6. QED
  BY <1>1, <1>2, <1>3, <1>5 DEF Running

LEMMA StepSpawn ==
    ASSUME ShimInv, Spawn PROVE ShimInv'
<1> DEFINE p == proc.prog
           env == proc.env
           search == IF env.shim THEN StripShimDir(proc.search) ELSE proc.search
           target == Target(p, env, search)
           w == wrapper[p]
<1>1. proc.end = "running" /\ proc \in Proc /\ Running /\ UNCHANGED <<path, files, wrapper>>
  BY ShimQuiet DEF Spawn, Idle, ShimInv
<1>2. p \in Programs /\ env \in Env /\ proc.search \in Seq(Entries) /\ proc.again \in BOOLEAN
  BY <1>1 DEF Proc
<1>3. search \in Seq(Entries) /\ (env.shim => search \in Seq(Foreign))
  BY <1>2, StripFacts
<1>4. Baked(w)
  BY <1>2 DEF ShimInv
<1>5. (proc.again => w.aliased) /\ w.aliased \in BOOLEAN
  <2>1. proc # NoProc
    BY <1>1, ShimQuiet
  <2>2. QED
    BY <1>4, <2>1 DEF ShimInv, RunsTheRealTool, Baked
<1>6. \/ /\ BakedRealBin(p, env, search) # "none" /\ target = w.baked /\ env.shim /\ w.search = search
         /\ proc.again \/ search = StripShimDir(path)
      \/ BakedRealBin(p, env, search) = "none" /\ target = ResolveReal(p, search)
  BY <1>1, BakedTarget DEF Target
<1>7. target \in Entries \cup {"none"}
  BY <1>3, <1>4, <1>6, RealFound DEF Baked
<1>8. \/ proc' = [proc EXCEPT !.end = "refused"]
      \/ proc' = [proc EXCEPT !.target = target, !.search = search, !.end = "ran"]
      \/ /\ DirOf(target) = "shim" /\ ~proc.again
         /\ proc' = [proc EXCEPT !.env = Exports(p), !.search = search, !.again = env.shim]
  BY DEF Spawn
<1> HIDE DEF p, env, search, target, w
<1>9. CASE proc' = [proc EXCEPT !.end = "refused"]
  <2>1. proc' \in Proc /\ proc'.end = "refused" /\ proc'.prog = p /\ proc'.again = proc.again
    BY <1>1, <1>9 DEF Proc, p
  <2>2. RunsTheRealTool'
    BY <1>1, <1>5, <2>1 DEF RunsTheRealTool, w
  <2>3. QED
    BY <1>1, <2>1, <2>2 DEF ShimInv
<1>10. CASE proc' = [proc EXCEPT !.target = target, !.search = search, !.end = "ran"]
  <2>1. /\ proc' \in Proc /\ proc'.end = "ran" /\ proc'.prog = p /\ proc'.again = proc.again
        /\ proc'.target = target /\ proc'.search = search
    BY <1>1, <1>3, <1>7, <1>10 DEF Proc, p
  <2>2. ResolveReal(proc.prog, proc.search)' = ResolveReal(p, search)
    BY <1>1, <2>1 DEF ResolveReal, At
  <2>3. \/ target = ResolveReal(p, search)
        \/ w.search = StripShimDir(path) /\ w.found # files[p]
        \/ w.aliased
    <3>1. SUFFICES ASSUME BakedRealBin(p, env, search) # "none", w.found = files[p], ~w.aliased
                   PROVE  target = ResolveReal(p, search) \/ w.search # StripShimDir(path)
      BY <1>6, <1>5
    <3>2. target = w.baked /\ w.search = search /\ env.shim
      BY <1>6, <3>1
    <3>3. w.baked = FirstExec(files[p], search) /\ search \in Seq(Foreign)
      BY <1>4, <3>1, <3>2 DEF Baked
    <3>4. QED
      BY <3>2, <3>3, RealIsFirst
  <2>4. wrapper'[proc'.prog] = w /\ files'[proc'.prog] = files[p] /\ path' = path
    BY <1>1, <2>1 DEF w
  <2>5. StripShimDir(path)' = StripShimDir(path)
    BY <2>4 DEF StripShimDir
  <2>6. RunsTheRealTool'
    BY <1>5, <2>1, <2>2, <2>3, <2>4, <2>5 DEF RunsTheRealTool
  <2>7. QED
    BY <1>1, <2>1, <2>6 DEF ShimInv
<1>11. CASE /\ DirOf(target) = "shim" /\ ~proc.again
            /\ proc' = [proc EXCEPT !.env = Exports(p), !.search = search, !.again = env.shim]
  <2>1. Exports(p) \in Env /\ Exports(p).shim
    BY <1>2, ExportsTyped
  <2>2. /\ proc' \in Proc /\ proc'.end = "running" /\ proc'.prog = p /\ proc'.again = env.shim
        /\ proc'.env = Exports(p) /\ proc'.search = search
    BY <1>1, <1>2, <1>3, <1>11, <2>1 DEF Proc, Env, p
  <2>3. env.shim => w.aliased
    <3>1. SUFFICES ASSUME env.shim, ~w.aliased PROVE FALSE
      BY <1>5
    <3>2. target \in Foreign \cup {"none"}
      <4>1. CASE target = w.baked /\ w.search = search
        <5>1. target = FirstExec(w.found, search) /\ search \in Seq(Foreign)
          BY <1>3, <1>4, <3>1, <4>1 DEF Baked
        <5>2. QED
          BY <5>1, FirstFound
      <4>2. CASE target = ResolveReal(p, search)
        BY <1>3, <3>1, <4>2, RealFound
      <4>3. QED
        BY <1>6, <4>1, <4>2
    <3>3. QED
      BY <1>11, <3>2, ForeignDir
  <2>4. Running'
    <3>1. env.shim \/ search = path
      BY <1>1, <1>11 DEF Running, search
    <3>2. Exports(proc.prog)' = Exports(p)
      BY <1>1, <2>2 DEF Exports
    <3>3. QED
      BY <1>1, <2>1, <2>2, <3>1, <3>2 DEF Running
  <2>5. RunsTheRealTool'
    BY <1>1, <2>2, <2>3 DEF RunsTheRealTool, w
  <2>6. QED
    BY <1>1, <2>2, <2>4, <2>5 DEF ShimInv
<1>12. QED
  BY <1>8, <1>9, <1>10, <1>11

LEMMA InitShim == ShimInit => ShimInv
<1> SUFFICES ASSUME ShimInit PROVE ShimInv
  OBVIOUS
<1>1. path \in Seq(Entries)
  <2>1. Paths \subseteq UNION {[1 .. n -> Entries] : n \in Nat}
    BY ShimAssumption DEF Paths, SeqOf
  <2>2. QED
    BY <2>1, SeqDef DEF ShimInit
<1>2. Baked(NoWrapper)
  <2>1. <<>> \in Seq(Entries) /\ <<>> \in Seq(Foreign) /\ Len(<<>>) = 0
    BY EmptySeq
  <2>2. FirstExec(<<>>, <<>>) = "none"
    BY <2>1 DEF FirstExec
  <2>3. QED
    BY <2>1, <2>2 DEF Baked, NoWrapper
<1>3. proc = NoProc /\ proc.end # "running" /\ RunsTheRealTool
  BY ShimQuiet DEF ShimInit, RunsTheRealTool
<1>4. QED
  BY <1>1, <1>2, <1>3 DEF ShimInit, ShimInv

\* executor.ts:218-228: with any programs, directories and search paths, and whatever is
\* installed, moved or edited between commands, what a wrapped command starts is what the
\* shell would, but for what the fingerprint does not cover.
THEOREM RealTool == ShimSpec => []RunsTheRealTool
<1>1. ShimInv /\ [ShimNext]_shimVars => ShimInv'
  <2> SUFFICES ASSUME ShimInv, [ShimNext]_shimVars PROVE ShimInv'
    OBVIOUS
  <2>1. CASE UNCHANGED shimVars
    <3>1. UNCHANGED <<path, files, wrapper, proc, changes>>
      BY <2>1 DEF shimVars
    <3>2. Running => Running'
      BY <3>1 DEF Running, Exports
    <3>3. RunsTheRealTool'
      <4>1. \A prog, search : ResolveReal(prog, search)' = ResolveReal(prog, search)
        BY <3>1 DEF ResolveReal, At
      <4>2. QED
        BY <3>1, <4>1 DEF ShimInv, RunsTheRealTool
    <3>4. QED
      BY <3>1, <3>2, <3>3 DEF ShimInv
  <2>2. QED
    BY <2>1, StepChange, StepCommand, StepSpawn DEF ShimNext
<1>2. ShimInv => RunsTheRealTool
  BY DEF ShimInv
<1>3. QED
  BY <1>1, <1>2, InitShim, PTL DEF ShimSpec

-----------------------------------------------------------------------------
(* Percent signs *)

\* STRING itself, in a form in which the provers see that "%" is one.
Pieces == STRING \cup {"%"}

\* The function that FlattenSeq builds its answer by.
LEMMA FlattenBy ==
    ASSUME NEW seqs, Len(seqs) \in Nat, Len(seqs) # 0
    PROVE  \E flat : /\ FlattenSeq(seqs) = flat[Len(seqs)]
                     /\ flat[1] = seqs[1]
                     /\ \A i \in 2 .. Len(seqs) : flat[i] = flat[i - 1] \o seqs[i]
<1> DEFINE step(f, i) == IF i = 1 THEN seqs[i] ELSE f[i - 1] \o seqs[i]
           Built(f, n) == f = [i \in 1 .. n |-> step(f, i)]
           flat == CHOOSE f : Built(f, Len(seqs))
           T == {n \in Nat : ~ \E f : Built(f, n)}
<1>1. T = {}
  <2> SUFFICES ASSUME T # {} PROVE FALSE
    OBVIOUS
  <2>1. PICK n \in T : \A m \in T : n <= m
    BY Least
  <2>2. Built([i \in 1 .. 0 |-> <<>>], 0)
    OBVIOUS
  <2>3. 0 \notin T
    BY <2>2
  <2>4. n \in Nat /\ n # 0
    BY <2>1, <2>3
  <2> HIDE DEF T
  <2>5. n - 1 \in Nat /\ n - 1 \notin T
    BY <2>1, <2>4
  <2> USE DEF T
  <2>6. PICK f : Built(f, n - 1)
    BY <2>5
  <2> DEFINE g == [i \in 1 .. n |-> IF i = n THEN step(f, n) ELSE f[i]]
  <2>7. \A i \in 1 .. n - 1 : f[i] = step(f, i)
    BY <2>6
  <2>8. \A i \in 1 .. n : step(g, i) = step(f, i)
    BY <2>4
  <2>9. \A i \in 1 .. n : g[i] = step(g, i)
    BY <2>4, <2>7, <2>8
  <2>10. Built(g, n)
    BY <2>9
  <2>11. QED
    BY <2>1, <2>10
<1>2. Built(flat, Len(seqs))
  BY <1>1
<1>3. FlattenSeq(seqs) = flat[Len(seqs)]
  BY DEF FlattenSeq
<1> HIDE DEF flat
<1>4. \A i \in 1 .. Len(seqs) : flat[i] = step(flat, i)
  BY <1>2
<1>5. flat[1] = seqs[1]
  BY <1>4
<1> HIDE DEF Built
<1>6. ASSUME NEW i \in 2 .. Len(seqs) PROVE flat[i] = flat[i - 1] \o seqs[i]
  <2>1. i \in 1 .. Len(seqs) /\ i # 1
    OBVIOUS
  <2>2. flat[i] = step(flat, i)
    BY <1>4, <2>1
  <2>3. QED
    BY <2>1, <2>2
<1>7. QED
  BY <1>3, <1>5, <1>6

\* What is left of piece k of t in u, from place pos[k - 1] to pos[k].
Written(t, u, name, pos, k) ==
    IF t[k] = "%"
    THEN /\ pos[k] = pos[k - 1] + 3
         /\ u[pos[k - 1] + 1] = "%" /\ u[pos[k - 1] + 2] = name /\ u[pos[k - 1] + 3] = "%"
    ELSE pos[k] = pos[k - 1] + 1 /\ u[pos[k - 1] + 1] = t[k]
\* u is t with name, between two percent signs, for every percent sign.
Mirrors(t, u, name) ==
    \E pos \in [0 .. Len(t) -> 0 .. Len(u)] :
        /\ pos[0] = 0 /\ pos[Len(t)] = Len(u)
        /\ \A k \in 1 .. Len(t) : Written(t, u, name, pos, k)

LEMMA MirrorsPiece ==
    ASSUME NEW piece \in Pieces, NEW name \in Pieces
    PROVE  Mirrors(<<piece>>, IF piece = "%" THEN <<"%", name, "%">> ELSE <<piece>>, name)
<1>1. CASE piece = "%"
  <2> DEFINE u == <<"%", name, "%">>
             pos == [k \in 0 .. 1 |-> 3 * k]
  <2>1. Len(u) = 3 /\ u[1] = "%" /\ u[2] = name /\ u[3] = "%"
    OBVIOUS
  <2>2. Len(<<piece>>) = 1 /\ <<piece>>[1] = "%"
    BY <1>1
  <2>3. pos[0] = 0 /\ pos[1] = 3 /\ pos \in [0 .. 1 -> 0 .. 3]
    OBVIOUS
  <2> HIDE DEF u, pos
  <2>4. Written(<<piece>>, u, name, pos, 1)
    BY <2>1, <2>2, <2>3 DEF Written
  <2>5. Mirrors(<<piece>>, u, name)
    BY <2>1, <2>2, <2>3, <2>4 DEF Mirrors
  <2>6. QED
    BY <1>1, <2>5 DEF u
<1>2. CASE piece # "%"
  <2> DEFINE t == <<piece>>
             pos == [k \in 0 .. 1 |-> k]
  <2>1. Len(t) = 1 /\ t[1] # "%"
    BY <1>2
  <2>2. pos[0] = 0 /\ pos[1] = 1 /\ pos \in [0 .. 1 -> 0 .. 1]
    OBVIOUS
  <2> HIDE DEF t, pos
  <2>3. Written(t, t, name, pos, 1)
    BY <2>1, <2>2 DEF Written
  <2>4. Mirrors(t, t, name)
    BY <2>1, <2>2, <2>3 DEF Mirrors
  <2>5. QED
    BY <1>2, <2>4 DEF t
<1>3. QED
  BY <1>1, <1>2

LEMMA MirrorsConcat ==
    ASSUME NEW t1 \in Seq(Pieces), NEW u1 \in Seq(Pieces), NEW t2 \in Seq(Pieces), NEW u2 \in Seq(Pieces),
           NEW name \in Pieces, Mirrors(t1, u1, name), Mirrors(t2, u2, name)
    PROVE  Mirrors(t1 \o t2, u1 \o u2, name)
<1> DEFINE t == t1 \o t2
           u == u1 \o u2
           a == Len(t1)
           b == Len(u1)
           m == Len(t2)
           n == Len(u2)
<1>1. a \in Nat /\ b \in Nat /\ m \in Nat /\ n \in Nat
  BY LenProperties
<1>2. /\ Len(t) = a + m /\ Len(u) = b + n
      /\ \A i \in 1 .. a : t[i] = t1[i]
      /\ \A i \in 1 .. m : t[a + i] = t2[i]
      /\ \A i \in 1 .. b : u[i] = u1[i]
      /\ \A i \in 1 .. n : u[b + i] = u2[i]
  <2>1. /\ Len(t) = a + m
        /\ \A i \in 1 .. a + m : t[i] = IF i <= a THEN t1[i] ELSE t2[i - a]
    BY ConcatProperties
  <2>2. /\ Len(u) = b + n
        /\ \A i \in 1 .. b + n : u[i] = IF i <= b THEN u1[i] ELSE u2[i - b]
    BY ConcatProperties
  <2> HIDE DEF t, u, a, b, m, n
  <2>3. QED
    BY <1>1, <2>1, <2>2
<1>3. PICK p \in [0 .. a -> 0 .. b] :
        p[0] = 0 /\ p[a] = b /\ \A k \in 1 .. a : Written(t1, u1, name, p, k)
  BY DEF Mirrors
<1>4. PICK q \in [0 .. m -> 0 .. n] :
        q[0] = 0 /\ q[m] = n /\ \A k \in 1 .. m : Written(t2, u2, name, q, k)
  BY DEF Mirrors
<1> DEFINE pos == [k \in 0 .. Len(t) |-> IF k <= a THEN p[k] ELSE b + q[k - a]]
<1> HIDE DEF t, u, a, b, m, n
<1>5. pos \in [0 .. Len(t) -> 0 .. Len(u)]
  <2>1. ASSUME NEW k \in 0 .. Len(t) PROVE (IF k <= a THEN p[k] ELSE b + q[k - a]) \in 0 .. Len(u)
    <3>1. CASE k <= a
      <4>1. k \in 0 .. a
        BY <1>1, <1>2, <3>1
      <4>2. p[k] \in 0 .. b
        BY <1>3, <4>1
      <4>3. p[k] \in 0 .. Len(u)
        <5>1. Len(u) = b + n /\ b \in Nat /\ n \in Nat
          BY <1>1, <1>2
        <5>2. QED
          BY <4>2, <5>1
      <4>4. QED
        BY <3>1, <4>3
    <3>2. CASE ~(k <= a)
      <4>1. k - a \in 0 .. m
        BY <1>1, <1>2, <3>2
      <4>2. q[k - a] \in 0 .. n
        BY <1>4, <4>1
      <4>3. b + q[k - a] \in 0 .. Len(u)
        <5>1. Len(u) = b + n /\ b \in Nat /\ n \in Nat
          BY <1>1, <1>2
        <5>2. QED
          BY <4>2, <5>1
      <4>4. QED
        BY <3>2, <4>3
    <3>3. QED
      BY <3>1, <3>2
  <2>2. QED
    BY <2>1
<1>6. /\ \A k \in 0 .. a : pos[k] = p[k]
      /\ \A k \in 0 .. m : pos[a + k] = b + q[k]
  <2>1. ASSUME NEW k \in 0 .. a PROVE pos[k] = p[k]
    <3>1. k \in 0 .. Len(t) /\ k <= a
      BY <1>1, <1>2
    <3>2. QED
      BY <3>1
  <2>2. ASSUME NEW k \in 0 .. m PROVE pos[a + k] = b + q[k]
    <3>1. a + k \in 0 .. Len(t) /\ (a + k) - a = k
      BY <1>1, <1>2
    <3>2. CASE k = 0
      <4>1. a + k = a /\ a <= a /\ b + 0 = b
        BY <1>1, <3>2
      <4>2. pos[a] = p[a]
        BY <3>1, <4>1
      <4>3. QED
        BY <1>3, <1>4, <3>2, <4>1, <4>2
    <3>3. CASE k # 0
      <4>1. ~(a + k <= a)
        BY <1>1, <3>3
      <4>2. \A i \in 0 .. Len(t) : ~(i <= a) => pos[i] = b + q[i - a]
        OBVIOUS
      <4>3. pos[a + k] = b + q[(a + k) - a]
        BY <3>1, <4>1, <4>2
      <4>4. QED
        BY <3>1, <4>3
    <3>4. QED
      BY <3>2, <3>3
  <2>3. QED
    BY <2>1, <2>2
<1> HIDE DEF pos
<1>7. pos[0] = 0 /\ pos[Len(t)] = Len(u)
  <2>1. 0 \in 0 .. a /\ m \in 0 .. m
    BY <1>1
  <2>2. pos[0] = p[0] /\ pos[a + m] = b + q[m]
    BY <1>6, <2>1
  <2>3. QED
    BY <1>2, <1>3, <1>4, <2>2
<1>8. ASSUME NEW k \in 1 .. a PROVE Written(t, u, name, pos, k)
  <2> DEFINE x == p[k - 1]
             y == p[k]
  <2>1. k \in 0 .. a /\ k - 1 \in 0 .. a
    BY <1>1
  <2>2. t[k] = t1[k] /\ pos[k] = y /\ pos[k - 1] = x
    BY <1>2, <1>6, <2>1
  <2>3. y \in 0 .. b /\ x \in 0 .. b
    BY <1>3, <2>1
  <2>4. IF t1[k] = "%" THEN y = x + 3 /\ u1[x + 1] = "%" /\ u1[x + 2] = name /\ u1[x + 3] = "%"
        ELSE y = x + 1 /\ u1[x + 1] = t1[k]
    BY <1>3 DEF Written
  <2> HIDE DEF x, y
  <2>5. CASE t1[k] = "%"
    <3>1. y = x + 3
      BY <2>4, <2>5
    <3>2. x + 1 \in 1 .. b /\ x + 2 \in 1 .. b /\ x + 3 \in 1 .. b
      BY <1>1, <2>3, <3>1
    <3>3. u[x + 1] = "%" /\ u[x + 2] = name /\ u[x + 3] = "%"
      BY <1>2, <2>4, <2>5, <3>2
    <3>4. QED
      BY <2>2, <2>5, <3>1, <3>3 DEF Written
  <2>6. CASE t1[k] # "%"
    <3>1. y = x + 1
      BY <2>4, <2>6
    <3>2. x + 1 \in 1 .. b
      BY <1>1, <2>3, <3>1
    <3>3. u[x + 1] = t1[k]
      BY <1>2, <2>4, <2>6, <3>2
    <3>4. QED
      BY <2>2, <2>6, <3>1, <3>3 DEF Written
  <2>7. QED
    BY <2>5, <2>6
<1>9. ASSUME NEW j \in 1 .. m PROVE Written(t, u, name, pos, a + j)
  <2> DEFINE x == q[j - 1]
             y == q[j]
  <2>1. j \in 0 .. m /\ j - 1 \in 0 .. m /\ (a + j) - 1 = a + (j - 1)
    BY <1>1
  <2>2. /\ t[a + j] = t2[j] /\ pos[a + j] = b + y
        /\ pos[(a + j) - 1] = b + x
    BY <1>2, <1>6, <2>1
  <2>3. y \in 0 .. n /\ x \in 0 .. n
    BY <1>4, <2>1
  <2>4. Written(t2, u2, name, q, j)
    BY <1>4
  <2>5. IF t2[j] = "%" THEN y = x + 3 /\ u2[x + 1] = "%" /\ u2[x + 2] = name /\ u2[x + 3] = "%"
        ELSE y = x + 1 /\ u2[x + 1] = t2[j]
    BY <2>4 DEF Written
  <2> HIDE DEF x, y
  <2>6. CASE t2[j] = "%"
    <3>1. y = x + 3
      BY <2>5, <2>6
    <3>2. x + 1 \in 1 .. n /\ x + 2 \in 1 .. n /\ x + 3 \in 1 .. n
      BY <1>1, <2>3, <3>1
    <3>3. /\ u[b + (x + 1)] = "%" /\ u[b + (x + 2)] = name /\ u[b + (x + 3)] = "%"
      BY <1>2, <2>5, <2>6, <3>2
    <3>4. /\ b + y = (b + x) + 3
          /\ b + (x + 1) = (b + x) + 1 /\ b + (x + 2) = (b + x) + 2 /\ b + (x + 3) = (b + x) + 3
      BY <1>1, <2>3, <3>1
    <3>5. t[a + j] = "%" /\ pos[a + j] = pos[(a + j) - 1] + 3
      BY <2>2, <2>6, <3>4
    <3>6. /\ u[pos[(a + j) - 1] + 1] = "%" /\ u[pos[(a + j) - 1] + 2] = name
          /\ u[pos[(a + j) - 1] + 3] = "%"
      BY <2>2, <3>3, <3>4
    <3>7. QED
      BY <3>5, <3>6 DEF Written
  <2>7. CASE t2[j] # "%"
    <3>1. y = x + 1
      BY <2>5, <2>7
    <3>2. x + 1 \in 1 .. n
      BY <1>1, <2>3, <3>1
    <3>3. u[b + (x + 1)] = t2[j]
      BY <1>2, <2>5, <2>7, <3>2
    <3>4. b + y = (b + x) + 1 /\ b + (x + 1) = (b + x) + 1
      BY <1>1, <2>3, <3>1
    <3>5. t[a + j] # "%" /\ pos[a + j] = pos[(a + j) - 1] + 1
      BY <2>2, <2>7, <3>4
    <3>6. u[pos[(a + j) - 1] + 1] = t[a + j]
      BY <2>2, <3>3, <3>4
    <3>7. QED
      BY <3>5, <3>6 DEF Written
  <2>8. QED
    BY <2>6, <2>7
<1>10. ASSUME NEW k \in 1 .. Len(t) PROVE Written(t, u, name, pos, k)
  <2>1. CASE k <= a
    <3>1. k \in 1 .. a
      BY <1>1, <1>2, <2>1
    <3>2. QED
      BY <1>8, <3>1
  <2>2. CASE ~(k <= a)
    <3>1. k - a \in 1 .. m /\ a + (k - a) = k
      BY <1>1, <1>2, <2>2
    <3>2. Written(t, u, name, pos, a + (k - a))
      BY <1>9, <3>1
    <3>3. QED
      BY <3>1, <3>2
  <2>3. QED
    BY <2>1, <2>2
<1>11. Mirrors(t, u, name)
  BY <1>5, <1>7, <1>10 DEF Mirrors
<1>12. QED
  BY <1>11 DEF t, u

LEMMA MirrorsNothing == ASSUME NEW name PROVE Mirrors(<<>>, <<>>, name)
<1> DEFINE pos == [k \in 0 .. 0 |-> 0]
<1>1. Len(<<>>) = 0
  OBVIOUS
<1>2. pos \in [0 .. 0 -> 0 .. 0] /\ pos[0] = 0
  OBVIOUS
<1> HIDE DEF pos
<1>3. \A k \in 1 .. 0 : Written(<<>>, <<>>, name, pos, k)
  OBVIOUS
<1>4. QED
  BY <1>1, <1>2, <1>3 DEF Mirrors

\* Word by word.
LEMMA FlattenMirrors ==
    ASSUME NEW r \in Seq(Seq(Pieces)), NEW s \in Seq(Seq(Pieces)), NEW name \in Pieces,
           Len(r) = Len(s), \A i \in 1 .. Len(r) : Mirrors(r[i], s[i], name)
    PROVE  /\ FlattenSeq(r) \in Seq(Pieces) /\ FlattenSeq(s) \in Seq(Pieces)
           /\ Mirrors(FlattenSeq(r), FlattenSeq(s), name)
<1>1. Len(r) \in Nat /\ Len(s) \in Nat
  BY LenProperties
<1>2. CASE Len(r) = 0
  <2>1. r = <<>> /\ s = <<>>
    BY <1>1, <1>2, EmptySeq
  <2>2. FlattenSeq(r) = r /\ FlattenSeq(s) = s
    BY <1>2 DEF FlattenSeq
  <2>3. QED
    BY <2>1, <2>2, MirrorsNothing, EmptySeq
<1>3. CASE Len(r) # 0
  <2> DEFINE n == Len(r)
  <2>1. PICK f : /\ FlattenSeq(r) = f[n] /\ f[1] = r[1]
                 /\ \A i \in 2 .. n : f[i] = f[i - 1] \o r[i]
    BY <1>1, <1>3, FlattenBy
  <2>2. PICK g : /\ FlattenSeq(s) = g[n] /\ g[1] = s[1]
                 /\ \A i \in 2 .. n : g[i] = g[i - 1] \o s[i]
    <3>1. Len(s) = n /\ n # 0 /\ Len(s) \in Nat
      BY <1>1, <1>3
    <3>2. \E g : /\ FlattenSeq(s) = g[Len(s)] /\ g[1] = s[1]
                 /\ \A i \in 2 .. Len(s) : g[i] = g[i - 1] \o s[i]
      BY <3>1, FlattenBy
    <3>3. QED
      BY <3>1, <3>2
  <2>3. \A i \in 1 .. n : r[i] \in Seq(Pieces) /\ s[i] \in Seq(Pieces)
    BY ElementOfSeq
  <2> DEFINE Good(i) == f[i] \in Seq(Pieces) /\ g[i] \in Seq(Pieces) /\ Mirrors(f[i], g[i], name)
             T == {i \in 1 .. n : ~Good(i)}
  <2>4. n \in Nat /\ n # 0
    BY <1>1, <1>3
  <2>5. \A i \in 1 .. n : Mirrors(r[i], s[i], name)
    OBVIOUS
  <2> HIDE DEF n
  <2>6. T = {}
    <3> SUFFICES ASSUME T # {} PROVE FALSE
      OBVIOUS
    <3>1. PICK k \in T : \A m \in T : k <= m
      <4>1. T \subseteq 1 .. n
        OBVIOUS
      <4> HIDE DEF T
      <4>2. T \subseteq Nat
        BY <2>4, <4>1
      <4>3. QED
        BY <4>2, Least
    <3>2. k \in 1 .. n /\ ~Good(k)
      BY <3>1
    <3>3. k # 1
      <4>1. 1 \in 1 .. n
        BY <2>4
      <4>2. Good(1)
        BY <2>1, <2>2, <2>3, <2>5, <4>1
      <4>3. QED
        BY <3>2, <4>2
    <3>4. k - 1 \in 1 .. n /\ ~(k <= k - 1) /\ k \in 2 .. n
      BY <2>4, <3>2, <3>3
    <3>5. Good(k - 1)
      BY <3>1, <3>4
    <3>6. f[k] = f[k - 1] \o r[k] /\ g[k] = g[k - 1] \o s[k]
      BY <2>1, <2>2, <3>4
    <3>7. r[k] \in Seq(Pieces) /\ s[k] \in Seq(Pieces) /\ Mirrors(r[k], s[k], name)
      BY <2>3, <2>5, <3>2
    <3>8. f[k] \in Seq(Pieces) /\ g[k] \in Seq(Pieces)
      BY <3>5, <3>6, <3>7, ConcatProperties
    <3>9. Mirrors(f[k], g[k], name)
      BY <3>5, <3>6, <3>7, MirrorsConcat
    <3>10. QED
      BY <3>2, <3>8, <3>9
  <2>7. Good(n)
    <3>1. n \in 1 .. n
      BY <2>4
    <3>2. \A i \in 1 .. n : Good(i)
      BY <2>6
    <3> HIDE DEF Good
    <3>3. QED
      BY <3>1, <3>2
  <2>8. QED
    BY <2>1, <2>2, <2>7
<1>4. QED
  BY <1>2, <1>3

LEMMA Singles ==
    ASSUME NEW word \in Seq(Pieces)
    PROVE  FlattenSeq([i \in 1 .. Len(word) |-> <<word[i]>>]) = word
<1> DEFINE n == Len(word)
           s == [i \in 1 .. n |-> <<word[i]>>]
<1>1. n \in Nat /\ \A i \in 1 .. n : word[i] \in Pieces
  BY LenProperties, ElementOfSeq
<1> HIDE DEF n
<1>2. s \in Seq(Seq(Pieces))
  <2>1. \A i \in 1 .. n : <<word[i]>> \in Seq(Pieces)
    BY <1>1
  <2>2. QED
    BY <1>1, <2>1
<1>3. Len(s) = n
  BY <1>1
<1>4. CASE n = 0
  <2>1. word = <<>>
    BY <1>4, EmptySeq DEF n
  <2>2. s = <<>>
    BY <1>2, <1>3, <1>4, EmptySeq
  <2>3. FlattenSeq(s) = s
    BY <1>3, <1>4 DEF FlattenSeq
  <2>4. QED
    BY <2>1, <2>2, <2>3 DEF n
<1>5. CASE n # 0
  <2>1. PICK f : /\ FlattenSeq(s) = f[n] /\ f[1] = s[1]
                 /\ \A i \in 2 .. n : f[i] = f[i - 1] \o s[i]
    <3> HIDE DEF s
    <3>1. \E f : /\ FlattenSeq(s) = f[Len(s)] /\ f[1] = s[1]
                 /\ \A i \in 2 .. Len(s) : f[i] = f[i - 1] \o s[i]
      BY <1>1, <1>3, <1>5, FlattenBy
    <3>2. QED
      BY <1>3, <3>1
  <2> DEFINE T == {i \in 1 .. n : f[i] # SubSeq(word, 1, i)}
  <2>2. T = {}
    <3> SUFFICES ASSUME T # {} PROVE FALSE
      OBVIOUS
    <3>1. PICK k \in T : \A m \in T : k <= m
      <4>1. T \subseteq Nat
        BY <1>1
      <4>2. QED
        BY <4>1, Least
    <3>2. k \in 1 .. n /\ f[k] # SubSeq(word, 1, k)
      BY <3>1
    <3>3. 1 \in 1 .. n /\ k \in 1 .. k /\ k \in Nat
      BY <1>1, <1>5, <3>2
    <3>4. SubSeq(word, 1, k) = SubSeq(word, 1, k - 1) \o <<word[k]>>
      <4>1. 1 \in 1 .. Len(word) /\ k \in 1 .. Len(word)
        BY <3>2, <3>3 DEF n
      <4>2. QED
        BY <4>1, SubSeqRecursiveSecond
    <3>5. s[k] = <<word[k]>> /\ <<word[k]>> \in Seq(Pieces)
      BY <1>1, <3>2
    <3>6. k # 1
      <4> SUFFICES ASSUME k = 1 PROVE FALSE
        OBVIOUS
      <4>1. SubSeq(word, 1, k - 1) = <<>>
        BY SubSeqEmpty
      <4>2. SubSeq(word, 1, k) = <<word[k]>>
        BY <3>4, <3>5, <4>1, ConcatEmptySeq
      <4>3. QED
        BY <2>1, <3>2, <3>5, <4>2
    <3>7. k - 1 \in 1 .. n /\ ~(k <= k - 1) /\ k \in 2 .. n
      BY <1>1, <3>2, <3>6
    <3>8. f[k - 1] = SubSeq(word, 1, k - 1)
      BY <3>1, <3>7
    <3>9. QED
      BY <2>1, <3>2, <3>4, <3>5, <3>7, <3>8
  <2>3. n \in 1 .. n
    BY <1>1, <1>5
  <2>4. f[n] = SubSeq(word, 1, n)
    BY <2>2, <2>3
  <2>5. QED
    BY <2>1, <2>4, SubSeqFull DEF n
<1>6. QED
  BY <1>4, <1>5 DEF n

LEMMA ShortSeq ==
    ASSUME NEW S, NEW x \in S, NEW y \in S, NEW z \in S
    PROVE  <<x>> \in Seq(S) /\ <<y, z, y>> \in Seq(S)
  OBVIOUS

LEMMA WordMirrors ==
    ASSUME NEW word \in Seq(Pieces), NEW name \in Pieces
    PROVE  /\ NeutralizePercent(word, name) \in Seq(Pieces)
           /\ Mirrors(word, NeutralizePercent(word, name), name)
<1> DEFINE n == Len(word)
           piece(p) == IF p = "%" THEN <<"%", name, "%">> ELSE <<p>>
           r == [i \in 1 .. n |-> <<word[i]>>]
           s == [i \in 1 .. n |-> piece(word[i])]
<1>1. n \in Nat /\ DOMAIN word = 1 .. n /\ \A i \in 1 .. n : word[i] \in Pieces
  BY LenProperties, ElementOfSeq
<1> HIDE DEF n
<1>2. \A i \in 1 .. n : <<word[i]>> \in Seq(Pieces) /\ piece(word[i]) \in Seq(Pieces)
  <2>1. "%" \in Pieces /\ name \in Pieces
    BY DEF Pieces
  <2>2. ASSUME NEW p \in Pieces PROVE <<p>> \in Seq(Pieces) /\ <<"%", name, "%">> \in Seq(Pieces)
    BY <2>1, ShortSeq
  <2>3. \A p \in Pieces : piece(p) \in Seq(Pieces)
    BY <2>2
  <2>4. QED
    BY <1>1, <2>2, <2>3
<1>3. \A i \in 1 .. n : Mirrors(<<word[i]>>, piece(word[i]), name)
  BY <1>1, MirrorsPiece
<1>4. FlattenSeq(r) = word
  BY Singles DEF n
<1>5. NeutralizePercent(word, name) = FlattenSeq(s)
  BY <1>1 DEF NeutralizePercent
<1> HIDE DEF piece
<1>6. r \in Seq(Seq(Pieces)) /\ s \in Seq(Seq(Pieces)) /\ Len(r) = n /\ Len(s) = n
  BY <1>1, <1>2
<1>7. \A i \in 1 .. n : Mirrors(r[i], s[i], name)
  BY <1>3
<1> HIDE DEF r, s
<1>8. QED
  BY <1>4, <1>5, <1>6, <1>7, FlattenMirrors

LEMMA LineMirrors ==
    ASSUME NEW line \in Seq(Seq(Pieces)), NEW name \in Pieces
    PROVE  /\ Join(line) \in Seq(Pieces) /\ Join(Neutralized(line, name)) \in Seq(Pieces)
           /\ Mirrors(Join(line), Join(Neutralized(line, name)), name)
<1> DEFINE n == Len(line)
           s == [i \in 1 .. n |-> NeutralizePercent(line[i], name)]
<1>1. n \in Nat /\ DOMAIN line = 1 .. n /\ \A i \in 1 .. n : line[i] \in Seq(Pieces)
  BY LenProperties, ElementOfSeq
<1> HIDE DEF n
<1>2. \A i \in 1 .. n : /\ NeutralizePercent(line[i], name) \in Seq(Pieces)
                        /\ Mirrors(line[i], NeutralizePercent(line[i], name), name)
  BY <1>1, WordMirrors
<1>3. s = Neutralized(line, name)
  BY <1>1 DEF Neutralized
<1>4. s \in Seq(Seq(Pieces)) /\ Len(s) = n
  <2>1. s \in [1 .. n -> Seq(Pieces)]
    BY <1>2
  <2> HIDE DEF s
  <2>2. QED
    BY <1>1, <2>1
<1>5. \A i \in 1 .. n : Mirrors(line[i], s[i], name)
  BY <1>2
<1> HIDE DEF s
<1>6. QED
  BY <1>3, <1>4, <1>5, FlattenMirrors DEF Join, n

\* Place i of the function that Expand builds its answer by.
ExpandStep(s, env, f, i) ==
    IF i > Len(s) THEN <<>>
    ELSE IF i + 2 <= Len(s) /\ s[i] = "%" /\ s[i + 2] = "%" /\ s[i + 1] \in DOMAIN env
         THEN <<env[s[i + 1]]>> \o f[i + 3]
    ELSE <<s[i]>> \o f[i + 1]

LEMMA ExpandBy ==
    ASSUME NEW s, NEW env, Len(s) \in Nat
    PROVE  \E f : /\ Expand(s, env) = f[1]
                  /\ \A i \in 1 .. Len(s) + 1 : f[i] = ExpandStep(s, env, f, i)
<1> DEFINE b == Len(s)
           Built(f, m) == f = [i \in (b + 1) - m .. b + 1 |-> ExpandStep(s, env, f, i)]
           T == {m \in Nat : m <= b /\ ~ \E f : Built(f, m)}
           F == CHOOSE f : f = [i \in 1 .. b + 1 |-> ExpandStep(s, env, f, i)]
<1>1. Expand(s, env) = F[1]
  BY DEF Expand, ExpandStep
<1>2. T = {}
  <2> SUFFICES ASSUME T # {} PROVE FALSE
    OBVIOUS
  <2>1. PICK m \in T : \A k \in T : m <= k
    <3>1. T \subseteq Nat
      OBVIOUS
    <3>2. QED
      BY <3>1, Least
  <2>2. m \in Nat /\ m <= b /\ ~ \E f : Built(f, m)
    BY <2>1
  <2>3. \E f : Built(f, 0)
    <3> DEFINE g == [i \in (b + 1) - 0 .. b + 1 |-> <<>>]
    <3>1. \A i \in (b + 1) - 0 .. b + 1 : ExpandStep(s, env, g, i) = <<>>
      <4> SUFFICES ASSUME NEW i \in (b + 1) - 0 .. b + 1 PROVE ExpandStep(s, env, g, i) = <<>>
        OBVIOUS
      <4>1. i > b
        OBVIOUS
      <4>2. QED
        BY <4>1 DEF ExpandStep
    <3>2. Built(g, 0)
      BY <3>1
    <3>3. QED
      BY <3>2
  <2>4. m # 0
    BY <2>2, <2>3
  <2>5. m - 1 \in Nat /\ m - 1 <= b /\ ~(m <= m - 1)
    BY <2>2, <2>4
  <2>6. m - 1 \notin T
    BY <2>1, <2>5
  <2>7. PICK f : Built(f, m - 1)
    BY <2>5, <2>6
  <2> DEFINE lo == (b + 1) - m
             g == [i \in lo .. b + 1 |-> IF i = lo THEN ExpandStep(s, env, f, i) ELSE f[i]]
  <2>8. lo \in Int /\ lo <= b + 1 /\ b \in Nat /\ (b + 1) - (m - 1) = lo + 1
    BY <2>2
  <2>9. \A i \in lo + 1 .. b + 1 : f[i] = ExpandStep(s, env, f, i)
    BY <2>7, <2>8
  <2> HIDE DEF lo, b
  <2>10. ASSUME NEW i \in lo .. b + 1 PROVE ExpandStep(s, env, g, i) = ExpandStep(s, env, f, i)
    <3>1. CASE i > b
      BY <3>1 DEF ExpandStep, b
    <3>2. CASE ~(i > b) /\ ~(i + 2 <= b)
      <4>1. i + 1 \in lo .. b + 1 /\ i + 1 # lo
        BY <2>8, <3>2
      <4>2. g[i + 1] = f[i + 1]
        BY <4>1
      <4> HIDE DEF g
      <4>3. QED
        BY <3>2, <4>2 DEF ExpandStep, b
    <3>3. CASE i + 2 <= b
      <4>1. i + 1 \in lo .. b + 1 /\ i + 1 # lo /\ i + 3 \in lo .. b + 1 /\ i + 3 # lo /\ ~(i > b)
        BY <2>8, <3>3
      <4>2. g[i + 1] = f[i + 1] /\ g[i + 3] = f[i + 3]
        BY <4>1
      <4> HIDE DEF g
      <4>3. QED
        BY <3>3, <4>1, <4>2 DEF ExpandStep, b
    <3>4. QED
      BY <2>8, <3>1, <3>2, <3>3
  <2>11. \A i \in lo .. b + 1 : g[i] = ExpandStep(s, env, f, i)
    <3> SUFFICES ASSUME NEW i \in lo .. b + 1 PROVE g[i] = ExpandStep(s, env, f, i)
      OBVIOUS
    <3>1. CASE i = lo
      BY <3>1
    <3>2. CASE i # lo
      <4>1. i \in lo + 1 .. b + 1
        BY <2>8, <3>2
      <4>2. QED
        BY <2>9, <3>2, <4>1
    <3>3. QED
      BY <3>1, <3>2
  <2>12. g = [i \in lo .. b + 1 |-> ExpandStep(s, env, g, i)]
    BY <2>10, <2>11
  <2>13. Built(g, m)
    BY <2>12 DEF lo
  <2>14. QED
    BY <2>2, <2>13
<1>3. b \in Nat /\ b <= b /\ (b + 1) - b = 1
  OBVIOUS
<1>4. b \notin T
  BY <1>2
<1>5. \E f : Built(f, b)
  BY <1>3, <1>4
<1>6. F = [i \in 1 .. b + 1 |-> ExpandStep(s, env, F, i)]
  BY <1>3, <1>5
<1> HIDE DEF F
<1>7. \A i \in 1 .. b + 1 : F[i] = ExpandStep(s, env, F, i)
  BY <1>6
<1>8. QED
  BY <1>1, <1>7

\* cmd.exe undoes what was done to the percent signs.
LEMMA ExpandMirror ==
    ASSUME NEW t \in Seq(Pieces), NEW u \in Seq(Pieces), NEW name, NEW env,
           Mirrors(t, u, name), name \in DOMAIN env, env[name] = "%"
    PROVE  Expand(u, env) = t
<1> DEFINE a == Len(t)
           b == Len(u)
<1>1. a \in Nat /\ b \in Nat
  BY LenProperties
<1>2. PICK f : Expand(u, env) = f[1] /\ \A i \in 1 .. b + 1 : f[i] = ExpandStep(u, env, f, i)
  BY <1>1, ExpandBy
<1>3. PICK p \in [0 .. a -> 0 .. b] :
        p[0] = 0 /\ p[a] = b /\ \A k \in 1 .. a : Written(t, u, name, p, k)
  BY DEF Mirrors
<1> DEFINE Good(k) == f[p[k] + 1] = SubSeq(t, k + 1, a)
           T == {m \in Nat : m <= a /\ ~Good(a - m)}
<1>4. Good(a)
  <2>1. f[b + 1] = <<>>
    <3>1. b + 1 \in 1 .. b + 1 /\ b + 1 > b
      BY <1>1
    <3>2. f[b + 1] = ExpandStep(u, env, f, b + 1)
      BY <1>2, <3>1
    <3>3. QED
      BY <3>1, <3>2 DEF ExpandStep
  <2>2. SubSeq(t, a + 1, a) = <<>>
    <3> HIDE DEF a
    <3>1. a + 1 \in Int /\ a \in Int /\ a < a + 1
      BY <1>1
    <3>2. QED
      BY <3>1, SubSeqEmpty
  <2> HIDE DEF a, b
  <2>3. QED
    BY <1>3, <2>1, <2>2
<1>5. ASSUME NEW k \in 0 .. a, k < a, Good(k + 1) PROVE Good(k)
  <2> DEFINE x == p[k]
             y == p[k + 1]
  <2>1. k \in Nat /\ k + 1 \in 1 .. a /\ k + 1 \in 0 .. a /\ (k + 1) - 1 = k /\ (k + 1) + 1 = k + 2
    BY <1>1, <1>5
  <2>2. x \in 0 .. b /\ y \in 0 .. b
    BY <1>3, <2>1
  <2>3. Written(t, u, name, p, k + 1)
    BY <1>3, <2>1
  <2>4. IF t[k + 1] = "%" THEN y = x + 3 /\ u[x + 1] = "%" /\ u[x + 2] = name /\ u[x + 3] = "%"
        ELSE y = x + 1 /\ u[x + 1] = t[k + 1]
    BY <2>1, <2>3 DEF Written
  <2>5. f[y + 1] = SubSeq(t, k + 2, a)
    BY <1>5, <2>1
  <2>6. SubSeq(t, k + 1, a) = <<t[k + 1]>> \o SubSeq(t, k + 2, a)
    <3>1. a \in k + 1 .. a
      BY <1>1, <2>1
    <3>2. SubSeq(t, k + 1, a) = <<t[k + 1]>> \o SubSeq(t, (k + 1) + 1, a)
      BY <2>1, <3>1, SubSeqRecursiveFirst
    <3>3. QED
      BY <2>1, <3>2
  <2> HIDE DEF x, y, a, b
  <2>7. x + 1 \in 1 .. b + 1 /\ (x + 1) + 1 = x + 2 /\ (x + 1) + 2 = x + 3 /\ (x + 1) + 3 = x + 4
    BY <1>1, <2>2
  <2>8. f[x + 1] = ExpandStep(u, env, f, x + 1)
    BY <1>2, <2>7
  <2>9. f[x + 1] = <<t[k + 1]>> \o f[y + 1]
    <3>1. CASE t[k + 1] = "%"
      <4>1. y = x + 3 /\ u[x + 1] = "%" /\ u[x + 2] = name /\ u[x + 3] = "%"
        BY <2>4, <3>1
      <4>2. x + 3 <= b /\ ~(x + 1 > b) /\ y + 1 = x + 4
        BY <1>1, <2>2, <4>1
      <4>3. ExpandStep(u, env, f, x + 1) = <<env[u[x + 2]]>> \o f[x + 4]
        BY <2>7, <4>1, <4>2 DEF ExpandStep, b
      <4>4. QED
        BY <2>8, <3>1, <4>1, <4>2, <4>3
    <3>2. CASE t[k + 1] # "%"
      <4>1. y = x + 1 /\ u[x + 1] = t[k + 1]
        BY <2>4, <3>2
      <4>2. ~(x + 1 > b) /\ y + 1 = x + 2
        BY <1>1, <2>2, <4>1
      <4>3. ExpandStep(u, env, f, x + 1) = <<u[x + 1]>> \o f[x + 2]
        BY <2>7, <3>2, <4>1, <4>2 DEF ExpandStep, b
      <4>4. QED
        BY <2>8, <4>1, <4>2, <4>3
    <3>3. QED
      BY <3>1, <3>2
  <2>10. f[x + 1] = SubSeq(t, k + 1, a)
    BY <2>5, <2>6, <2>9
  <2>11. QED
    BY <2>10 DEF x
<1>6. T = {}
  <2> SUFFICES ASSUME T # {} PROVE FALSE
    OBVIOUS
  <2> HIDE DEF Good
  <2>1. PICK m \in T : \A j \in T : m <= j
    <3>1. T \subseteq Nat
      OBVIOUS
    <3>2. QED
      BY <3>1, Least
  <2>2. m \in Nat /\ m <= a /\ ~Good(a - m)
    BY <2>1
  <2>3. m # 0
    <3> SUFFICES ASSUME m = 0 PROVE FALSE
      OBVIOUS
    <3> HIDE DEF a
    <3>1. a - m = a
      BY <1>1
    <3>2. QED
      BY <1>4, <2>2, <3>1
  <2>4. m - 1 \in Nat /\ m - 1 <= a /\ ~(m <= m - 1)
    BY <1>1, <2>2, <2>3
  <2>5. Good(a - (m - 1))
    BY <2>1, <2>4
  <2> HIDE DEF a, T
  <2>6. a - m \in 0 .. a /\ a - m < a /\ (a - m) + 1 = a - (m - 1)
    BY <1>1, <2>2, <2>3
  <2>7. Good(a - m)
    BY <1>5, <2>5, <2>6
  <2>8. QED
    BY <2>2, <2>7
<1>7. Good(0)
  <2> HIDE DEF Good
  <2>1. a \in Nat /\ a <= a /\ a - a = 0
    BY <1>1
  <2>2. a \notin T
    BY <1>6
  <2>3. Good(a - a)
    BY <2>1, <2>2
  <2>4. QED
    BY <2>1, <2>3
<1>8. f[1] = SubSeq(t, 1, a)
  <2>1. p[0] + 1 = 1 /\ 0 + 1 = 1
    BY <1>3
  <2>2. QED
    BY <1>7, <2>1
<1>9. QED
  BY <1>2, <1>8, SubSeqFull

LEMMA PickedIsFree ==
    ASSUME NEW env
    PROVE  /\ PickName(env) = "none" => \A i \in 1 .. Len(Names) : ~Free(Names[i], env)
           /\ PickName(env) # "none" => PickName(env) \in Pieces /\ Free(PickName(env), env)
<1> DEFINE free == {i \in 1 .. Len(Names) : Free(Names[i], env)}
           pick == CHOOSE i \in free : \A j \in free : i <= j
<1>1. Names \in Seq(STRING) /\ \A i \in 1 .. Len(Names) : Names[i] # "none"
  BY SpawnAssumption
<1>2. Len(Names) \in Nat /\ \A i \in 1 .. Len(Names) : Names[i] \in STRING
  BY <1>1, LenProperties, ElementOfSeq
<1>3. CASE free = {}
  <2>1. PickName(env) = "none"
    BY <1>3 DEF PickName
  <2>2. \A i \in 1 .. Len(Names) : ~Free(Names[i], env)
    BY <1>3
  <2>3. QED
    BY <2>1, <2>2
<1>4. CASE free # {}
  <2>1. free \subseteq Nat
    BY <1>2
  <2>2. PickName(env) = Names[pick]
    BY <1>4 DEF PickName
  <2>3. pick \in free
    <3> HIDE DEF free
    <3>1. QED
      BY <1>4, <2>1, Least
  <2> HIDE DEF pick
  <2>4. pick \in 1 .. Len(Names) /\ Free(Names[pick], env)
    BY <2>3
  <2>5. QED
    BY <1>1, <1>2, <2>2, <2>4 DEF Pieces
<1>5. QED
  BY <1>3, <1>4

\* Inductive: nothing but the one step that starts the tool sets started.
SpawnInv == tokens \in Seq(Seq(STRING)) /\ PercentSurvives

LEMMA SpawnInitInv == SpawnInit => SpawnInv
<1> SUFFICES ASSUME SpawnInit PROVE SpawnInv
  OBVIOUS
<1>1. tokens \in Seq(Seq(STRING))
  BY SpawnAssumption DEF SpawnInit
<1>2. started.how = "none"
  BY DEF SpawnInit, NotStarted
<1>3. QED
  BY <1>1, <1>2 DEF SpawnInv, PercentSurvives

\* The line that is started, and the environment it is started in.
LEMMA StartNeutralized ==
    ASSUME tokens \in Seq(Seq(STRING)), NEW name, name = PickName(parentEnv), name # "none",
           NEW env, env = [n \in DOMAIN parentEnv \cup {name} |-> IF n = name THEN "%" ELSE parentEnv[n]]
    PROVE  /\ Expand(Join(Neutralized(tokens, name)), env) = Join(tokens)
           /\ \A n \in DOMAIN parentEnv : n \in DOMAIN env /\ env[n] = parentEnv[n]
<1>1. name \in Pieces /\ (name \in DOMAIN parentEnv => parentEnv[name] = "%")
  BY PickedIsFree DEF Free
<1>2. name \in DOMAIN env /\ env[name] = "%"
  OBVIOUS
<1>3. tokens \in Seq(Seq(Pieces))
  <2>1. Seq(STRING) \subseteq Seq(Pieces)
    BY SeqMonotonic DEF Pieces
  <2>2. QED
    BY <2>1, SeqMonotonic
<1>4. /\ Join(tokens) \in Seq(Pieces) /\ Join(Neutralized(tokens, name)) \in Seq(Pieces)
      /\ Mirrors(Join(tokens), Join(Neutralized(tokens, name)), name)
  BY <1>1, <1>3, LineMirrors
<1>5. Expand(Join(Neutralized(tokens, name)), env) = Join(tokens)
  BY <1>2, <1>4, ExpandMirror
<1>6. \A n \in DOMAIN parentEnv : n \in DOMAIN env /\ env[n] = parentEnv[n]
  BY <1>1
<1>7. QED
  BY <1>5, <1>6

LEMMA SpawnNextInv == ASSUME SpawnInv, [SpawnNext]_spawnVars PROVE SpawnInv'
<1>1. CASE BuildBatchTarget
  <2> DEFINE name == PickName(parentEnv)
             line == Neutralized(tokens, name)
             env == [n \in DOMAIN parentEnv \cup {name} |-> IF n = name THEN "%" ELSE parentEnv[n]]
  <2>1. tokens' = tokens /\ parentEnv' = parentEnv /\ tokens \in Seq(Seq(STRING))
    BY <1>1 DEF BuildBatchTarget, SpawnInv
  <2>2. \/ ~HasPercent(tokens) /\ Start(tokens, parentEnv)
        \/ HasPercent(tokens) /\ name = "none" /\ Refuse("PercentNeutralizeError")
        \/ Refuse("PercentLineLengthError")
        \/ HasPercent(tokens) /\ name # "none" /\ Start(line, env)
    BY <1>1 DEF BuildBatchTarget
  <2> HIDE DEF name, line, env
  <2>3. CASE ~HasPercent(tokens) /\ Start(tokens, parentEnv)
    <3>1. started'.how = "cmd" /\ started'.env = parentEnv
      BY <2>3 DEF Start
    <3>2. PercentSurvives'
      BY <2>1, <2>3, <3>1 DEF PercentSurvives, HasPercent
    <3>3. QED
      BY <2>1, <3>2 DEF SpawnInv
  <2>4. CASE HasPercent(tokens) /\ name = "none" /\ Refuse("PercentNeutralizeError")
    <3>1. started'.how = "PercentNeutralizeError"
      BY <2>4 DEF Refuse
    <3>2. \A i \in 1 .. Len(Names) : ~Free(Names[i], parentEnv)
      BY <2>4, PickedIsFree DEF name
    <3>3. PercentSurvives'
      BY <2>1, <3>1, <3>2 DEF PercentSurvives
    <3>4. QED
      BY <2>1, <3>3 DEF SpawnInv
  <2>5. CASE Refuse("PercentLineLengthError")
    <3>1. started'.how = "PercentLineLengthError"
      BY <2>5 DEF Refuse
    <3>2. PercentSurvives'
      BY <3>1 DEF PercentSurvives
    <3>3. QED
      BY <2>1, <3>2 DEF SpawnInv
  <2>6. CASE HasPercent(tokens) /\ name # "none" /\ Start(line, env)
    <3>1. started'.how = "cmd" /\ started'.line = line /\ started'.env = env
      BY <2>6 DEF Start
    <3>2. /\ Expand(Join(line), env) = Join(tokens)
          /\ \A n \in DOMAIN parentEnv : n \in DOMAIN env /\ env[n] = parentEnv[n]
      BY <2>1, <2>6, StartNeutralized DEF name, line, env
    <3>3. PercentSurvives'
      BY <2>1, <3>1, <3>2 DEF PercentSurvives
    <3>4. QED
      BY <2>1, <3>3 DEF SpawnInv
  <2>7. QED
    BY <2>2, <2>3, <2>4, <2>5, <2>6
<1>2. CASE UNCHANGED spawnVars
  BY <1>2 DEF spawnVars, SpawnInv, PercentSurvives
<1>3. QED
  BY <1>1, <1>2 DEF SpawnNext

\* What the tool is given is what the user typed, for every line, environment and list of
\* names: the promise of executor.ts:277-302.
THEOREM PercentKept == SpawnSpec => []PercentSurvives
<1>1. SpawnInit => SpawnInv
  BY SpawnInitInv
<1>2. SpawnInv /\ [SpawnNext]_spawnVars => SpawnInv'
  BY SpawnNextInv
<1>3. SpawnInv => PercentSurvives
  BY DEF SpawnInv
<1>4. QED
  BY <1>1, <1>2, <1>3, PTL DEF SpawnSpec

-----------------------------------------------------------------------------
(* The hook.  A line is read twice, by ctx and by the shell, each with a count of quotes
   and of brackets; where ctx puts itself in, the two counts agree.  A rewritten line is
   read as the line was: its tokens keep their depth, and it falls apart where it did. *)

\* The quotes before a token, one token further on.
LEMMA QuotesCount ==
    ASSUME NEW c, NEW i \in Nat, i > 0
    PROVE  /\ Quotes(c, i) \in Nat /\ Quotes(c, 1) = 0
           /\ Quotes(c, i + 1) = IF c[i] = QuoteMark THEN Quotes(c, i) + 1 ELSE Quotes(c, i)
<1> DEFINE Q(k) == {j \in 1 .. k - 1 : c[j] = QuoteMark}
<1>1. IsFiniteSet(Q(i)) /\ Cardinality(Q(i)) \in Nat
  <2>1. IsFiniteSet(1 .. i - 1)
    BY FS_Interval
  <2>2. IsFiniteSet(Q(i))
    BY <2>1, FS_Subset
  <2>3. QED
    BY <2>2, FS_CardinalityType
<1>2. Q(1) = {} /\ Cardinality(Q(1)) = 0
  BY FS_EmptySet
<1>3. Q(i + 1) = IF c[i] = QuoteMark THEN Q(i) \cup {i} ELSE Q(i)
  <2>1. \A j : j \in 1 .. (i + 1) - 1 <=> j \in 1 .. i - 1 \/ j = i
    OBVIOUS
  <2>2. QED
    BY <2>1
<1>4. i \notin Q(i)
  OBVIOUS
<1>5. Quotes(c, i) = Cardinality(Q(i)) /\ Quotes(c, 1) = Cardinality(Q(1))
      /\ Quotes(c, i + 1) = Cardinality(Q(i + 1))
  BY DEF Quotes
<1> HIDE DEF Q
<1>6. Cardinality(Q(i) \cup {i}) = Cardinality(Q(i)) + 1
  BY <1>1, <1>4, FS_AddElement
<1>7. QED
  BY <1>1, <1>2, <1>3, <1>5, <1>6

LEMMA QuotedFlips ==
    ASSUME NEW c
    PROVE  /\ ~Quoted(c, 1)
           /\ \A i \in Nat : i > 0 =>
                 (Quoted(c, i + 1) <=> IF c[i] = QuoteMark THEN ~Quoted(c, i) ELSE Quoted(c, i))
<1>1. ~Quoted(c, 1)
  BY QuotesCount DEF Quoted
<1>2. ASSUME NEW i \in Nat, i > 0
      PROVE  Quoted(c, i + 1) <=> IF c[i] = QuoteMark THEN ~Quoted(c, i) ELSE Quoted(c, i)
  <2> DEFINE q == Quotes(c, i)
             p == Quotes(c, i + 1)
  <2>1. q \in Nat /\ p = IF c[i] = QuoteMark THEN q + 1 ELSE q
    BY <1>2, QuotesCount
  <2>2. (q + 1) % 2 = 1 <=> ~(q % 2 = 1)
    BY <2>1
  <2> HIDE DEF q, p
  <2>3. p % 2 = 1 <=> IF c[i] = QuoteMark THEN ~(q % 2 = 1) ELSE q % 2 = 1
    BY <2>1, <2>2
  <2>4. QED
    BY <2>3 DEF Quoted, q, p
<1>3. QED
  BY <1>1, <1>2

\* The function that BraceDepth is.
LEMMA DepthBy ==
    ASSUME NEW c, Len(c) \in Nat
    PROVE  /\ BraceDepth(c) \in [0 .. Len(c) -> Nat] /\ BraceDepth(c)[0] = 0
           /\ \A i \in 1 .. Len(c) :
                 BraceDepth(c)[i] = IF Quoted(c, i) THEN BraceDepth(c)[i - 1]
                                    ELSE IF c[i] = LeftBrace THEN BraceDepth(c)[i - 1] + 1
                                    ELSE IF c[i] = RightBrace /\ BraceDepth(c)[i - 1] > 0
                                    THEN BraceDepth(c)[i - 1] - 1 ELSE BraceDepth(c)[i - 1]
<1> DEFINE step(f, i) == IF i = 0 THEN 0
                         ELSE IF Quoted(c, i) THEN f[i - 1]
                         ELSE IF c[i] = LeftBrace THEN f[i - 1] + 1
                         ELSE IF c[i] = RightBrace /\ f[i - 1] > 0 THEN f[i - 1] - 1
                         ELSE f[i - 1]
           Built(f, n) == f = [i \in 0 .. n |-> step(f, i)] /\ f \in [0 .. n -> Nat]
           T == {n \in Nat : ~ \E f : Built(f, n)}
<1>1. T = {}
  <2> SUFFICES ASSUME T # {} PROVE FALSE
    OBVIOUS
  <2>1. PICK n \in T : \A m \in T : n <= m
    BY Least
  <2>2. Built([i \in 0 .. 0 |-> 0], 0)
    OBVIOUS
  <2>3. 0 \notin T
    BY <2>2
  <2>4. n \in Nat /\ n # 0
    BY <2>1, <2>3
  <2> HIDE DEF T
  <2>5. n - 1 \in Nat /\ n - 1 \notin T
    BY <2>1, <2>4
  <2> USE DEF T
  <2>6. PICK f : Built(f, n - 1)
    BY <2>5
  <2> DEFINE g == [i \in 0 .. n |-> IF i = n THEN step(f, n) ELSE f[i]]
  <2>7. \A i \in 0 .. n - 1 : f[i] = step(f, i) /\ f[i] \in Nat
    BY <2>6
  <2>8. \A i \in 0 .. n : step(g, i) = step(f, i)
    BY <2>4
  <2>9. \A i \in 0 .. n : g[i] = step(g, i)
    BY <2>4, <2>7, <2>8
  <2>10. n - 1 \in 0 .. n - 1 /\ f[n - 1] \in Nat
    BY <2>4, <2>7
  <2>11. step(f, n) \in Nat
    BY <2>4, <2>10
  <2> HIDE DEF step
  <2>12. g \in [0 .. n -> Nat]
    BY <2>4, <2>7, <2>11
  <2>13. Built(g, n)
    BY <2>9, <2>12
  <2>14. QED
    BY <2>1, <2>13
<1>2. \E f : Built(f, Len(c))
  BY <1>1
<1>3. BraceDepth(c) = CHOOSE f : f = [i \in 0 .. Len(c) |-> step(f, i)]
  BY DEF BraceDepth
<1> DEFINE d == BraceDepth(c)
<1>4. d = [i \in 0 .. Len(c) |-> step(d, i)]
  BY <1>2, <1>3
<1> HIDE DEF d
<1>5. \A i \in 0 .. Len(c) : d[i] = step(d, i)
  BY <1>4
<1>6. d[0] = 0
  BY <1>5
<1>7. ASSUME NEW i \in 1 .. Len(c)
      PROVE  d[i] = IF Quoted(c, i) THEN d[i - 1]
                    ELSE IF c[i] = LeftBrace THEN d[i - 1] + 1
                    ELSE IF c[i] = RightBrace /\ d[i - 1] > 0 THEN d[i - 1] - 1 ELSE d[i - 1]
  <2>1. i \in 0 .. Len(c) /\ i # 0
    OBVIOUS
  <2>2. QED
    BY <1>5, <2>1
<1>8. \A i \in 0 .. Len(c) : d[i] \in Nat
  <2> DEFINE B == {i \in 0 .. Len(c) : d[i] \notin Nat}
  <2> SUFFICES ASSUME B # {} PROVE FALSE
    OBVIOUS
  <2>1. B \subseteq Nat
    OBVIOUS
  <2> HIDE DEF B
  <2>2. PICK i \in B : \A j \in B : i <= j
    BY <2>1, Least
  <2> USE DEF B
  <2>3. i \in 1 .. Len(c) /\ i - 1 \in 0 .. Len(c) /\ i - 1 \notin B
    BY <1>6, <2>2
  <2>4. d[i - 1] \in Nat
    BY <2>3
  <2>5. d[i] \in Nat
    BY <1>7, <2>3, <2>4
  <2>6. QED
    BY <2>2, <2>5
<1>9. d = [i \in 0 .. Len(c) |-> d[i]]
  BY <1>4
<1>10. QED
  BY <1>6, <1>7, <1>8, <1>9 DEF d

-----------------------------------------------------------------------------
LEMMA Tokens ==
    /\ LeftBrace # RightBrace /\ QuoteMark \notin {LeftBrace, RightBrace}
    /\ \A x \in Chain : x \notin {LeftBrace, RightBrace, QuoteMark, ">", "for", "git", "ctx"}
    /\ \A x \in {"git", "ctx", "|"} : x \notin {QuoteMark, ">", "\\"}
    /\ QuoteMark \notin {">", "\\"}
    /\ "ctx" # "git"
    /\ {"git", "ctx"} \cap {LeftBrace, RightBrace} = {} /\ "|" \in Chain
  BY Zenon DEF LeftBrace, RightBrace, QuoteMark, Semicolon, Chain

\* In a line that is rewritten, without what ctx does not track, the shell's quotes are
\* those of ctx, and its level goes up and down with the braces.
LevelOf(c, l) ==
    /\ l[0] = 0 /\ \A i \in 0 .. Len(c) : l[i] \in Int
    /\ \A i \in 1 .. Len(c) : l[i] = IF Quoted(c, i) THEN l[i - 1]
                                     ELSE IF c[i] = LeftBrace THEN l[i - 1] + 1
                                     ELSE IF c[i] = RightBrace THEN l[i - 1] - 1 ELSE l[i - 1]

\* What the shell knows between two tokens.
Reading == [quote : BOOLEAN, escape : BOOLEAN, level : Int, begin : BOOLEAN]

LEMMA RoleIs ==
    ASSUME NEW shell, NEW was, ~was.escape, NEW t
    PROVE  /\ Role(shell, was, t) \in {"text", "operator", "open", "close", "word"}
           /\ Role(shell, was, t) = "text" <=> was.quote
           /\ Role(shell, was, t) = "operator" <=> ~was.quote /\ t \in Chain \cup {">"}
           /\ t = LeftBrace => Role(shell, was, t) # "close"
           /\ t = RightBrace => Role(shell, was, t) # "open"
<1>1. CASE was.quote
  <2>1. Role(shell, was, t) = "text"
    BY <1>1 DEF Role
  <2>2. QED
    BY <1>1, <2>1
<1>2. CASE ~was.quote /\ t \in Chain \cup {">"}
  <2>1. Role(shell, was, t) = "operator"
    BY <1>2 DEF Role, Chain, Semicolon, LeftBrace, RightBrace
  <2>2. QED
    BY <1>2, <2>1
<1>3. CASE ~was.quote /\ t \notin Chain \cup {">"}
  <2>1. /\ Role(shell, was, t) \in {"open", "close", "word"}
        /\ t = LeftBrace => Role(shell, was, t) # "close"
        /\ t = RightBrace => Role(shell, was, t) # "open"
    BY <1>3 DEF Role, LeftBrace, RightBrace
  <2>2. QED
    BY <1>3, <2>1
<1>4. QED
  BY <1>1, <1>2, <1>3

LEMMA BeyondIs ==
    ASSUME NEW shell, NEW was \in Reading, NEW t
    PROVE  /\ Beyond(shell, was, t) \in Reading
           /\ Beyond(shell, was, t).quote = (was.quote # (t = QuoteMark /\ ~was.escape))
           /\ Beyond(shell, was, t).escape = (shell = "bash" /\ t = "\\" /\ ~was.escape)
           /\ Beyond(shell, was, t).level = CASE Role(shell, was, t) = "open" -> was.level + 1
                                              [] Role(shell, was, t) = "close" -> was.level - 1
                                              [] OTHER -> was.level
           /\ Role(shell, was, t) = "operator" /\ t \notin {">", "for"} => Beyond(shell, was, t).begin
<1> DEFINE role == Role(shell, was, t)
           quote == was.quote # (t = QuoteMark /\ ~was.escape)
           escape == shell = "bash" /\ t = "\\" /\ ~was.escape
           level == CASE role = "open" -> was.level + 1 [] role = "close" -> was.level - 1
                      [] OTHER -> was.level
           begin == \/ role \in {"operator", "open", "close"} /\ t \notin {">", "for"}
                    \/ role = "word" /\ was.begin /\ t = "do"
<1>1. Beyond(shell, was, t) = [quote |-> quote, escape |-> escape, level |-> level, begin |-> begin]
  BY DEF Beyond
<1>2. was.level \in Int
  BY DEF Reading
<1> HIDE DEF role
<1>3. level \in Int
  BY <1>2
<1>4. quote \in BOOLEAN /\ escape \in BOOLEAN /\ begin \in BOOLEAN
  OBVIOUS
<1>5. role = "operator" /\ t \notin {">", "for"} => begin
  OBVIOUS
<1> HIDE DEF quote, escape, level, begin
<1>6. /\ Beyond(shell, was, t) \in Reading
      /\ Beyond(shell, was, t).quote = quote /\ Beyond(shell, was, t).escape = escape
      /\ Beyond(shell, was, t).level = level /\ Beyond(shell, was, t).begin = begin
  BY <1>1, <1>3, <1>4 DEF Reading
<1>7. QED
  BY <1>5, <1>6 DEF role, quote, escape, level

LEMMA ShellBy ==
    ASSUME NEW shell \in Shells, NEW c, Len(c) \in Nat, Plain(shell, c)
    PROVE  \E l :
             /\ LevelOf(c, l) /\ Len(Shell(shell, c)) = Len(c)
             /\ \A i \in 1 .. Len(c) :
                  /\ Shell(shell, c)[i].level = l[i - 1] /\ Shell(shell, c)[i].token = c[i]
                  /\ Shell(shell, c)[i].role = "operator" <=> ~Quoted(c, i) /\ c[i] \in Chain \cup {">"}
                  /\ Shell(shell, c)[i].role = "close" <=> ~Quoted(c, i) /\ c[i] = RightBrace
                  /\ ~Quoted(c, i) /\ c[i] \in {"git", QuoteMark} => Shell(shell, c)[i].role = "word"
                  /\ i = 1 \/ (~Quoted(c, i - 1) /\ c[i - 1] \in Chain) => Shell(shell, c)[i].begin
<1> DEFINE start == [quote |-> FALSE, escape |-> FALSE, level |-> 0, begin |-> TRUE]
           next(was, x) == Beyond(shell, was, x)
           step(f, i) == IF i = 0 THEN start ELSE next(f[i - 1], c[i])
           Built(f, n) == f = [i \in 0 .. n |-> step(f, i)]
           T == {n \in Nat : ~ \E f : Built(f, n)}
           sh == CHOOSE f : Built(f, Len(c))
<1> HIDE DEF next
<1>1. T = {}
  <2> SUFFICES ASSUME T # {} PROVE FALSE
    OBVIOUS
  <2>1. PICK n \in T : \A m \in T : n <= m
    BY Least
  <2>2. Built([i \in 0 .. 0 |-> start], 0)
    OBVIOUS
  <2>3. 0 \notin T
    BY <2>2
  <2>4. n \in Nat /\ n # 0
    BY <2>1, <2>3
  <2> HIDE DEF T
  <2>5. n - 1 \in Nat /\ n - 1 \notin T
    BY <2>1, <2>4
  <2> USE DEF T
  <2>6. PICK f : Built(f, n - 1)
    BY <2>5
  <2> DEFINE g == [i \in 0 .. n |-> IF i = n THEN step(f, n) ELSE f[i]]
  <2>7. \A i \in 0 .. n - 1 : f[i] = step(f, i)
    BY <2>6
  <2>8. \A i \in 0 .. n : step(g, i) = step(f, i)
    BY <2>4
  <2>9. \A i \in 0 .. n : g[i] = step(g, i)
    BY <2>4, <2>7, <2>8
  <2>10. Built(g, n)
    BY <2>9
  <2>11. QED
    BY <2>1, <2>10
<1>2. \E f : Built(f, Len(c))
  BY <1>1
<1>3. Shell(shell, c) = [i \in 1 .. Len(c) |->
                            [role |-> Role(shell, sh[i - 1], c[i]), level |-> sh[i - 1].level,
                             begin |-> sh[i - 1].begin, token |-> c[i]]]
  BY DEF Shell, next
<1>4. Built(sh, Len(c))
  BY <1>2
<1> HIDE DEF sh
<1>5. sh[0] = start /\ \A i \in 1 .. Len(c) : sh[i] = next(sh[i - 1], c[i])
  <2>1. \A i \in 0 .. Len(c) : sh[i] = step(sh, i)
    BY <1>4
  <2>2. 0 \in 0 .. Len(c)
    OBVIOUS
  <2>3. \A i \in 1 .. Len(c) : i \in 0 .. Len(c) /\ i # 0
    OBVIOUS
  <2>4. QED
    BY <2>1, <2>2, <2>3
<1> HIDE DEF Built, T
<1>6. ASSUME NEW i \in 1 .. Len(c)
      PROVE  /\ Shell(shell, c)[i].role = Role(shell, sh[i - 1], c[i])
             /\ Shell(shell, c)[i].level = sh[i - 1].level
             /\ Shell(shell, c)[i].begin = sh[i - 1].begin /\ Shell(shell, c)[i].token = c[i]
             /\ Role(shell, sh[i - 1], c[i]) \in {"open", "close"} <=>
                    Role(shell, sh[i - 1], c[i]) # "text" /\ c[i] \in {LeftBrace, RightBrace}
             /\ shell = "bash" => c[i] # "\\"
  <2>1. /\ Shell(shell, c)[i].role = Role(shell, sh[i - 1], c[i])
        /\ Shell(shell, c)[i].level = sh[i - 1].level
        /\ Shell(shell, c)[i].begin = sh[i - 1].begin /\ Shell(shell, c)[i].token = c[i]
    BY <1>3
  <2>2. /\ Shell(shell, c)[i].role \in {"open", "close"} <=>
               Shell(shell, c)[i].role # "text" /\ c[i] \in {LeftBrace, RightBrace}
        /\ shell = "bash" => c[i] # "\\"
    BY DEF Plain
  <2>3. QED
    BY <2>1, <2>2
<1> DEFINE Right(i) == sh[i] \in Reading /\ ~sh[i].escape /\ (sh[i].quote <=> Quoted(c, i + 1))
           Raised(i, n) == IF Quoted(c, i) THEN n ELSE IF c[i] = LeftBrace THEN n + 1
                           ELSE IF c[i] = RightBrace THEN n - 1 ELSE n
\* A token in its place: its role, when the shell has read what is before it.
<1>7. ASSUME NEW i \in 1 .. Len(c), Right(i - 1)
      PROVE  LET role == Role(shell, sh[i - 1], c[i])
             IN /\ role = "text" <=> Quoted(c, i)
                /\ role = "operator" <=> ~Quoted(c, i) /\ c[i] \in Chain \cup {">"}
                /\ role = "open" <=> ~Quoted(c, i) /\ c[i] = LeftBrace
                /\ role = "close" <=> ~Quoted(c, i) /\ c[i] = RightBrace
                /\ ~Quoted(c, i) /\ c[i] \in {"git", QuoteMark} => role = "word"
  <2> DEFINE r == sh[i - 1]
             x == c[i]
             role == Role(shell, r, x)
  <2>1. (i - 1) + 1 = i
    OBVIOUS
  <2>2. r \in Reading /\ ~r.escape /\ (r.quote <=> Quoted(c, i))
    BY <1>7, <2>1
  <2>3. role \in {"open", "close"} <=> role # "text" /\ x \in {LeftBrace, RightBrace}
    BY <1>6
  <2> HIDE DEF r, x
  <2>4. /\ role \in {"text", "operator", "open", "close", "word"}
        /\ role = "text" <=> r.quote
        /\ role = "operator" <=> ~r.quote /\ x \in Chain \cup {">"}
        /\ x = LeftBrace => role # "close"
        /\ x = RightBrace => role # "open"
    BY <2>2, RoleIs
  <2> HIDE DEF role
  <2>5. ~Quoted(c, i) /\ x \in {"git", QuoteMark} =>
            x \notin {LeftBrace, RightBrace} /\ x \notin Chain \cup {">"}
    BY Tokens
  <2>6. LeftBrace # RightBrace
    BY Tokens
  <2>7. /\ role = "text" <=> Quoted(c, i)
        /\ role = "operator" <=> ~Quoted(c, i) /\ x \in Chain \cup {">"}
        /\ role = "open" <=> ~Quoted(c, i) /\ x = LeftBrace
        /\ role = "close" <=> ~Quoted(c, i) /\ x = RightBrace
    BY <2>2, <2>3, <2>4, <2>6
  <2>8. ~Quoted(c, i) /\ x \in {"git", QuoteMark} => role = "word"
    BY <2>4, <2>5, <2>7
  <2>9. QED
    BY <2>7, <2>8 DEF role, r, x
<1>8. ASSUME NEW i \in 1 .. Len(c), Right(i - 1)
      PROVE  /\ Right(i) /\ sh[i].level = Raised(i, sh[i - 1].level)
             /\ ~Quoted(c, i) /\ c[i] \in Chain => sh[i].begin
  <2> DEFINE r == sh[i - 1]
             x == c[i]
             role == Role(shell, r, x)
  <2>1. i \in Nat /\ i > 0 /\ (i - 1) + 1 = i
    OBVIOUS
  <2>2. Quoted(c, i + 1) <=> IF x = QuoteMark THEN ~Quoted(c, i) ELSE Quoted(c, i)
    BY <2>1, QuotedFlips
  <2>3. r \in Reading /\ ~r.escape /\ (r.quote <=> Quoted(c, i))
    BY <1>8, <2>1
  <2>4. sh[i] = Beyond(shell, r, x)
    BY <1>5 DEF next
  <2>5. shell = "bash" => x # "\\"
    BY <1>6
  <2>6. /\ role = "operator" <=> ~Quoted(c, i) /\ x \in Chain \cup {">"}
        /\ role = "open" <=> ~Quoted(c, i) /\ x = LeftBrace
        /\ role = "close" <=> ~Quoted(c, i) /\ x = RightBrace
    BY <1>7, <1>8
  <2> HIDE DEF r, x, role
  <2>7. /\ sh[i] \in Reading
        /\ sh[i].quote = (r.quote # (x = QuoteMark /\ ~r.escape))
        /\ sh[i].escape = (shell = "bash" /\ x = "\\" /\ ~r.escape)
        /\ sh[i].level = CASE role = "open" -> r.level + 1 [] role = "close" -> r.level - 1
                           [] OTHER -> r.level
        /\ role = "operator" /\ x \notin {">", "for"} => sh[i].begin
    BY <2>3, <2>4, BeyondIs DEF role
  <2>8. ~sh[i].escape
    BY <2>5, <2>7
  <2>9. sh[i].quote <=> Quoted(c, i + 1)
    <3>1. sh[i].quote = (r.quote # (x = QuoteMark))
      BY <2>3, <2>7
    <3>2. sh[i].quote \in BOOLEAN /\ r.quote \in BOOLEAN
      BY <2>3, <2>7 DEF Reading
    <3>3. QED
      BY <2>2, <2>3, <3>1, <3>2
  <2>10. LeftBrace # RightBrace
    BY Tokens
  <2>11. sh[i].level = Raised(i, r.level)
    BY <2>6, <2>7, <2>10 DEF x
  <2>12. ~Quoted(c, i) /\ x \in Chain => sh[i].begin
    BY <2>6, <2>7, Tokens
  <2>13. QED
    BY <2>7, <2>8, <2>9, <2>11, <2>12 DEF r, x
<1>9. \A i \in 0 .. Len(c) : Right(i)
  <2> DEFINE B == {i \in 0 .. Len(c) : ~Right(i)}
  <2> SUFFICES ASSUME B # {} PROVE FALSE
    OBVIOUS
  <2>1. B \subseteq Nat
    OBVIOUS
  <2> HIDE DEF B
  <2>2. PICK i \in B : \A j \in B : i <= j
    BY <2>1, Least
  <2> USE DEF B
  <2>3. Right(0)
    <3>1. ~Quoted(c, 0 + 1)
      BY QuotedFlips
    <3>2. start \in Reading /\ ~start.escape /\ ~start.quote
      BY DEF Reading
    <3>3. QED
      BY <1>5, <3>1, <3>2
  <2> HIDE DEF Right
  <2>4. i # 0 /\ i \in 0 .. Len(c)
    BY <2>2, <2>3
  <2>5. i - 1 \in 0 .. Len(c) /\ i \in 1 .. Len(c) /\ ~(i <= i - 1)
    BY <2>4
  <2>6. Right(i - 1)
    BY <2>2, <2>5
  <2>7. Right(i)
    BY <1>8, <2>5, <2>6
  <2>8. QED
    BY <2>2, <2>7
<1> DEFINE l == [i \in 0 .. Len(c) |-> sh[i].level]
<1> HIDE DEF Raised
<1>10. ASSUME NEW i \in 0 .. Len(c) PROVE l[i] \in Int /\ l[i] = sh[i].level
  BY <1>9 DEF Reading
<1> HIDE DEF l, Right
<1>11. LevelOf(c, l)
  <2>1. l[0] = 0
    <3>1. 0 \in 0 .. Len(c) /\ start.level = 0
      OBVIOUS
    <3>2. QED
      BY <1>5, <1>10, <3>1
  <2>2. ASSUME NEW i \in 1 .. Len(c) PROVE l[i] = Raised(i, l[i - 1])
    <3>1. i - 1 \in 0 .. Len(c) /\ i \in 0 .. Len(c)
      OBVIOUS
    <3>2. sh[i].level = Raised(i, sh[i - 1].level)
      BY <1>8, <1>9, <3>1
    <3>3. QED
      BY <1>10, <3>1, <3>2
  <2>3. QED
    BY <1>10, <2>1, <2>2 DEF LevelOf, Raised
<1>12. ASSUME NEW i \in 1 .. Len(c)
       PROVE  /\ Shell(shell, c)[i].level = l[i - 1] /\ Shell(shell, c)[i].token = c[i]
              /\ Shell(shell, c)[i].role = "operator" <=> ~Quoted(c, i) /\ c[i] \in Chain \cup {">"}
              /\ Shell(shell, c)[i].role = "close" <=> ~Quoted(c, i) /\ c[i] = RightBrace
              /\ ~Quoted(c, i) /\ c[i] \in {"git", QuoteMark} => Shell(shell, c)[i].role = "word"
              /\ i = 1 \/ (~Quoted(c, i - 1) /\ c[i - 1] \in Chain) => Shell(shell, c)[i].begin
  <2>1. i - 1 \in 0 .. Len(c)
    OBVIOUS
  <2>2. Right(i - 1) /\ l[i - 1] = sh[i - 1].level
    BY <1>9, <1>10, <2>1
  <2>3. /\ Shell(shell, c)[i].role = Role(shell, sh[i - 1], c[i])
        /\ Shell(shell, c)[i].level = l[i - 1]
        /\ Shell(shell, c)[i].begin = sh[i - 1].begin /\ Shell(shell, c)[i].token = c[i]
    BY <1>6, <2>2
  <2>4. CASE i = 1
    <3>1. i - 1 = 0 /\ start.begin
      BY <2>4
    <3>2. sh[i - 1].begin
      BY <1>5, <3>1
    <3>3. QED
      BY <1>7, <2>2, <2>3, <3>2
  <2>5. CASE i # 1
    <3>1. i - 1 \in 1 .. Len(c) /\ (i - 1) - 1 \in 0 .. Len(c)
      BY <2>5
    <3>2. Right((i - 1) - 1)
      BY <1>9, <3>1
    <3>3. ~Quoted(c, i - 1) /\ c[i - 1] \in Chain => sh[i - 1].begin
      BY <1>8, <3>1, <3>2
    <3>4. QED
      BY <1>7, <2>2, <2>3, <2>5, <3>3
  <2>6. QED
    BY <2>4, <2>5
<1>13. Len(Shell(shell, c)) = Len(c)
  <2>1. DOMAIN Shell(shell, c) = 1 .. Len(c)
    BY <1>3
  <2>2. QED
    BY <1>3, <2>1
<1>14. QED
  BY <1>11, <1>12, <1>13

-----------------------------------------------------------------------------
LEMMA SplitsAt ==
    ASSUME NEW c, Len(c) \in Nat
    PROVE  \A x : x \in Splits(c) <=> /\ x \in 1 .. Len(c) /\ c[x] \in Chain /\ ~Quoted(c, x)
                                      /\ BraceDepth(c)[x - 1] = 0
  BY DEF Splits

LEMMA EndOfIs ==
    ASSUME NEW c, Len(c) \in Nat, NEW h \in Heads(c)
    PROVE  /\ h \in 0 .. Len(c) /\ EndOf(c, h) \in Splits(c) \cup {Len(c) + 1} /\ EndOf(c, h) > h
           /\ \A x \in Splits(c) : x > h => EndOf(c, h) <= x
           /\ EndOf(c, h) \in 1 .. Len(c) + 1
           /\ \A e \in Splits(c) \cup {Len(c) + 1} :
                 e > h /\ (\A x \in Splits(c) : x > h => e <= x) => e = EndOf(c, h)
<1> DEFINE Is(e) == e > h /\ \A x \in Splits(c) : x > h => e <= x
           E == {e \in Splits(c) \cup {Len(c) + 1} : e > h}
<1>1. Splits(c) \subseteq 1 .. Len(c)
  BY SplitsAt
<1>2. h \in 0 .. Len(c)
  BY <1>1 DEF Heads
<1>3. E \subseteq Nat /\ Len(c) + 1 \in E
  BY <1>1, <1>2
<1> HIDE DEF E
<1>4. PICK e \in E : \A y \in E : e <= y
  BY <1>3, Least
<1> USE DEF E
<1>5. e \in Splits(c) \cup {Len(c) + 1} /\ Is(e)
  BY <1>4
<1>6. EndOf(c, h) = CHOOSE x \in Splits(c) \cup {Len(c) + 1} : Is(x)
  BY DEF EndOf
<1> HIDE DEF Is, E
<1>7. EndOf(c, h) \in Splits(c) \cup {Len(c) + 1} /\ Is(EndOf(c, h))
  BY <1>5, <1>6
<1> USE DEF Is
<1>8. EndOf(c, h) \in 1 .. Len(c) + 1
  BY <1>1, <1>7
<1>9. ASSUME NEW x \in Splits(c) \cup {Len(c) + 1}, Is(x) PROVE x = EndOf(c, h)
  <2>1. x \in 1 .. Len(c) + 1
    BY <1>1
  <2>2. EndOf(c, h) <= x
    <3>1. CASE x \in Splits(c)
      BY <1>7, <1>9, <3>1
    <3>2. CASE x = Len(c) + 1
      BY <1>8, <3>2
    <3>3. QED
      BY <3>1, <3>2
  <2>3. x <= EndOf(c, h)
    <3>1. CASE EndOf(c, h) \in Splits(c)
      BY <1>7, <1>9, <3>1
    <3>2. CASE EndOf(c, h) = Len(c) + 1
      BY <2>1, <3>2
    <3>3. QED
      BY <1>7, <3>1, <3>2
  <2>4. QED
    BY <1>8, <2>1, <2>2, <2>3
<1>10. QED
  BY <1>2, <1>7, <1>8, <1>9

LEMMA FirstWordIs ==
    ASSUME NEW c, Len(c) \in Nat, NEW h \in Heads(c), Words(c, h) # {}
    PROVE  /\ FirstWord(c, h) \in Words(c, h) /\ FirstWord(c, h) \in h + 1 .. EndOf(c, h) - 1
           /\ \A j \in Words(c, h) : FirstWord(c, h) <= j
           /\ \A w \in Words(c, h) : (\A j \in Words(c, h) : w <= j) => w = FirstWord(c, h)
<1>1. h \in Nat /\ EndOf(c, h) \in Nat
  BY EndOfIs
<1>2. Words(c, h) \subseteq h + 1 .. EndOf(c, h) - 1 /\ Words(c, h) \subseteq Nat
  BY <1>1 DEF Words
<1>3. PICK w \in Words(c, h) : \A y \in Words(c, h) : w <= y
  BY <1>2, Least
<1>4. /\ FirstWord(c, h) \in Words(c, h)
      /\ \A j \in Words(c, h) : FirstWord(c, h) <= j
  BY <1>3 DEF FirstWord
<1>5. ASSUME NEW x \in Words(c, h), \A j \in Words(c, h) : x <= j PROVE x = FirstWord(c, h)
  <2>1. x <= FirstWord(c, h) /\ FirstWord(c, h) <= x /\ x \in Nat /\ FirstWord(c, h) \in Nat
    BY <1>2, <1>4, <1>5
  <2>2. QED
    BY <2>1
<1>6. QED
  BY <1>2, <1>4, <1>5

\* Where "ctx" goes in there is a segment of a tool, which is not part of a pipe and begins
\* outside quotes and braces.
Chosen(c, h) == /\ h \in Heads(c) /\ ~PrecededByPipe(c, h) /\ ~FollowedByPipe(c, h)
                /\ Eligible(Program(c, h))

LEMMA ToolSegment ==
    ASSUME NEW c, Len(c) \in Nat, NEW h \in Heads(c), Eligible(Program(c, h))
    PROVE  /\ h + 1 \in 1 .. Len(c) /\ h + 1 < EndOf(c, h) /\ c[h + 1] \in {QuoteMark, "git"}
           /\ Words(c, h) # {} /\ c[FirstWord(c, h)] = "git"
<1>1. Words(c, h) # {} /\ c[FirstWord(c, h)] = "git"
  BY DEF Eligible, Program
<1>2. /\ FirstWord(c, h) \in Words(c, h) /\ FirstWord(c, h) \in h + 1 .. EndOf(c, h) - 1
      /\ \A j \in Words(c, h) : FirstWord(c, h) <= j
  BY <1>1, FirstWordIs
<1>3. h \in 0 .. Len(c) /\ EndOf(c, h) \in 1 .. Len(c) + 1
  BY EndOfIs
<1>4. h + 1 \in 1 .. Len(c) /\ h + 1 < EndOf(c, h) /\ h + 1 \in h + 1 .. EndOf(c, h) - 1
  BY <1>2, <1>3
<1>5. CASE FirstWord(c, h) = h + 1
  BY <1>1, <1>4, <1>5
<1>6. CASE FirstWord(c, h) # h + 1
  <2>1. h + 1 \notin Words(c, h)
    BY <1>2, <1>3, <1>6
  <2>2. c[h + 1] = QuoteMark
    BY <1>4, <2>1 DEF Words
  <2>3. QED
    BY <1>1, <1>4, <2>2
<1>7. QED
  BY <1>5, <1>6

LEMMA HeadIsOutside ==
    ASSUME NEW c, Len(c) \in Nat, NEW h \in Heads(c)
    PROVE  /\ ~Quoted(c, h + 1) /\ BraceDepth(c)[h] = 0
           /\ h # 0 => h \in 1 .. Len(c) /\ c[h] \in Chain /\ ~Quoted(c, h)
<1>1. CASE h = 0
  <2>1. ~Quoted(c, 0 + 1)
    BY QuotedFlips
  <2>2. QED
    BY <1>1, <2>1, DepthBy
<1>2. CASE h # 0
  <2>1. h \in Splits(c)
    BY <1>2 DEF Heads
  <2>2. h \in 1 .. Len(c) /\ c[h] \in Chain /\ ~Quoted(c, h) /\ BraceDepth(c)[h - 1] = 0
    BY <2>1, SplitsAt
  <2>3. c[h] # QuoteMark /\ c[h] # LeftBrace /\ c[h] # RightBrace
    BY <2>2, Tokens
  <2>4. ~Quoted(c, h + 1)
    <3>1. h \in Nat /\ h > 0
      BY <2>2
    <3>2. QED
      BY <2>2, <2>3, <3>1, QuotedFlips
  <2>5. BraceDepth(c)[h] = 0
    BY <2>2, <2>3, DepthBy
  <2>6. QED
    BY <2>2, <2>4, <2>5
<1>3. QED
  BY <1>1, <1>2

\* The shell is nowhere deeper than ctx, whose depth does not go below zero.
LEMMA LevelUnder ==
    ASSUME NEW c, Len(c) \in Nat, NEW l, LevelOf(c, l)
    PROVE  \A i \in 0 .. Len(c) : l[i] <= BraceDepth(c)[i]
<1> DEFINE d == BraceDepth(c)
           B == {i \in 0 .. Len(c) : ~(l[i] <= d[i])}
<1> SUFFICES ASSUME B # {} PROVE FALSE
  OBVIOUS
<1>1. B \subseteq Nat
  OBVIOUS
<1> HIDE DEF B
<1>2. PICK i \in B : \A j \in B : i <= j
  BY <1>1, Least
<1> USE DEF B
<1> HIDE DEF d
<1>3. d[0] = 0 /\ l[0] = 0
  BY DepthBy DEF d, LevelOf
<1>4. i # 0 /\ i \in 0 .. Len(c) /\ ~(l[i] <= d[i])
  BY <1>2, <1>3
<1>5. i \in 1 .. Len(c) /\ i - 1 \in 0 .. Len(c) /\ ~(i <= i - 1)
  BY <1>4
<1>6. l[i - 1] <= d[i - 1]
  BY <1>2, <1>5
<1>7. d[i] = IF Quoted(c, i) THEN d[i - 1]
             ELSE IF c[i] = LeftBrace THEN d[i - 1] + 1
             ELSE IF c[i] = RightBrace /\ d[i - 1] > 0 THEN d[i - 1] - 1 ELSE d[i - 1]
  BY <1>5, DepthBy DEF d
<1>8. l[i] = IF Quoted(c, i) THEN l[i - 1]
             ELSE IF c[i] = LeftBrace THEN l[i - 1] + 1
             ELSE IF c[i] = RightBrace THEN l[i - 1] - 1 ELSE l[i - 1]
  BY <1>5 DEF LevelOf
<1>9. d[i - 1] \in Nat /\ l[i - 1] \in Int
  BY <1>5, DepthBy DEF d, LevelOf
<1>10. QED
  BY <1>4, <1>6, <1>7, <1>8, <1>9

\* As long as no brace closes at level zero, the two go up and down together.
LEMMA LevelSame ==
    ASSUME NEW c, Len(c) \in Nat, NEW l, LevelOf(c, l), NEW h \in 0 .. Len(c), NEW k \in h .. Len(c),
           l[h] = BraceDepth(c)[h],
           \A m \in h + 1 .. k : ~(c[m] = RightBrace /\ ~Quoted(c, m) /\ l[m - 1] = 0)
    PROVE  \A m \in h .. k : l[m] = BraceDepth(c)[m]
<1> DEFINE d == BraceDepth(c)
           B == {m \in h .. k : l[m] # d[m]}
<1> SUFFICES ASSUME B # {} PROVE FALSE
  OBVIOUS
<1>1. B \subseteq Nat
  OBVIOUS
<1> HIDE DEF B
<1>2. PICK i \in B : \A j \in B : i <= j
  BY <1>1, Least
<1> USE DEF B
<1>3. i # h /\ i \in h .. k /\ l[i] # d[i]
  BY <1>2
<1> HIDE DEF d
<1>4. i \in h + 1 .. k /\ i \in 1 .. Len(c) /\ i - 1 \in 0 .. Len(c) /\ i - 1 \in h .. k /\ ~(i <= i - 1)
  BY <1>3
<1>5. l[i - 1] = d[i - 1]
  BY <1>2, <1>4
<1>6. d[i] = IF Quoted(c, i) THEN d[i - 1]
             ELSE IF c[i] = LeftBrace THEN d[i - 1] + 1
             ELSE IF c[i] = RightBrace /\ d[i - 1] > 0 THEN d[i - 1] - 1 ELSE d[i - 1]
  BY <1>4, DepthBy DEF d
<1>7. l[i] = IF Quoted(c, i) THEN l[i - 1]
             ELSE IF c[i] = LeftBrace THEN l[i - 1] + 1
             ELSE IF c[i] = RightBrace THEN l[i - 1] - 1 ELSE l[i - 1]
  BY <1>4 DEF LevelOf
<1>8. d[i - 1] \in Nat
  BY <1>4, DepthBy DEF d
<1>9. ~(c[i] = RightBrace /\ ~Quoted(c, i) /\ l[i - 1] = 0)
  BY <1>4
<1>10. QED
  BY <1>3, <1>5, <1>6, <1>7, <1>8, <1>9

\* Where "ctx" goes in, the shell sees the word of a command whose output goes to the reader.
LEMMA PrefixHarmless ==
    ASSUME NEW shell \in Shells, NEW c, Len(c) \in Nat, Plain(shell, c), NEW i \in Prefixed(c)
    PROVE  CommandWord(Shell(shell, c), i) /\ ~OutputGoesOn(Shell(shell, c), i)
<1> DEFINE d == BraceDepth(c)
           sh == Shell(shell, c)
<1>1. ~Redirects(c)
  BY DEF Prefixed
<1>2. PICK h : Chosen(c, h) /\ i = h + 1
  BY <1>1 DEF Prefixed, Chosen
<1>3. PICK l :
        /\ LevelOf(c, l) /\ Len(sh) = Len(c)
        /\ \A j \in 1 .. Len(c) :
              /\ sh[j].level = l[j - 1] /\ sh[j].token = c[j]
              /\ sh[j].role = "operator" <=> ~Quoted(c, j) /\ c[j] \in Chain \cup {">"}
              /\ sh[j].role = "close" <=> ~Quoted(c, j) /\ c[j] = RightBrace
              /\ ~Quoted(c, j) /\ c[j] \in {"git", QuoteMark} => sh[j].role = "word"
              /\ j = 1 \/ (~Quoted(c, j - 1) /\ c[j - 1] \in Chain) => sh[j].begin
  BY ShellBy
<1> HIDE DEF sh
<1>4. \A j \in 1 .. Len(c) :
         /\ sh[j].role \in {"operator", "close"} <=>
                ~Quoted(c, j) /\ c[j] \in Chain \cup {">", RightBrace}
         /\ sh[j].level = l[j - 1] /\ sh[j].token = c[j]
  BY <1>3
<1>5. Len(sh) = Len(c)
  BY <1>3
<1>6. h \in Heads(c) /\ h \in 0 .. Len(c) /\ ~FollowedByPipe(c, h) /\ Eligible(Program(c, h))
  BY <1>2, EndOfIs DEF Chosen
<1>7. i \in 1 .. Len(c) /\ i < EndOf(c, h) /\ c[i] \in {QuoteMark, "git"}
  BY <1>2, <1>6, ToolSegment
<1>8. ~Quoted(c, i) /\ d[h] = 0 /\ (h # 0 => h \in 1 .. Len(c) /\ c[h] \in Chain /\ ~Quoted(c, h))
  BY <1>2, <1>6, HeadIsOutside
<1>9. c[i] \notin Chain /\ c[i] # RightBrace
  BY <1>7, Tokens
<1>10. CommandWord(sh, i)
  <2>1. sh[i].role = "word"
    BY <1>3, <1>7, <1>8
  <2>2. i = 1 \/ (~Quoted(c, i - 1) /\ c[i - 1] \in Chain)
    <3>1. i - 1 = h
      BY <1>2, <1>6
    <3>2. QED
      BY <1>2, <1>8, <3>1
  <2>3. sh[i].begin
    BY <1>3, <1>7, <2>2
  <2>4. QED
    BY <2>1, <2>3 DEF CommandWord
<1>11. ~OutputGoesOn(sh, i)
  <2> SUFFICES ASSUME OutputGoesOn(sh, i) PROVE FALSE
    OBVIOUS
  <2>1. sh[i].level = l[h] /\ l[h] \in Int /\ l[h] <= 0
    <3>1. i - 1 = h
      BY <1>2, <1>6
    <3>2. l[h] <= d[h] /\ l[h] \in Int
      BY <1>3, <1>6, LevelUnder DEF LevelOf
    <3>3. QED
      BY <1>4, <1>7, <1>8, <3>1, <3>2
  <2> DEFINE ends(k) == {j \in i + 1 .. Len(sh) : sh[j].level = k /\ sh[j].role \in {"operator", "close"}}
  <2>2. PICK k \in 0 .. sh[i].level : \E j \in ends(k) : sh[j].token \in {"|", ">"} /\ \A x \in ends(k) : j <= x
    BY DEF OutputGoesOn
  <2>3. k = 0 /\ l[h] = 0
    BY <2>1, <2>2
  <2>4. PICK j \in ends(0) : sh[j].token \in {"|", ">"} /\ \A x \in ends(0) : j <= x
    BY <2>2, <2>3
  <2>5. /\ j \in i + 1 .. Len(c) /\ j \in 1 .. Len(c)
        /\ ~Quoted(c, j) /\ l[j - 1] = 0 /\ c[j] \in {"|", ">"}
    <3>1. j \in i + 1 .. Len(c) /\ sh[j].level = 0 /\ sh[j].role \in {"operator", "close"}
      BY <1>5, <2>4
    <3>2. j \in 1 .. Len(c)
      BY <1>7, <3>1
    <3>3. QED
      BY <1>4, <2>4, <3>1, <3>2
  <2>6. c[j] = "|"
    BY <1>1, <2>5 DEF Redirects
  <2>7. ASSUME NEW x \in h + 1 .. j - 1, ~Quoted(c, x), l[x - 1] = 0
        PROVE  c[x] \notin Chain \cup {RightBrace}
    <3>1. CASE x = i
      BY <1>9, <3>1
    <3>2. CASE x # i
      <4>1. x \in i + 1 .. Len(c) /\ x \in 1 .. Len(c) /\ x < j
        BY <1>2, <1>6, <1>7, <2>5, <3>2
      <4>2. x \notin ends(0)
        BY <2>4, <2>5, <4>1
      <4>3. sh[x].role \notin {"operator", "close"}
        <5>1. sh[x].level = 0
          BY <1>4, <2>7, <4>1
        <5>2. QED
          BY <1>5, <4>1, <4>2, <5>1
      <4>4. QED
        BY <1>4, <2>7, <4>1, <4>3
    <3>3. QED
      BY <3>1, <3>2
  <2>8. \A m \in h .. j - 1 : l[m] = d[m]
    <3> DEFINE last == j - 1
    <3>1. last \in h .. Len(c)
      BY <1>2, <1>6, <1>7, <2>5
    <3>2. \A m \in h + 1 .. last : ~(c[m] = RightBrace /\ ~Quoted(c, m) /\ l[m - 1] = 0)
      BY <2>7
    <3>3. l[h] = d[h]
      BY <1>8, <2>3
    <3> HIDE DEF last
    <3>4. LevelOf(c, l) /\ h \in 0 .. Len(c)
      BY <1>3, <1>6
    <3>5. \A m \in h .. last : l[m] = d[m]
      BY <3>1, <3>2, <3>3, <3>4, LevelSame
    <3>6. QED
      BY <3>5 DEF last
  <2>9. j \in Splits(c)
    <3>1. j - 1 \in h .. j - 1
      BY <1>2, <1>6, <2>5
    <3>2. d[j - 1] = 0
      BY <2>5, <2>8, <3>1
    <3>3. c[j] \in Chain
      BY <2>6, Tokens
    <3>4. QED
      BY <2>5, <3>2, <3>3, SplitsAt
  <2>10. ASSUME NEW x \in Splits(c), x > h PROVE j <= x
    <3> SUFFICES ASSUME ~(j <= x) PROVE FALSE
      OBVIOUS
    <3>1. x \in 1 .. Len(c) /\ c[x] \in Chain /\ ~Quoted(c, x) /\ d[x - 1] = 0
      BY SplitsAt
    <3>2. x \in h + 1 .. j - 1 /\ x - 1 \in h .. j - 1
      BY <1>6, <2>5, <2>10, <3>1
    <3>3. l[x - 1] = 0
      BY <2>8, <3>1, <3>2
    <3>4. QED
      BY <2>7, <3>1, <3>2, <3>3
  <2>11. j > h
    BY <1>2, <1>6, <2>5
  <2>12. j = EndOf(c, h)
    BY <1>6, <2>9, <2>10, <2>11, EndOfIs
  <2>13. QED
    BY <1>6, <2>5, <2>6, <2>12 DEF FollowedByPipe
<1>12. QED
  BY <1>10, <1>11 DEF sh

-----------------------------------------------------------------------------
\* Where the tokens of c are in r, with "ctx" before those at the places of at.
Placed(c, at, r, pos) ==
    /\ pos[0] = 0 /\ pos[Len(c)] = Len(r) /\ \A k \in 0 .. Len(c) : pos[k] \in Nat /\ pos[k] <= Len(r)
    /\ \A k \in 1 .. Len(c) : /\ pos[k] = IF k \in at THEN (pos[k - 1] + 1) + 1 ELSE pos[k - 1] + 1
                              /\ r[pos[k]] = c[k]
                              /\ k \in at => r[pos[k - 1] + 1] = "ctx"

LEMMA RewritePlaces ==
    ASSUME NEW S, "ctx" \in S, NEW c \in Seq(S)
    PROVE  /\ RewriteCommand(c) \in Seq(S)
           /\ \E pos : Placed(c, Prefixed(c), RewriteCommand(c), pos)
           /\ Prefixed(c) = {} => RewriteCommand(c) = c
<1> DEFINE at == Prefixed(c)
           piece(i) == IF i \in at THEN <<"ctx", c[i]>> ELSE <<c[i]>>
           step(f, i) == IF i = 0 THEN <<>> ELSE f[i - 1] \o piece(i)
           Built(f, n) == f = [i \in 0 .. n |-> step(f, i)]
           T == {n \in Nat : ~ \E f : Built(f, n)}
           w == CHOOSE f : Built(f, Len(c))
<1> HIDE DEF at, piece
<1>0. Len(c) \in Nat /\ \A i \in 1 .. Len(c) : c[i] \in S
  BY ElementOfSeq, LenProperties
<1>1. T = {}
  <2> SUFFICES ASSUME T # {} PROVE FALSE
    OBVIOUS
  <2>1. PICK n \in T : \A m \in T : n <= m
    BY Least
  <2>2. Built([i \in 0 .. 0 |-> <<>>], 0)
    OBVIOUS
  <2>3. 0 \notin T
    BY <2>2
  <2>4. n \in Nat /\ n # 0
    BY <2>1, <2>3
  <2> HIDE DEF T
  <2>5. n - 1 \in Nat /\ n - 1 \notin T
    BY <2>1, <2>4
  <2> USE DEF T
  <2>6. PICK f : Built(f, n - 1)
    BY <2>5
  <2> DEFINE g == [i \in 0 .. n |-> IF i = n THEN step(f, n) ELSE f[i]]
  <2>7. \A i \in 0 .. n - 1 : f[i] = step(f, i)
    BY <2>6
  <2>8. \A i \in 0 .. n : step(g, i) = step(f, i)
    BY <2>4
  <2>9. \A i \in 0 .. n : g[i] = step(g, i)
    BY <2>4, <2>7, <2>8
  <2>10. Built(g, n)
    BY <2>9
  <2>11. QED
    BY <2>1, <2>10
<1>2. \E f : Built(f, Len(c))
  BY <1>0, <1>1
<1>3. RewriteCommand(c) = w[Len(c)]
  BY DEF RewriteCommand, at, piece
<1>4. Built(w, Len(c))
  BY <1>2
<1> HIDE DEF w
<1>5. w[0] = <<>> /\ \A i \in 1 .. Len(c) : w[i] = w[i - 1] \o piece(i)
  <2>1. \A i \in 0 .. Len(c) : w[i] = step(w, i)
    BY <1>4
  <2>2. 0 \in 0 .. Len(c)
    BY <1>0
  <2>3. \A i \in 1 .. Len(c) : i \in 0 .. Len(c) /\ i # 0
    BY <1>0
  <2>4. QED
    BY <2>1, <2>2, <2>3
<1> HIDE DEF Built, T
<1>6. ASSUME NEW i \in 1 .. Len(c)
      PROVE  /\ piece(i) \in Seq(S) /\ Len(piece(i)) = IF i \in at THEN 2 ELSE 1
             /\ piece(i)[Len(piece(i))] = c[i] /\ (i \in at => piece(i)[1] = "ctx")
  <2>1. c[i] \in S
    BY <1>0
  <2>2. CASE i \in at
    BY <2>1, <2>2 DEF piece
  <2>3. CASE i \notin at
    BY <2>1, <2>3 DEF piece
  <2>4. QED
    BY <2>2, <2>3
<1>7. \A i \in 0 .. Len(c) : w[i] \in Seq(S)
  <2> DEFINE B == {i \in 0 .. Len(c) : w[i] \notin Seq(S)}
  <2> SUFFICES ASSUME B # {} PROVE FALSE
    OBVIOUS
  <2>1. B \subseteq Nat
    BY <1>0
  <2> HIDE DEF B
  <2>2. PICK i \in B : \A j \in B : i <= j
    BY <2>1, Least
  <2> USE DEF B
  <2>3. i # 0 /\ i \in 0 .. Len(c)
    <3>1. <<>> \in Seq(S)
      OBVIOUS
    <3>2. w[0] \in Seq(S)
      BY <1>5, <3>1
    <3>3. QED
      BY <2>2, <3>2
  <2>4. i \in 1 .. Len(c) /\ i - 1 \in 0 .. Len(c) /\ ~(i <= i - 1)
    BY <1>0, <2>3
  <2>5. w[i - 1] \in Seq(S)
    BY <2>2, <2>4
  <2>6. w[i] \in Seq(S)
    <3>1. piece(i) \in Seq(S) /\ w[i] = w[i - 1] \o piece(i)
      BY <1>5, <1>6, <2>4
    <3>2. QED
      BY <2>5, <3>1, ConcatProperties
  <2>7. QED
    BY <2>2, <2>6
<1> DEFINE pos == [i \in 0 .. Len(c) |-> Len(w[i])]
           r == w[Len(c)]
<1>8. ASSUME NEW i \in 1 .. Len(c)
      PROVE  /\ pos[i] \in Nat /\ pos[i - 1] \in Nat
             /\ pos[i] = IF i \in at THEN (pos[i - 1] + 1) + 1 ELSE pos[i - 1] + 1
             /\ w[i][pos[i]] = c[i] /\ (i \in at => w[i][pos[i - 1] + 1] = "ctx")
             /\ \A j \in 1 .. pos[i - 1] : w[i][j] = w[i - 1][j]
  <2> DEFINE s == w[i - 1]
             t == piece(i)
  <2>1. i \in 0 .. Len(c) /\ i - 1 \in 0 .. Len(c)
    BY <1>0
  <2>2. s \in Seq(S) /\ t \in Seq(S) /\ Len(t) = (IF i \in at THEN 2 ELSE 1)
        /\ t[Len(t)] = c[i] /\ (i \in at => t[1] = "ctx")
    BY <1>6, <1>7, <2>1
  <2>3. w[i] = s \o t /\ pos[i] = Len(w[i]) /\ pos[i - 1] = Len(s)
    BY <1>5, <2>1
  <2> HIDE DEF s, t, pos
  <2>4. /\ Len(s \o t) = Len(s) + Len(t) /\ Len(s) \in Nat /\ Len(t) \in Nat
        /\ \A j \in 1 .. Len(s) : (s \o t)[j] = s[j]
        /\ \A j \in 1 .. Len(t) : (s \o t)[Len(s) + j] = t[j]
    <3>1. \A j \in 1 .. Len(s) + Len(t) : (s \o t)[j] = IF j <= Len(s) THEN s[j] ELSE t[j - Len(s)]
      BY <2>2, ConcatProperties
    <3>2. Len(s) \in Nat /\ Len(t) \in Nat /\ Len(s \o t) = Len(s) + Len(t)
      BY <2>2, LenProperties, ConcatProperties
    <3>3. ASSUME NEW j \in 1 .. Len(t) PROVE (s \o t)[Len(s) + j] = t[j]
      <4> DEFINE x == Len(s) + j
      <4>1. x \in 1 .. Len(s) + Len(t) /\ ~(x <= Len(s)) /\ x - Len(s) = j
        BY <3>2
      <4> HIDE DEF x
      <4>2. (s \o t)[x] = t[x - Len(s)]
        BY <3>1, <4>1
      <4>3. QED
        BY <4>1, <4>2 DEF x
    <3>4. ASSUME NEW j \in 1 .. Len(s) PROVE (s \o t)[j] = s[j]
      <4>1. j \in 1 .. Len(s) + Len(t) /\ j <= Len(s)
        BY <3>2
      <4>2. QED
        BY <3>1, <4>1
    <3>5. QED
      BY <3>2, <3>3, <3>4
  <2>5. Len(t) \in 1 .. Len(t) /\ 1 \in 1 .. Len(t)
    BY <2>2
  <2>6. (s \o t)[Len(s) + Len(t)] = c[i] /\ (i \in at => (s \o t)[Len(s) + 1] = "ctx")
    BY <2>2, <2>4, <2>5
  <2>7. pos[i] = IF i \in at THEN (pos[i - 1] + 1) + 1 ELSE pos[i - 1] + 1
    BY <2>2, <2>3, <2>4
  <2>8. QED
    BY <2>3, <2>4, <2>6, <2>7 DEF s
<1> HIDE DEF pos
<1>9. \A k \in 0 .. Len(c) : pos[k] = Len(w[k]) /\ pos[k] \in Nat
  BY <1>7, LenProperties DEF pos
<1>10. ASSUME NEW k \in 0 .. Len(c)
       PROVE  \A m \in k .. Len(c) : pos[k] <= pos[m] /\ \A j \in 1 .. pos[k] : w[m][j] = w[k][j]
  <2> DEFINE Keeps(m) == pos[k] <= pos[m] /\ \A j \in 1 .. pos[k] : w[m][j] = w[k][j]
             B == {m \in k .. Len(c) : ~Keeps(m)}
  <2> SUFFICES ASSUME B # {} PROVE FALSE
    OBVIOUS
  <2>1. B \subseteq Nat
    BY <1>0
  <2> HIDE DEF B
  <2>2. PICK m \in B : \A j \in B : m <= j
    BY <2>1, Least
  <2> USE DEF B
  <2>3. Keeps(k)
    BY <1>9
  <2>4. m # k /\ m \in k .. Len(c)
    BY <2>2, <2>3
  <2>5. m \in 1 .. Len(c) /\ m - 1 \in k .. Len(c) /\ ~(m <= m - 1)
    BY <1>0, <2>4
  <2>6. Keeps(m - 1)
    BY <2>2, <2>5
  <2>7. pos[k] \in Nat /\ pos[m - 1] \in Nat /\ pos[m] \in Nat /\ pos[m - 1] <= pos[m]
    <3>1. /\ pos[m] = IF m \in at THEN (pos[m - 1] + 1) + 1 ELSE pos[m - 1] + 1
          /\ pos[m - 1] \in Nat
      BY <1>8, <2>5
    <3>2. pos[k] \in Nat
      BY <1>9
    <3>3. QED
      BY <3>1, <3>2
  <2>8. \A j \in 1 .. pos[m - 1] : w[m][j] = w[m - 1][j]
    BY <1>8, <2>5
  <2>9. Keeps(m)
    BY <2>6, <2>7, <2>8
  <2>10. QED
    BY <2>2, <2>9
<1>11. r \in Seq(S) /\ pos[Len(c)] = Len(r) /\ pos[0] = 0
  BY <1>0, <1>5, <1>7, <1>9
<1>12. ASSUME NEW k \in 0 .. Len(c)
       PROVE  pos[k] <= Len(r) /\ \A j \in 1 .. pos[k] : r[j] = w[k][j]
  <2>1. Len(c) \in k .. Len(c)
    BY <1>0
  <2>2. QED
    BY <1>10, <1>11, <2>1
<1>13. ASSUME NEW k \in 1 .. Len(c)
       PROVE  /\ pos[k] = IF k \in at THEN (pos[k - 1] + 1) + 1 ELSE pos[k - 1] + 1
              /\ r[pos[k]] = c[k] /\ (k \in at => r[pos[k - 1] + 1] = "ctx")
  <2>1. k \in 0 .. Len(c)
    BY <1>0
  <2>2. /\ pos[k] \in Nat /\ pos[k - 1] \in Nat
        /\ pos[k] = IF k \in at THEN (pos[k - 1] + 1) + 1 ELSE pos[k - 1] + 1
        /\ w[k][pos[k]] = c[k] /\ (k \in at => w[k][pos[k - 1] + 1] = "ctx")
    BY <1>8
  <2>3. pos[k] \in 1 .. pos[k] /\ pos[k - 1] + 1 \in 1 .. pos[k]
    BY <2>2
  <2>4. r[pos[k]] = w[k][pos[k]] /\ r[pos[k - 1] + 1] = w[k][pos[k - 1] + 1]
    BY <1>12, <2>1, <2>3
  <2>5. QED
    BY <2>2, <2>4
<1> HIDE DEF r
<1>14. Placed(c, at, r, pos)
  BY <1>9, <1>11, <1>12, <1>13 DEF Placed
<1>15. ASSUME at = {} PROVE r = c
  <2> DEFINE B == {k \in 0 .. Len(c) : pos[k] # k}
  <2>1. B = {}
    <3> SUFFICES ASSUME B # {} PROVE FALSE
      OBVIOUS
    <3>1. B \subseteq Nat
      BY <1>0
    <3> HIDE DEF B
    <3>2. PICK k \in B : \A j \in B : k <= j
      BY <3>1, Least
    <3> USE DEF B
    <3>3. k # 0 /\ k \in 0 .. Len(c) /\ pos[k] # k
      BY <1>11, <3>2
    <3>4. k \in 1 .. Len(c) /\ k - 1 \in 0 .. Len(c) /\ ~(k <= k - 1)
      BY <1>0, <3>3
    <3>5. pos[k - 1] = k - 1
      BY <3>2, <3>4
    <3>6. pos[k] = pos[k - 1] + 1
      BY <1>13, <1>15, <3>4
    <3>7. QED
      BY <3>3, <3>4, <3>5, <3>6
  <2>2. \A k \in 0 .. Len(c) : pos[k] = k
    BY <2>1
  <2> HIDE DEF B
  <2>3. Len(r) = Len(c)
    <3>1. Len(c) \in 0 .. Len(c)
      BY <1>0
    <3>2. QED
      BY <1>11, <2>2, <3>1
  <2>4. ASSUME NEW k \in 1 .. Len(c) PROVE r[k] = c[k]
    <3>1. k \in 0 .. Len(c)
      BY <1>0
    <3>2. QED
      BY <1>13, <2>2, <3>1
  <2>5. QED
    BY <1>11, <2>3, <2>4, SeqEqual
<1>16. QED
  BY <1>3, <1>11, <1>14, <1>15 DEF at, r

\* The tokens of c keep their order in r, and nothing but "ctx" comes in between.
Grows(c, at, r, pos) ==
    /\ \A k, m \in 0 .. Len(c) : k < m => pos[k] < pos[m]
    /\ \A y \in 1 .. Len(r) : \E k \in 1 .. Len(c) : y = pos[k] \/ (k \in at /\ y = pos[k - 1] + 1)
\* They are as deep in quotes and braces as they were.
Nests(c, r, pos) ==
    \A k \in 1 .. Len(c) : /\ pos[k] \in 1 .. Len(r) /\ r[pos[k]] = c[k]
                           /\ Quoted(r, pos[k]) <=> Quoted(c, k)
                           /\ BraceDepth(r)[pos[k] - 1] = BraceDepth(c)[k - 1]

LEMMA PlacesGrow ==
    ASSUME NEW c, NEW at, NEW r, NEW pos, Len(c) \in Nat, Len(r) \in Nat, Placed(c, at, r, pos)
    PROVE  Grows(c, at, r, pos)
<1>1. \A k \in 0 .. Len(c) : pos[k] \in Nat /\ pos[k] <= Len(r)
  BY DEF Placed
<1>2. \A k \in 1 .. Len(c) : pos[k] = IF k \in at THEN (pos[k - 1] + 1) + 1 ELSE pos[k - 1] + 1
  BY DEF Placed
<1>3. ASSUME NEW k \in 0 .. Len(c) PROVE \A m \in k + 1 .. Len(c) : pos[k] < pos[m]
  <2> DEFINE B == {m \in k + 1 .. Len(c) : ~(pos[k] < pos[m])}
  <2> SUFFICES ASSUME B # {} PROVE FALSE
    OBVIOUS
  <2>1. B \subseteq Nat
    OBVIOUS
  <2> HIDE DEF B
  <2>2. PICK m \in B : \A j \in B : m <= j
    BY <2>1, Least
  <2> USE DEF B
  <2>3. m \in k + 1 .. Len(c) /\ m \in 1 .. Len(c) /\ ~(pos[k] < pos[m])
    BY <2>2
  <2>4. pos[m - 1] < pos[m]
    <3>1. m - 1 \in 0 .. Len(c)
      BY <2>3
    <3>2. pos[m - 1] \in Nat
      BY <1>1, <3>1
    <3>3. pos[m] = IF m \in at THEN (pos[m - 1] + 1) + 1 ELSE pos[m - 1] + 1
      BY <1>2, <2>3
    <3>4. QED
      BY <3>2, <3>3
  <2>5. CASE m = k + 1
    <3>1. m - 1 = k
      BY <2>5
    <3>2. QED
      BY <2>3, <2>4, <3>1
  <2>6. CASE m # k + 1
    <3>1. m - 1 \in k + 1 .. Len(c) /\ ~(m <= m - 1)
      BY <2>3, <2>6
    <3>2. pos[k] < pos[m - 1]
      BY <2>2, <3>1
    <3>3. pos[k] \in Nat /\ pos[m - 1] \in Nat /\ pos[m] \in Nat
      BY <1>1, <2>3, <3>1
    <3>4. QED
      BY <2>3, <2>4, <3>2, <3>3
  <2>7. QED
    BY <2>5, <2>6
<1>4. ASSUME NEW y \in 1 .. Len(r)
      PROVE  \E k \in 1 .. Len(c) : y = pos[k] \/ (k \in at /\ y = pos[k - 1] + 1)
  <2> DEFINE B == {k \in 0 .. Len(c) : y <= pos[k]}
  <2>1. B \subseteq Nat /\ Len(c) \in B
    BY DEF Placed
  <2> HIDE DEF B
  <2>2. PICK k \in B : \A j \in B : k <= j
    BY <2>1, Least
  <2> USE DEF B
  <2>3. pos[0] = 0
    BY DEF Placed
  <2>4. k # 0 /\ k \in 0 .. Len(c) /\ y <= pos[k]
    BY <2>2, <2>3
  <2>5. k \in 1 .. Len(c) /\ k - 1 \in 0 .. Len(c) /\ ~(k <= k - 1)
    BY <2>4
  <2>6. ~(y <= pos[k - 1]) /\ pos[k - 1] \in Nat
    BY <1>1, <2>2, <2>5
  <2>7. pos[k] = IF k \in at THEN (pos[k - 1] + 1) + 1 ELSE pos[k - 1] + 1
    BY <1>2, <2>5
  <2>8. y = pos[k] \/ (k \in at /\ y = pos[k - 1] + 1)
    BY <2>4, <2>6, <2>7
  <2>9. QED
    BY <2>5, <2>8
<1>5. ASSUME NEW k \in 0 .. Len(c), NEW m \in 0 .. Len(c), k < m PROVE pos[k] < pos[m]
  <2>1. m \in k + 1 .. Len(c)
    BY <1>5
  <2>2. QED
    BY <1>3, <2>1
<1>6. QED
  BY <1>4, <1>5 DEF Grows

\* "ctx" opens no quote and no brace.
LEMMA PlacesNest ==
    ASSUME NEW c, NEW at, NEW r, NEW pos, Len(c) \in Nat, Len(r) \in Nat, Placed(c, at, r, pos)
    PROVE  Nests(c, r, pos)
<1> DEFINE Same(k) == /\ Quoted(r, pos[k] + 1) <=> Quoted(c, k + 1)
                      /\ BraceDepth(r)[pos[k]] = BraceDepth(c)[k]
           Before(k) == /\ Quoted(r, pos[k]) <=> Quoted(c, k)
                        /\ BraceDepth(r)[pos[k] - 1] = BraceDepth(c)[k - 1]
<1>1. \A k \in 0 .. Len(c) : pos[k] \in Nat /\ pos[k] <= Len(r)
  BY DEF Placed
<1>2. ASSUME NEW k \in 1 .. Len(c)
      PROVE  /\ pos[k] = IF k \in at THEN (pos[k - 1] + 1) + 1 ELSE pos[k - 1] + 1
             /\ r[pos[k]] = c[k] /\ (k \in at => r[pos[k - 1] + 1] = "ctx")
             /\ pos[k - 1] \in Nat /\ pos[k] \in 1 .. Len(r) /\ pos[k - 1] + 1 \in 1 .. Len(r)
  <2>1. /\ pos[k] = IF k \in at THEN (pos[k - 1] + 1) + 1 ELSE pos[k - 1] + 1
        /\ r[pos[k]] = c[k] /\ (k \in at => r[pos[k - 1] + 1] = "ctx")
    BY DEF Placed
  <2>2. k - 1 \in 0 .. Len(c) /\ k \in 0 .. Len(c)
    OBVIOUS
  <2>3. pos[k - 1] \in Nat /\ pos[k] \in Nat /\ pos[k] <= Len(r)
    BY <1>1, <2>2
  <2>4. QED
    BY <2>1, <2>3
<1>3. ASSUME NEW k \in 1 .. Len(c), Same(k - 1) PROVE Before(k)
  <2> DEFINE p == pos[k - 1]
             q == p + 1
  <2>1. (k - 1) + 1 = k
    OBVIOUS
  <2>2. (Quoted(r, q) <=> Quoted(c, k)) /\ BraceDepth(r)[p] = BraceDepth(c)[k - 1]
    BY <1>3, <2>1
  <2>3. p \in Nat /\ q \in 1 .. Len(r) /\ q \in Nat /\ q > 0 /\ q - 1 = p
    BY <1>2
  <2>4. CASE k \notin at
    <3>1. pos[k] = q
      BY <1>2, <2>4
    <3>2. QED
      BY <2>2, <2>3, <3>1
  <2>5. CASE k \in at
    <3>1. pos[k] = q + 1 /\ r[q] = "ctx" /\ (q + 1) - 1 = q
      BY <1>2, <2>3, <2>5
    <3> HIDE DEF q, p
    <3>2. r[q] # QuoteMark /\ r[q] # LeftBrace /\ r[q] # RightBrace
      BY <3>1, Tokens
    <3>3. Quoted(r, q + 1) <=> Quoted(r, q)
      BY <2>3, <3>2, QuotedFlips
    <3>4. BraceDepth(r)[q] = BraceDepth(r)[q - 1]
      BY <2>3, <3>2, DepthBy
    <3>5. QED
      BY <2>2, <2>3, <3>1, <3>3, <3>4
  <2>6. QED
    BY <2>4, <2>5
<1>4. ASSUME NEW k \in 1 .. Len(c), Before(k) PROVE Same(k)
  <2> DEFINE p == pos[k]
  <2>1. p \in 1 .. Len(r) /\ p \in Nat /\ p > 0 /\ r[p] = c[k] /\ k \in Nat /\ k > 0
    BY <1>2
  <2>2. (Quoted(r, p) <=> Quoted(c, k)) /\ BraceDepth(r)[p - 1] = BraceDepth(c)[k - 1]
    BY <1>4
  <2> HIDE DEF p
  <2>3. Quoted(r, p + 1) <=> Quoted(c, k + 1)
    <3>1. Quoted(r, p + 1) <=> IF r[p] = QuoteMark THEN ~Quoted(r, p) ELSE Quoted(r, p)
      BY <2>1, QuotedFlips
    <3>2. Quoted(c, k + 1) <=> IF c[k] = QuoteMark THEN ~Quoted(c, k) ELSE Quoted(c, k)
      BY <2>1, QuotedFlips
    <3>3. QED
      BY <2>1, <2>2, <3>1, <3>2
  <2>4. BraceDepth(r)[p] = BraceDepth(c)[k]
    <3>1. BraceDepth(r)[p] = IF Quoted(r, p) THEN BraceDepth(r)[p - 1]
                             ELSE IF r[p] = LeftBrace THEN BraceDepth(r)[p - 1] + 1
                             ELSE IF r[p] = RightBrace /\ BraceDepth(r)[p - 1] > 0
                             THEN BraceDepth(r)[p - 1] - 1 ELSE BraceDepth(r)[p - 1]
      BY <2>1, DepthBy
    <3>2. BraceDepth(c)[k] = IF Quoted(c, k) THEN BraceDepth(c)[k - 1]
                             ELSE IF c[k] = LeftBrace THEN BraceDepth(c)[k - 1] + 1
                             ELSE IF c[k] = RightBrace /\ BraceDepth(c)[k - 1] > 0
                             THEN BraceDepth(c)[k - 1] - 1 ELSE BraceDepth(c)[k - 1]
      BY DepthBy
    <3>3. QED
      BY <2>1, <2>2, <3>1, <3>2
  <2>5. QED
    BY <2>3, <2>4 DEF p
<1>5. Same(0)
  <2>1. pos[0] = 0
    BY DEF Placed
  <2>2. BraceDepth(r)[0] = 0 /\ BraceDepth(c)[0] = 0
    BY DepthBy
  <2>3. ~Quoted(r, 0 + 1) /\ ~Quoted(c, 0 + 1)
    BY QuotedFlips
  <2>4. QED
    BY <2>1, <2>2, <2>3
<1> HIDE DEF Same, Before
<1>6. \A k \in 0 .. Len(c) : Same(k)
  <2> DEFINE B == {k \in 0 .. Len(c) : ~Same(k)}
  <2> SUFFICES ASSUME B # {} PROVE FALSE
    OBVIOUS
  <2>1. B \subseteq Nat
    OBVIOUS
  <2> HIDE DEF B
  <2>2. PICK k \in B : \A j \in B : k <= j
    BY <2>1, Least
  <2> USE DEF B
  <2>3. k # 0 /\ k \in 0 .. Len(c)
    BY <1>5, <2>2
  <2>4. k \in 1 .. Len(c) /\ k - 1 \in 0 .. Len(c) /\ ~(k <= k - 1)
    BY <2>3
  <2>5. Same(k - 1)
    BY <2>2, <2>4
  <2>6. Same(k)
    BY <1>3, <1>4, <2>4, <2>5
  <2>7. QED
    BY <2>2, <2>6
<1>7. ASSUME NEW k \in 1 .. Len(c) PROVE Before(k)
  <2>1. k - 1 \in 0 .. Len(c)
    OBVIOUS
  <2>2. QED
    BY <1>3, <1>6, <2>1
<1>8. QED
  BY <1>2, <1>7 DEF Before, Nests

\* The rewritten line falls apart where the line did.
SplitsAlike(c, r, pos) ==
    /\ \A k \in 1 .. Len(c) : pos[k] \in Splits(r) <=> k \in Splits(c)
    /\ \A y \in Splits(r) : \E k \in Splits(c) : y = pos[k]
    /\ \A y \in Heads(r) : \E h \in Heads(c) : y = pos[h]

LEMMA PlacesSplit ==
    ASSUME NEW c, NEW at, NEW r, NEW pos, Len(c) \in Nat, Len(r) \in Nat, Placed(c, at, r, pos)
    PROVE  SplitsAlike(c, r, pos)
<1>5. Nests(c, r, pos)
  BY PlacesNest
<1>6. Grows(c, at, r, pos)
  BY PlacesGrow
<1>1. \A k \in 1 .. Len(c) : pos[k] \in Splits(r) <=> k \in Splits(c)
  <2> SUFFICES ASSUME NEW k \in 1 .. Len(c) PROVE pos[k] \in Splits(r) <=> k \in Splits(c)
    OBVIOUS
  <2> DEFINE p == pos[k]
  <2>1. /\ p \in 1 .. Len(r) /\ r[p] = c[k] /\ (Quoted(r, p) <=> Quoted(c, k))
        /\ BraceDepth(r)[p - 1] = BraceDepth(c)[k - 1]
    BY <1>5 DEF Nests
  <2> HIDE DEF p
  <2>2. p \in Splits(r) <=> k \in Splits(c)
    BY <2>1, SplitsAt
  <2>3. QED
    BY <2>2 DEF p
<1>2. ASSUME NEW y \in Splits(r) PROVE \E k \in Splits(c) : y = pos[k]
  <2>1. y \in 1 .. Len(r) /\ r[y] \in Chain
    BY SplitsAt
  <2>2. PICK k \in 1 .. Len(c) : y = pos[k] \/ (k \in at /\ y = pos[k - 1] + 1)
    BY <1>6, <2>1 DEF Grows
  <2>3. y = pos[k]
    <3>1. k \in at => r[pos[k - 1] + 1] = "ctx"
      BY DEF Placed
    <3>2. "ctx" \notin Chain
      BY Tokens
    <3>3. QED
      BY <2>1, <2>2, <3>1, <3>2
  <2>4. k \in Splits(c)
    BY <1>1, <2>2, <2>3
  <2>5. QED
    BY <2>3, <2>4
<1>3. ASSUME NEW y \in Heads(r) PROVE \E h \in Heads(c) : y = pos[h]
  <2>1. CASE y = 0
    <3>1. pos[0] = 0
      BY DEF Placed
    <3>2. QED
      BY <2>1, <3>1 DEF Heads
  <2>2. CASE y # 0
    <3>1. y \in Splits(r)
      BY <2>2 DEF Heads
    <3>2. QED
      BY <1>2, <3>1 DEF Heads
  <2>3. QED
    BY <2>1, <2>2
<1>4. QED
  BY <1>1, <1>2, <1>3 DEF SplitsAlike

LEMMA PlacesEnd ==
    ASSUME NEW c, NEW at, NEW r, NEW pos, NEW h \in Heads(c), Len(c) \in Nat, Len(r) \in Nat,
           Placed(c, at, r, pos)
    PROVE  EndOf(r, pos[h]) = IF EndOf(c, h) \in Splits(c) THEN pos[EndOf(c, h)] ELSE Len(r) + 1
<1> DEFINE e == EndOf(c, h)
           end == IF e \in Splits(c) THEN pos[e] ELSE Len(r) + 1
<1>9. Grows(c, at, r, pos)
  BY PlacesGrow
<1>10. SplitsAlike(c, r, pos)
  BY PlacesSplit
<1>1. /\ h \in 0 .. Len(c) /\ e \in Splits(c) \cup {Len(c) + 1} /\ e > h
      /\ \A x \in Splits(c) : x > h => e <= x
  BY EndOfIs
<1> HIDE DEF e
<1>2. Splits(c) \subseteq 1 .. Len(c) /\ Splits(c) \subseteq 0 .. Len(c)
  BY SplitsAt
<1>3. \A k \in 0 .. Len(c) : pos[k] \in Nat /\ pos[k] <= Len(r)
  BY DEF Placed
<1>4. pos[h] \in Heads(r)
  <2>1. CASE h = 0
    <3>1. pos[0] = 0
      BY DEF Placed
    <3>2. QED
      BY <2>1, <3>1 DEF Heads
  <2>2. CASE h # 0
    <3>1. h \in Splits(c)
      BY <2>2 DEF Heads
    <3>2. QED
      BY <1>2, <3>1, <1>10 DEF Heads, SplitsAlike
  <2>3. QED
    BY <2>1, <2>2
<1>5. end \in Splits(r) \cup {Len(r) + 1} /\ end > pos[h]
  <2>1. CASE e \in Splits(c)
    <3>1. pos[e] \in Splits(r)
      BY <1>2, <2>1, <1>10 DEF SplitsAlike
    <3>2. pos[h] < pos[e]
      BY <1>1, <1>2, <2>1, <1>9 DEF Grows
    <3>3. pos[h] \in Nat /\ pos[e] \in Nat
      BY <1>1, <1>2, <1>3, <2>1
    <3>4. QED
      BY <2>1, <3>1, <3>2, <3>3
  <2>2. CASE e \notin Splits(c)
    BY <1>1, <1>3, <2>2
  <2>3. QED
    BY <2>1, <2>2
<1>6. ASSUME NEW z \in Splits(r), z > pos[h] PROVE end <= z
  <2>1. PICK k \in Splits(c) : z = pos[k]
    BY <1>10 DEF SplitsAlike
  <2>2. k \in 0 .. Len(c) /\ pos[k] \in Nat /\ pos[h] \in Nat
    BY <1>1, <1>2, <1>3
  <2>3. k > h
    <3>1. CASE k = h
      BY <1>6, <2>1, <2>2, <3>1
    <3>2. CASE k < h
      <4>1. pos[k] < pos[h]
        BY <1>1, <2>2, <3>2, <1>9 DEF Grows
      <4>2. QED
        BY <1>6, <2>1, <2>2, <4>1
    <3>3. QED
      BY <1>1, <2>2, <3>1, <3>2
  <2>4. e <= k
    BY <1>1, <2>3
  <2>5. e \in Splits(c)
    BY <1>1, <2>2, <2>4
  <2>6. e \in 0 .. Len(c) /\ pos[e] \in Nat
    BY <1>2, <1>3, <2>5
  <2>7. pos[e] <= pos[k]
    <3>1. CASE e = k
      BY <2>2, <3>1
    <3>2. CASE e # k
      <4>1. e < k
        BY <2>2, <2>4, <2>6, <3>2
      <4>2. pos[e] < pos[k]
        BY <2>2, <2>6, <4>1, <1>9 DEF Grows
      <4>3. QED
        BY <2>2, <2>6, <4>2
    <3>3. QED
      BY <3>1, <3>2
  <2>8. QED
    BY <2>1, <2>5, <2>7
<1> HIDE DEF end
<1>7. end = EndOf(r, pos[h])
  BY <1>4, <1>5, <1>6, EndOfIs
<1>8. QED
  BY <1>7 DEF end, e

\* A line that was rewritten is not rewritten again.
LEMMA PrefixedOnce ==
    ASSUME NEW S, "ctx" \in S, NEW c \in Seq(S)
    PROVE  RewriteCommand(RewriteCommand(c)) = RewriteCommand(c)
<1> DEFINE at == Prefixed(c)
           r == RewriteCommand(c)
<1>1. r \in Seq(S) /\ (at = {} => r = c) /\ \E pos : Placed(c, at, r, pos)
  BY RewritePlaces
<1>2. PICK pos : Placed(c, at, r, pos)
  BY <1>1
<1>3. Len(c) \in Nat /\ Len(r) \in Nat
  BY <1>1, LenProperties
<1>10. Nests(c, r, pos)
  BY <1>2, <1>3, PlacesNest
<1>11. Grows(c, at, r, pos)
  BY <1>2, <1>3, PlacesGrow
<1>12. SplitsAlike(c, r, pos)
  BY <1>2, <1>3, PlacesSplit
<1>4. \A h : at # {} /\ Chosen(c, h) => h + 1 \in at
  BY DEF Prefixed, Chosen
<1>5. \A k \in at : \E h : Chosen(c, h) /\ k = h + 1
  BY DEF Prefixed, Chosen
<1>6. \A y \in Prefixed(r) : \E z : Chosen(r, z)
  BY DEF Prefixed, Chosen
<1> HIDE DEF at, r
<1>7. at # {} => Prefixed(r) = {}
  <2> SUFFICES ASSUME at # {}, NEW z, Chosen(r, z) PROVE FALSE
    BY <1>6
  <2>1. z \in Heads(r) /\ ~PrecededByPipe(r, z) /\ ~FollowedByPipe(r, z) /\ Eligible(Program(r, z))
    BY DEF Chosen
  <2>2. PICK h \in Heads(c) : z = pos[h]
    BY <1>3, <2>1, <1>12 DEF SplitsAlike
  <2>3. h \in 0 .. Len(c) /\ \A k \in 0 .. Len(c) : pos[k] \in Nat
    BY <1>2, <1>3, EndOfIs DEF Placed
  <2>4. /\ z + 1 \in 1 .. Len(r) /\ r[z + 1] \in {QuoteMark, "git"}
        /\ Words(r, z) # {} /\ r[FirstWord(r, z)] = "git"
    BY <1>3, <2>1, ToolSegment
  <2>5. h + 1 \notin at
    <3> SUFFICES ASSUME h + 1 \in at PROVE FALSE
      OBVIOUS
    <3> DEFINE k == h + 1
    <3>1. PICK g : Chosen(c, g) /\ k = g + 1
      BY <1>5
    <3>2. g \in Heads(c) /\ Eligible(Program(c, g))
      BY <3>1 DEF Chosen
    <3>3. k \in 1 .. Len(c)
      BY <1>3, <3>1, <3>2, ToolSegment
    <3>4. k - 1 = h
      BY <2>3
    <3>5. r[pos[k - 1] + 1] = "ctx"
      BY <1>2, <3>3 DEF Placed
    <3>6. r[z + 1] = "ctx"
      BY <2>2, <3>4, <3>5
    <3>7. QED
      BY <2>4, <3>6, Tokens
  <2> DEFINE e == EndOf(c, h)
             f == EndOf(r, z)
  <2>6. e \in Splits(c) \cup {Len(c) + 1} /\ e > h /\ \A x \in Splits(c) : x > h => e <= x
    BY <1>3, EndOfIs
  <2>7. f = IF e \in Splits(c) THEN pos[e] ELSE Len(r) + 1
    BY <1>2, <1>3, <2>2, PlacesEnd
  <2>8. Splits(c) \subseteq 1 .. Len(c)
    BY <1>3, SplitsAt
  <2>9. ~FollowedByPipe(c, h)
    <3> SUFFICES ASSUME e <= Len(c), c[e] = "|" PROVE FALSE
      BY DEF FollowedByPipe
    <3>1. e \in Splits(c) /\ e \in 1 .. Len(c)
      BY <1>3, <2>6, <2>8
    <3>2. pos[e] \in 1 .. Len(r) /\ r[pos[e]] = c[e]
      BY <1>3, <3>1, <1>10 DEF Nests
    <3>3. f <= Len(r) /\ r[f] = "|"
      BY <1>3, <2>7, <3>1, <3>2
    <3>4. QED
      BY <2>1, <3>3 DEF FollowedByPipe
  <2>10. ~PrecededByPipe(c, h)
    <3> SUFFICES ASSUME h > 0, c[h] = "|" PROVE FALSE
      BY DEF PrecededByPipe
    <3>1. h \in 1 .. Len(c)
      BY <2>3
    <3>2. pos[h] \in 1 .. Len(r) /\ r[pos[h]] = c[h]
      BY <1>3, <3>1, <1>10 DEF Nests
    <3>3. z > 0 /\ r[z] = "|"
      BY <2>2, <3>2
    <3>4. QED
      BY <2>1, <3>3 DEF PrecededByPipe
  <2>11. \A k \in 1 .. Len(c) : k \in Splits(c) => k <= h \/ k >= e
    BY <2>3, <2>6
  <2>12. e \in 1 .. Len(c) + 1
    BY <1>3, <2>6, <2>8
  <2> HIDE DEF e, f
  <2>13. \A k \in h + 1 .. e - 1 : k \notin at
    <3> SUFFICES ASSUME NEW k \in h + 1 .. e - 1, k \in at PROVE FALSE
      OBVIOUS
    <3>1. PICK g : Chosen(c, g) /\ k = g + 1
      BY <1>5
    <3>2. g \in Heads(c) /\ g \in 0 .. Len(c)
      BY <1>3, <3>1, EndOfIs DEF Chosen
    <3>3. g # h
      BY <2>5, <3>1
    <3>4. g > h /\ g < e /\ g # 0
      BY <2>3, <2>12, <3>1, <3>2, <3>3
    <3>5. g \in Splits(c)
      BY <3>2, <3>4 DEF Heads
    <3>6. QED
      BY <2>6, <2>12, <3>2, <3>4, <3>5
  <2>14. ASSUME NEW k \in 1 .. Len(c) PROVE pos[k] \in z + 1 .. f - 1 <=> k \in h + 1 .. e - 1
    <3>1. k \in 0 .. Len(c) /\ pos[k] \in Nat /\ pos[h] \in Nat /\ pos[k] <= Len(r)
      BY <1>2, <2>3 DEF Placed
    <3>2. (k > h => pos[k] > pos[h]) /\ (k < h => pos[k] < pos[h])
      BY <1>3, <2>3, <3>1, <1>11 DEF Grows
    <3>3. pos[k] > z <=> k > h
      <4>1. k > h \/ k < h \/ k = h
        BY <2>3
      <4>2. QED
        BY <2>2, <3>1, <3>2, <4>1
    <3>4. pos[k] < f <=> k < e
      <4>1. CASE e \in Splits(c)
        <5>1. e \in 0 .. Len(c) /\ f = pos[e] /\ pos[e] \in Nat
          BY <2>3, <2>7, <2>8, <4>1
        <5>2. (k > e => pos[k] > pos[e]) /\ (k < e => pos[k] < pos[e])
          BY <1>3, <3>1, <5>1, <1>11 DEF Grows
        <5>3. k > e \/ k < e \/ k = e
          BY <5>1
        <5>4. QED
          BY <3>1, <5>1, <5>2, <5>3
      <4>2. CASE e \notin Splits(c)
        <5>1. e = Len(c) + 1 /\ f = Len(r) + 1
          BY <2>6, <2>7, <4>2 DEF e
        <5>2. QED
          BY <1>3, <3>1, <5>1
      <4>3. QED
        BY <4>1, <4>2
    <3>5. f \in Nat
      <4>1. CASE e \in Splits(c)
        BY <2>3, <2>7, <2>8, <4>1
      <4>2. CASE e \notin Splits(c)
        BY <1>3, <2>7, <4>2
      <4>3. QED
        BY <4>1, <4>2
    <3>6. QED
      BY <2>2, <2>3, <2>12, <3>1, <3>3, <3>4, <3>5
  <2>15. ASSUME NEW k \in Words(c, h) PROVE k \in 1 .. Len(c) /\ pos[k] \in Words(r, z)
    <3>1. k \in h + 1 .. e - 1 /\ c[k] # QuoteMark
      BY DEF Words, e
    <3>2. k \in 1 .. Len(c)
      BY <1>3, <2>3, <2>12, <3>1
    <3>3. r[pos[k]] = c[k]
      BY <1>3, <3>2, <1>10 DEF Nests
    <3>4. QED
      BY <2>14, <3>1, <3>2, <3>3 DEF Words, f
  <2>16. PICK w \in Words(c, h) : pos[w] = FirstWord(r, z)
    <3> DEFINE y == FirstWord(r, z)
    <3>1. y \in Words(r, z) /\ z \in Nat
      BY <1>3, <2>1, <2>2, <2>3, <2>4, FirstWordIs
    <3> HIDE DEF y
    <3>2. y \in z + 1 .. f - 1 /\ r[y] # QuoteMark
      BY <3>1 DEF Words, f
    <3>3. f \in 1 .. Len(r) + 1
      BY <1>3, <2>1, EndOfIs DEF f
    <3>4. y \in 1 .. Len(r)
      BY <1>3, <3>1, <3>2, <3>3
    <3>5. PICK k \in 1 .. Len(c) : y = pos[k] \/ (k \in at /\ y = pos[k - 1] + 1)
      BY <1>3, <3>4, <1>11 DEF Grows
    <3>6. k \in h + 1 .. e - 1
      <4>1. CASE y = pos[k]
        BY <2>14, <3>2, <3>5, <4>1
      <4>2. CASE k \in at /\ y = pos[k - 1] + 1
        <5>1. k - 1 \in 0 .. Len(c) /\ k \in 0 .. Len(c)
          OBVIOUS
        <5>2. pos[k] = y + 1
          BY <1>2, <4>2 DEF Placed
        <5>3. pos[h] \in Nat /\ pos[k - 1] \in Nat /\ z = pos[h]
          BY <2>2, <2>3, <5>1
        <5>4. y + 1 > z + 1 /\ y + 1 <= f
          BY <3>1, <3>2, <3>3
        <5>5. h < k
          <6> SUFFICES ASSUME ~(h < k) PROVE FALSE
            OBVIOUS
          <6>1. k = h \/ k < h
            BY <2>3
          <6>2. k < h => pos[k] < pos[h]
            BY <1>3, <2>3, <5>1, <1>11 DEF Grows
          <6>3. pos[k] <= pos[h]
            BY <2>3, <5>1, <6>1, <6>2
          <6>4. QED
            BY <5>2, <5>3, <5>4, <3>1, <3>2, <6>3
        <5>6. k < e
          <6> SUFFICES ASSUME ~(k < e) PROVE FALSE
            OBVIOUS
          <6>1. e \in Splits(c)
            BY <1>3, <2>6, <2>12, <5>1 DEF e
          <6>2. e \in 0 .. Len(c) /\ f = pos[e] /\ r[pos[e]] = c[e] /\ c[e] \in Chain
            BY <1>3, <2>7, <2>8, <6>1, <1>10, SplitsAt DEF Nests
          <6>3. e < k => pos[e] < pos[k]
            BY <1>3, <5>1, <6>2, <1>11 DEF Grows
          <6>4. e = k
            <7> SUFFICES ASSUME e < k PROVE FALSE
              BY <2>12, <5>1
            <7>1. e = k - 1 \/ e < k - 1
              BY <2>12, <5>1
            <7>2. e < k - 1 => pos[e] < pos[k - 1]
              BY <1>3, <5>1, <6>2, <1>11 DEF Grows
            <7>3. pos[e] <= pos[k - 1] /\ pos[e] \in Nat
              BY <2>3, <5>1, <6>2, <7>1, <7>2
            <7>4. QED
              BY <4>2, <5>3, <5>4, <6>2, <7>3
          <6>5. PICK g : Chosen(c, g) /\ k = g + 1
            BY <1>5, <4>2
          <6>6. c[k] \in {QuoteMark, "git"}
            BY <1>3, <6>5, ToolSegment DEF Chosen
          <6>7. QED
            BY <6>2, <6>4, <6>6, Tokens
        <5>7. QED
          BY <2>3, <2>12, <5>1, <5>5, <5>6
      <4>3. QED
        BY <3>5, <4>1, <4>2
    <3>7. y = pos[k]
      BY <2>13, <3>5, <3>6
    <3>8. r[pos[k]] = c[k]
      BY <1>3, <3>5, <1>10 DEF Nests
    <3>9. k \in Words(c, h)
      BY <3>2, <3>6, <3>7, <3>8 DEF Words, e
    <3>10. QED
      BY <3>7, <3>9 DEF y
  <2>17. \A j \in Words(c, h) : w <= j
    <3> SUFFICES ASSUME NEW j \in Words(c, h), ~(w <= j) PROVE FALSE
      OBVIOUS
    <3>1. j \in 1 .. Len(c) /\ w \in 1 .. Len(c) /\ pos[j] \in Words(r, z)
      BY <2>15, <2>16
    <3>2. j < w /\ j \in 0 .. Len(c) /\ w \in 0 .. Len(c)
      BY <3>1
    <3>3. pos[j] < pos[w]
      BY <1>3, <3>2, <1>11 DEF Grows
    <3>4. pos[w] <= pos[j]
      BY <1>3, <2>1, <2>4, <2>16, <3>1, FirstWordIs
    <3>5. pos[w] \in Nat /\ pos[j] \in Nat
      BY <2>3, <3>2
    <3>6. QED
      BY <3>3, <3>4, <3>5
  <2>18. w = FirstWord(c, h) /\ Words(c, h) # {}
    BY <1>3, <2>16, <2>17, FirstWordIs
  <2>19. c[w] = "git"
    <3>1. w \in 1 .. Len(c)
      BY <2>15, <2>16
    <3>2. r[pos[w]] = c[w]
      BY <1>3, <3>1, <1>10 DEF Nests
    <3>3. QED
      BY <2>4, <2>16, <3>2
  <2>20. Eligible(Program(c, h))
    BY <2>18, <2>19 DEF Eligible, Program
  <2>21. QED
    BY <1>4, <2>2, <2>5, <2>9, <2>10, <2>20 DEF Chosen
<1>8. Prefixed(r) = {}
  BY <1>1, <1>7 DEF at
<1>9. QED
  BY <1>1, <1>8, RewritePlaces DEF r

\* Only a call of the shell is rewritten, and it is allowed if it is not.
LEMMA Decisions ==
    ASSUME NEW in \in Calls
    PROVE  /\ in.command \in Seq(STRING)
           /\ Decide(in).decision = "rewrite" =>
                 in.tool = "shell" /\ Decide(in).command = RewriteCommand(in.command)
           /\ in.tool = "shell" => Decide(in).decision \in {"allow", "rewrite"}
<1>1. in.command \in Seq(STRING) /\ (in.tool = "shell" => in.target = "none")
  BY CallsAssumption
<1>2. Allow.decision = "allow" /\ [Allow EXCEPT !.hint = TRUE].decision = "allow"
  BY DEF Allow
<1>3. /\ DecideShell(in).decision \in {"allow", "rewrite"}
      /\ DecideShell(in).decision = "rewrite" => DecideShell(in).command = RewriteCommand(in.command)
  BY <1>2 DEF DecideShell
<1>4. GovernDirectTool(in).decision # "rewrite" /\ (in.tool = "shell" => GovernDirectTool(in) = Allow)
  <2>1. [Allow EXCEPT !.decision = "deny", !.kind = "denied_large_reads"].decision = "deny"
    BY DEF Allow
  <2>2. [Allow EXCEPT !.decision = "suggest", !.kind = "suggested_broad_searches",
                      !.hint = TRUE].decision = "suggest"
    BY DEF Allow
  <2>3. QED
    BY <1>2, <2>1, <2>2 DEF GovernDirectTool
<1>5. GovernPrompt(in).decision # "rewrite" /\ (in.target = "none" => GovernPrompt(in) = Allow)
  <2>1. [Allow EXCEPT !.decision = "deny", !.kind = "denied_large_prompts"].decision = "deny"
    BY DEF Allow
  <2>2. [Allow EXCEPT !.decision = "suggest", !.kind = "suggested_large_prompts",
                      !.hint = TRUE].decision = "suggest"
    BY DEF Allow
  <2>3. [Allow EXCEPT !.decision = "suggest", !.hint = TRUE].decision = "suggest"
    BY DEF Allow
  <2>4. QED
    BY <1>2, <2>1, <2>2, <2>3 DEF GovernPrompt
<1>6. CASE in.host = "claude"
  <2>1. Decide(in) = IF in.tool = "shell" /\ in.command # <<>> THEN DecideShell(in) ELSE Allow
    BY <1>6 DEF Decide, DecideClaude
  <2>2. QED
    BY <1>1, <1>2, <1>3, <2>1
<1>7. CASE in.host # "claude"
  <2>1. /\ Decide(in) \in {DecideShell(in), GovernDirectTool(in), GovernPrompt(in),
                           [Allow EXCEPT !.hint = TRUE], Allow}
        /\ Decide(in) = DecideShell(in) \/ Decide(in).decision # "rewrite"
        /\ in.tool # "shell" => Decide(in).decision # "rewrite"
    BY <1>2, <1>4, <1>5, <1>7 DEF Decide, DecideCopilot
  <2>2. QED
    BY <1>1, <1>2, <1>3, <1>4, <1>5, <2>1
<1>8. QED
  BY <1>6, <1>7

HookInv == /\ call \in Calls /\ (stdin = "open" => verdict = Undecided)
           /\ HookHarmless

LEMMA HookInitInv == HookInit => HookInv
  BY DEF HookInit, HookInv, HookHarmless

LEMMA AnswerInv == ASSUME HookInv, Answer PROVE HookInv'
<1>1. call \in Calls /\ call' = call /\ got' = got /\ stdin # "open" /\ stdin' = stdin
  BY DEF HookInv, Answer
<1>2. verdict' = IF got = Chunks THEN Decide(call) ELSE Allow
  BY DEF Answer
<1> DEFINE c == call.command
<1>3. /\ c \in Seq(STRING)
      /\ verdict'.decision = "rewrite" =>
            got = Chunks /\ call.tool = "shell" /\ verdict'.command = RewriteCommand(c)
      /\ call.tool = "shell" => verdict'.decision \in {"allow", "rewrite"}
  <2>1. Allow.decision = "allow"
    BY DEF Allow
  <2>2. QED
    BY <1>1, <1>2, <2>1, Decisions
<1> HIDE DEF c
<1>4. Len(c) \in Nat
  BY <1>3, LenProperties
<1>5. \A shell \in Shells : Plain(shell, c) =>
         LET sh == Shell(shell, c)
         IN \A i \in Prefixed(c) : CommandWord(sh, i) /\ ~OutputGoesOn(sh, i)
  BY <1>4, PrefixHarmless
<1>6. RewriteCommand(RewriteCommand(c)) = RewriteCommand(c)
  <2> DEFINE S == STRING \cup {"ctx"}
  <2>1. c \in Seq(S)
    <3>1. Len(c) \in Nat /\ c \in [1 .. Len(c) -> STRING]
      BY <1>3, <1>4
    <3>2. c \in [1 .. Len(c) -> S]
      BY <3>1
    <3> HIDE DEF S
    <3>3. QED
      BY <1>4, <3>2, SeqDef
  <2>2. "ctx" \in S
    OBVIOUS
  <2> HIDE DEF S
  <2>3. QED
    BY <2>1, <2>2, PrefixedOnce
<1>7. HookHarmless'
  BY <1>1, <1>3, <1>5, <1>6 DEF HookHarmless, c
<1>8. QED
  BY <1>1, <1>7 DEF HookInv

LEMMA HookNextInv == ASSUME HookInv, [HookNext]_hookVars PROVE HookInv'
<1>1. CASE ReadData
  BY <1>1 DEF HookInv, ReadData, HookHarmless
<1>2. CASE Settle
  BY <1>2 DEF HookInv, Settle, HookHarmless
<1>3. CASE Answer
  BY <1>3, AnswerInv
<1>4. CASE UNCHANGED hookVars
  BY <1>4 DEF HookInv, hookVars, HookHarmless
<1>5. QED
  BY <1>1, <1>2, <1>3, <1>4 DEF HookNext

THEOREM HarmlessHook == HookSpec => []HookHarmless
<1>1. HookInv => HookHarmless
  BY DEF HookInv
<1>2. QED
  BY <1>1, HookInitInv, HookNextInv, PTL DEF HookSpec

=============================================================================
