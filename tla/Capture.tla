------------------------------ MODULE Capture ------------------------------
(***************************************************************************)
(* What ctx holds of the output of a wrapped tool (executor.ts,            *)
(* executeCommand): two streams that arrive in chunks of any size, each    *)
(* kept up to a cap, and decoded when both are closed.                     *)
(*   written   stream |-> the bytes the tool writes                        *)
(*   sent      stream |-> how many of them have arrived                    *)
(*   kept      stream |-> the buffer                                       *)
(*   cut       stream |-> the stream has hit the cap                       *)
(*   resolved  NoText, or what the promise resolved to                     *)
(* A byte is "ascii", a lead byte that announces n bytes, or "more", a     *)
(* continuation byte; "mark" is the lead byte of the byte order mark.      *)
(***************************************************************************)
EXTENDS Naturals, Sequences

CONSTANTS
    MaxCapture, \* MAX_CAPTURE_BYTES
    Outputs     \* what a tool may write to a stream

Byte == {"ascii", "lead2", "lead3", "lead4", "mark", "more"}
ASSUME CaptureAssumption == MaxCapture \in Nat /\ Outputs \subseteq Seq(Byte)

Streams == {"stdout", "stderr"}
NoText == [kind |-> "none"]

VARIABLES written, sent, kept, cut, resolved
captureVars == <<written, sent, kept, cut, resolved>>

Announced(b) == CASE b = "ascii" -> 1 [] b = "lead2" -> 2 [] b \in {"lead3", "mark"} -> 3
                  [] b = "lead4" -> 4 [] OTHER -> 0
Prefix(s, n) == SubSeq(s, 1, IF n < Len(s) THEN n ELSE Len(s))

\* TextDecoder with fatal: whole characters from one end to the other.
Utf8(s) ==
    /\ \A i \in 1 .. Len(s) : Announced(s[i]) > 0 =>
          /\ i + Announced(s[i]) - 1 <= Len(s)
          /\ \A j \in i + 1 .. i + Announced(s[i]) - 1 : s[j] = "more"
    /\ \A i \in 1 .. Len(s) : s[i] = "more" =>
          \E l \in 1 .. i - 1 : /\ l + Announced(s[l]) - 1 >= i
                                /\ \A j \in l + 1 .. i : s[j] = "more"

\* A lead byte among the last three whose character overruns the end goes, with all
\* after it; anything else stays as it is.
TrimIncompleteTail(s) ==
    LET leads == {i \in 1 .. Len(s) : i > Len(s) - 3 /\ s[i] # "more"}
        last == CHOOSE i \in leads : \A j \in leads : j <= i
    IN IF leads = {} \/ Announced(s[last]) <= Len(s) - last + 1 THEN s
       ELSE Prefix(s, last - 1)

\* What TextDecoder makes of UTF-8: a byte order mark at the start is gone.
Unmarked(s) == IF s # <<>> /\ s[1] = "mark" THEN SubSeq(s, 4, Len(s)) ELSE s

\* decodeChildOutput: strict UTF-8, or else the code page of the console, or, where there is
\* none, UTF-8 with what is broken replaced.
Decode(s, codePage) ==
    IF Utf8(s) THEN [as |-> "utf8", bytes |-> Unmarked(s)]
    ELSE [as |-> IF codePage THEN "legacy" ELSE "lossy", bytes |-> s]

CaptureInit ==
    /\ written \in [Streams -> Outputs]
    /\ sent = [s \in Streams |-> 0]
    /\ kept = [s \in Streams |-> <<>>]
    /\ cut = [s \in Streams |-> FALSE]
    /\ resolved = NoText

\* As it was before issue #9: what does not fit is noticed by the next chunk.
KeepUnnoticed(s, chunk) ==
    LET room == MaxCapture - Len(kept[s])
    IN /\ kept' = [kept EXCEPT ![s] = @ \o Prefix(chunk, room)]
       /\ cut' = [cut EXCEPT ![s] = room = 0]

\* The handler of "data": what still fits is kept, and a chunk that does not fit whole
\* ends the stream.
Keep(s, chunk) ==
    LET room == MaxCapture - Len(kept[s])
    IN IF Len(chunk) > room
       THEN /\ kept' = [kept EXCEPT ![s] = @ \o Prefix(chunk, room)]
            /\ cut' = [cut EXCEPT ![s] = TRUE]
       ELSE kept' = [kept EXCEPT ![s] = @ \o chunk] /\ cut' = cut

Data(s) ==
    /\ \E n \in 1 .. Len(written[s]) - sent[s] :
          /\ sent' = [sent EXCEPT ![s] = @ + n]
          /\ IF cut[s] THEN UNCHANGED <<kept, cut>>
             ELSE Keep(s, SubSeq(written[s], sent[s] + 1, sent[s] + n))
    /\ UNCHANGED <<written, resolved>>

\* The tool could not be started: nothing was written, and the promise has its answer.
Error ==
    /\ resolved = NoText /\ sent = [s \in Streams |-> 0]
    /\ resolved' = [kind |-> "error"]
    /\ UNCHANGED <<written, sent, kept, cut>>

\* "close" comes when both streams have ended.
Close ==
    /\ resolved = NoText
    /\ \A s \in Streams : sent[s] = Len(written[s])
    /\ \E codePage \in BOOLEAN :
          resolved' =
             [kind |-> "text", marked |-> \E s \in Streams : cut[s],
              text |-> [s \in Streams |->
                           Decode(IF cut[s] THEN TrimIncompleteTail(kept[s]) ELSE kept[s], codePage)]]
    /\ UNCHANGED <<written, sent, kept, cut>>

CaptureNext == (\E s \in Streams : Data(s)) \/ Error \/ Close
CaptureSpec == CaptureInit /\ [][CaptureNext]_captureVars

-----------------------------------------------------------------------------

\* executor.ts:28-31, 519-535, 587-594: what a handler is given is the text of a prefix of
\* what the tool wrote, all of it unless the marker says otherwise, short of the cap by no
\* more than one broken character; it is decoded as UTF-8 if the tool wrote UTF-8, and
\* nothing but a byte order mark is then gone, and as something else if the tool did not and
\* nothing was cut, wherever the cap and the ends of the chunks fall and whatever the other
\* stream does.  (Of another encoding, what is left before the cap may be UTF-8 by chance.)
CaptureHonest ==
    resolved.kind = "text" =>
        /\ resolved.marked <=> \E s \in Streams : Len(written[s]) > MaxCapture
        /\ \A s \in Streams :
              LET text == resolved.text[s]
                  whole == Len(written[s]) <= MaxCapture
              IN /\ \E n \in 0 .. Len(written[s]) :
                       /\ text.bytes = IF text.as = "utf8" THEN Unmarked(Prefix(written[s], n))
                                       ELSE Prefix(written[s], n)
                       /\ whole => n = Len(written[s])
                       /\ ~whole => n \in MaxCapture - 3 .. MaxCapture
                 /\ Utf8(written[s]) => text.as = "utf8"
                 /\ whole /\ ~Utf8(written[s]) => text.as # "utf8"
=============================================================================
