----------------------------- MODULE HostProofs -----------------------------
(* What the two programs of the operator's machine promise, for every length *)
(* of payload, chunk and buffer, every way the line is damaged, every delay  *)
(* and every limit.                                                          *)
(*                                                                           *)
(* The commissioning tools: a frame that arrived whole is delivered, because *)
(* a byte is only dropped when it, or one read after it, tells that no frame *)
(* that was or will be sent began there (NothingDroppedUnseen).  A pass saw  *)
(* no break, because a frame's number differs from the next one of its kind  *)
(* by the frames between them, as long as the numbers do not come round      *)
(* (Numbered).  The echoes of the smoke tool are their probes' own, because  *)
(* until a probe times out, or a damaged byte is taken for an echo, only the *)
(* echo of the probe it waits for can be on the line (EchoInv).              *)
(*                                                                           *)
(* The monitor: a status is passed on from place to place with a stamp, and  *)
(* each place bounds how long ago the stamp of what it holds can be.         *)
EXTENDS HostTools, WellFoundedInduction, SequenceTheorems, TLAPS

-----------------------------------------------------------------------------
(* THE COMMISSIONING TOOLS.                                                  *)

StrayValues == {HEARTBEAT, "other"} \cup ProbeValues

Byte ==
    {A5, <<"5A">>, <<"data">>, <<"beat">>} \cup {"head"} \X Nat \X {1}
        \cup {"check"} \X Nat \cup {"echo"} \X Nat \cup {"junk"} \X Nat
        \cup {"stray"} \X StrayValues

(* What any damage leaves in the place of a byte.                            *)
NoiseBytes == {A5, <<"5A">>} \cup {"junk"} \X Nat \cup {"stray"} \X StrayValues

SentFrame == [kind : Kinds, sequence : 0 .. SEQUENCE_COUNT - 1, trusted : BOOLEAN, boot : Nat]

BoardTypeOK ==
    /\ image \in {"smoke", "production", "calibration"}
    /\ tool \in {"none", "smoke", "observe", "calibration"}
    /\ sent \in Seq(SentFrame) /\ Len(sent) <= MAX_FRAMES
    /\ number \in [Kinds -> 0 .. SEQUENCE_COUNT - 1] /\ restarts \in Nat
    /\ line \in Seq(Byte) /\ position \in 0 .. Len(line)
    /\ pending \in Seq(Nat) /\ probe \in Nat
    /\ tool \in {"none", "smoke"} /\ report = NoReport => position = 0

ToolTypeOK ==
    /\ buffer \in Seq(Byte) /\ delivered \in Seq(Nat)
    /\ accepted \in [Kinds -> Seq(Nat)]

(* The headers on the line are those of frames that were sent, in their order. *)
HeadsInOrder ==
    /\ \A i \in DOMAIN line : line[i][1] = "head" => line[i][2] \in 1 .. Len(sent)
    /\ \A i, j \in DOMAIN line :
          i < j /\ line[i][1] = "head" /\ line[j][1] = "head" => line[i][2] < line[j][2]

-----------------------------------------------------------------------------
(* The numbers of a stream.                                                 *)

Plus(x, d) == IF x + d >= SEQUENCE_COUNT THEN x + d - SEQUENCE_COUNT ELSE x + d

(* x may be the number of a frame with the place b, counted from frame a; it  *)
(* follows that of a only if no frame of its kind is between them.           *)
Counts(frames, a, b, x) ==
    \E d \in 1 .. b - a :
        /\ x = Plus(frames[a].sequence, d)
        /\ d = 1 => \A c \in a + 1 .. b - 1 : frames[c].kind # frames[a].kind

Numbered ==
    /\ \A a, b \in DOMAIN sent : a < b => sent[a].boot <= sent[b].boot
    /\ \A a \in DOMAIN sent : sent[a].boot <= restarts
    /\ \A a, b \in DOMAIN sent :
          a < b /\ sent[a].kind = sent[b].kind /\ sent[a].boot = sent[b].boot =>
              Counts(sent, a, b, sent[b].sequence)
    /\ \A a \in DOMAIN sent :
          sent[a].boot = restarts => Counts(sent, a, Len(sent) + 1, number[sent[a].kind])

-----------------------------------------------------------------------------
(* The decoder: its buffer is the end of what was read, and starts with a     *)
(* marker, or with what may become one.                                      *)
Dropped == position - Len(buffer)

StartsWithMarker(b) == Len(b) >= 2 => b[1] = A5 /\ b[2] = <<"5A">>

BufferIsTail ==
    /\ Len(buffer) <= position
    /\ \A i \in 1 .. Len(buffer) : buffer[i] = line[Dropped + i]
    /\ StartsWithMarker(buffer)

(* A byte that was read tells that `bytes` did not begin at p.               *)
Differs(p, bytes) ==
    \E k \in DOMAIN bytes : p + k - 1 <= position /\ line[p + k - 1] # bytes[k]

Delivered(id) == \E i \in DOMAIN delivered : delivered[i] = id

(* No frame that was sent, or will be, began where bytes were dropped, unless *)
(* it was delivered.                                                         *)
NothingDroppedUnseen ==
    \A p \in 1 .. Dropped, id \in 1 .. MAX_FRAMES, trusted \in BOOLEAN :
        (id <= Len(sent) => trusted = sent[id].trusted) =>
            Delivered(id) \/ Differs(p, Encoded(id, trusted))

DeliveredWasRead ==
    /\ \A i \in DOMAIN delivered : \E p \in 1 .. Dropped : line[p] = <<"head", delivered[i], 1>>
    /\ \A i, j \in DOMAIN delivered : i < j => delivered[i] < delivered[j]

DecoderInv ==
    tool \in {"observe", "calibration"} =>
        BufferIsTail /\ NothingDroppedUnseen /\ DeliveredWasRead

-----------------------------------------------------------------------------
(* The observer.                                                            *)
AcceptedInv ==
    /\ \A kind \in Kinds : \A i \in DOMAIN accepted[kind] :
          /\ Delivered(accepted[kind][i]) /\ accepted[kind][i] \in 1 .. Len(sent)
          /\ sent[accepted[kind][i]].kind = kind
    /\ ~gaps /\ ~faults => \A kind \in Kinds : Unbroken(accepted[kind])

-----------------------------------------------------------------------------
(* The smoke tool: until a probe times out or a damaged byte is taken for an  *)
(* echo, the only echo under way is that of the probe the tool waits for.    *)
EchoUnderWay == \E i \in DOMAIN line : line[i][1] = "echo"

NoStrayTaken == \A n \in DOMAIN answers : answers[n][1] # "stray"

OnlyItsEcho ==
    /\ pending \in {<<>>, <<probe>>}
    /\ EchoUnderWay => pending = <<>>
    /\ \A i \in DOMAIN line : line[i][1] = "echo" => line[i][2] = probe
    /\ \A i, j \in DOMAIN line : line[i][1] = "echo" /\ line[j][1] = "echo" => i = j
    /\ probe \in {0, Len(PROBES) + 1} => pending = <<>> /\ ~EchoUnderWay

AnswersInv ==
    /\ Len(answers) = (IF probe = 0 THEN 0 ELSE probe - 1)
    /\ \A n \in DOMAIN answers : OwnEcho(n) \/ AfterStray(n)

EchoInv ==
    /\ tool = "none" /\ report = NoReport => pending = <<>> /\ ~EchoUnderWay
    /\ tool = "smoke" =>
          /\ probe \in 0 .. Len(PROBES) + 1 /\ answers \in Seq(Byte)
          /\ ~timeouts => AnswersInv
          /\ ~timeouts /\ NoStrayTaken => OnlyItsEcho

CommissioningInv ==
    /\ BoardTypeOK /\ ToolTypeOK /\ HeadsInOrder /\ Numbered /\ DecoderInv /\ AcceptedInv
    /\ EchoInv /\ PassMeansIntact /\ EchoesAreOwn
    /\ report # NoReport => tool = "none"

-----------------------------------------------------------------------------
(* Lemmas about bytes, sequences and numbers.                                *)

\* The bytes the model knows.
LEMMA ByteForms ==
    /\ A5 \in Byte /\ <<"5A">> \in Byte /\ <<"data">> \in Byte /\ <<"beat">> \in Byte
    /\ \A n \in Nat : /\ <<"head", n, 1>> \in Byte /\ <<"check", n>> \in Byte
                      /\ <<"echo", n>> \in Byte
BY DEF Byte

\* A header byte names a frame and carries the length 1.
LEMMA HeadForm ==
    ASSUME NEW b \in Byte, b[1] = "head"
    PROVE  b[2] \in Nat /\ b = <<"head", b[2], 1>>
BY DEF Byte, A5

\* An echo names its probe.
LEMMA EchoForm ==
    ASSUME NEW b \in Byte, b[1] = "echo"
    PROVE  b[2] \in Nat /\ b = <<"echo", b[2]>>
BY DEF Byte, A5

\* encode_frame: two markers, a header, one payload byte, a checksum.
LEMMA EncodedIs ==
    ASSUME NEW id \in Nat, NEW trusted \in BOOLEAN
    PROVE  LET f == Encoded(id, trusted)
           IN  /\ f \in Seq(Byte) /\ Len(f) = 5
               /\ f[1] = A5 /\ f[2] = <<"5A">> /\ f[3] = <<"head", id, 1>>
               /\ f[4] = IF trusted THEN <<"data">> ELSE A5
               /\ f[5] = <<"check", id>>
<1> DEFINE data == IF trusted THEN <<"data">> ELSE A5
           rest == << <<"head", id, 1>>, data, <<"check", id>> >>
<1>1. data \in Byte
  BY ByteForms
<1> HIDE DEF data
<1>2. /\ SOF \in Seq(Byte) /\ Len(SOF) = 2 /\ SOF[1] = A5 /\ SOF[2] = <<"5A">>
  BY ByteForms DEF SOF
<1>3. /\ rest \in Seq(Byte) /\ Len(rest) = 3
      /\ rest[1] = <<"head", id, 1>> /\ rest[2] = data /\ rest[3] = <<"check", id>>
  <2> DEFINE head == <<"head", id, 1>>
             check == <<"check", id>>
  <2>1. head \in Byte /\ check \in Byte
    BY ByteForms
  <2> HIDE DEF head, check
  <2>2. << head, data, check >> \in Seq(Byte)
    BY <1>1, <2>1
  <2>3. rest = << head, data, check >>
    BY DEF head, check
  <2> QED BY <2>2, <2>3 DEF head, check
<1>4. Encoded(id, trusted) = SOF \o rest
  BY DEF Encoded, data
<1> HIDE DEF rest
<1>5. /\ SOF \o rest \in Seq(Byte) /\ Len(SOF \o rest) = 5
      /\ \A k \in 1 .. 2 : (SOF \o rest)[k] = SOF[k]
      /\ \A k \in 3 .. 5 : (SOF \o rest)[k] = rest[k - 2]
  BY <1>2, <1>3, ConcatProperties
<1> QED BY <1>2, <1>3, <1>4, <1>5 DEF data

\* A set of naturals that is not empty has a least element.
LEMMA MinOfNaturals ==
    ASSUME NEW S \in SUBSET Nat, S # {}
    PROVE  Min(S) \in S /\ \A x \in S : Min(S) <= x
<1> DEFINE R == {ss \in Nat \X Nat : ss[1] < ss[2]}
<1>1. IsWellFoundedOn(R, Nat)
  BY NatLessThanWellFounded DEF OpToRel
<1>2. PICK m \in S : \A x \in S : ~(<<x, m>> \in R)
  BY <1>1, WFMin
<1>3. ASSUME NEW x \in S PROVE m <= x
  <2>1. m \in Nat /\ x \in Nat
    OBVIOUS
  <2>2. <<x, m>> \in Nat \X Nat /\ <<x, m>>[1] = x /\ <<x, m>>[2] = m
    BY <2>1
  <2>3. ~(x < m)
    BY <1>2, <1>3, <2>2
  <2> QED BY <2>1, <2>3
<1> QED BY <1>2, <1>3 DEF Min

\* SofIn is where the two marker bytes stand side by side.
LEMMA MarkerAt ==
    ASSUME NEW b \in Seq(Byte), NEW i \in 1 .. Len(b) - 1
    PROVE  i \in SofIn(b) <=> b[i] = A5 /\ b[i + 1] = <<"5A">>
<1> SUFFICES SubSeq(b, i, i + 1) = SOF <=> b[i] = A5 /\ b[i + 1] = <<"5A">>
  BY DEF SofIn
<1> DEFINE c == SubSeq(b, i, i + 1)
<1>1. c \in Seq(Byte) /\ Len(c) = 2 /\ c[1] = b[i] /\ c[2] = b[i + 1]
  <2>1. i \in 1 .. Len(b) /\ i + 1 \in 1 .. Len(b) /\ i <= i + 1 /\ (i + 1) - i + 1 = 2
    OBVIOUS
  <2>2. c \in Seq(Byte) /\ Len(c) = 2
    BY <2>1
  <2>3. c[1] = b[i]
    BY <2>1
  <2>4. c[2] = b[i + 1]
    BY <2>1
  <2> QED BY <2>2, <2>3, <2>4
<1>2. SOF \in Seq(Byte) /\ Len(SOF) = 2 /\ SOF[1] = A5 /\ SOF[2] = <<"5A">>
  BY ByteForms DEF SOF
<1> HIDE DEF c
<1>3. c[1] = SOF[1] /\ c[2] = SOF[2] => c = SOF
  BY <1>1, <1>2, SeqEqual
<1> QED BY <1>1, <1>2, <1>3 DEF c

\* _discard_until_sof drops only bytes that start no marker.
LEMMA DiscardKeepsMarkers ==
    ASSUME NEW b \in Seq(Byte)
    PROVE  LET d == DiscardUntilSof(b)
               n == Len(b) - Len(d)
           IN  /\ d \in Seq(Byte) /\ Len(d) <= Len(b) /\ StartsWithMarker(d)
               /\ \A i \in 1 .. Len(d) : d[i] = b[n + i]
               /\ \A i \in 1 .. n : b[i] # A5 \/ (i + 1 <= Len(b) /\ b[i + 1] # <<"5A">>)
<1>1. \A i \in 1 .. Len(b) - 1 : i \in SofIn(b) <=> b[i] = A5 /\ b[i + 1] = <<"5A">>
  BY MarkerAt
<1>2. CASE SofIn(b) # {}
  <2> DEFINE m == Min(SofIn(b))
  <2>0. SofIn(b) \in SUBSET Nat
    BY DEF SofIn
  <2>1. m \in SofIn(b) /\ \A x \in SofIn(b) : m <= x
    BY <1>2, <2>0, MinOfNaturals
  <2>2. m \in 1 .. Len(b) - 1
    BY <2>1 DEF SofIn
  <2>3. DiscardUntilSof(b) = SubSeq(b, m, Len(b))
    BY <1>2 DEF DiscardUntilSof
  <2> HIDE DEF m
  <2>4. ASSUME NEW i \in 1 .. m - 1 PROVE b[i] # A5 \/ b[i + 1] # <<"5A">>
    <3>1. i \in 1 .. Len(b) - 1 /\ i \notin SofIn(b)
      BY <2>1, <2>2
    <3> QED BY <1>1, <3>1
  <2>5. b[m] = A5 /\ b[m + 1] = <<"5A">>
    BY <1>1, <2>1, <2>2
  <2> DEFINE d == SubSeq(b, m, Len(b))
  <2>6. /\ d \in Seq(Byte) /\ Len(d) = Len(b) - m + 1
        /\ \A i \in 1 .. Len(d) : d[i] = b[m + i - 1]
    BY <2>2
  <2> HIDE DEF d
  <2>7. StartsWithMarker(d)
    BY <2>2, <2>5, <2>6 DEF StartsWithMarker
  <2> QED BY <2>2, <2>3, <2>4, <2>6, <2>7 DEF d
<1>3. CASE SofIn(b) = {} /\ b # <<>> /\ Last(b) = A5
  <2>1. DiscardUntilSof(b) = <<A5>> /\ b[Len(b)] = A5 /\ Len(b) >= 1
    BY <1>3 DEF DiscardUntilSof, Last
  <2> QED BY <1>1, <1>3, <2>1, ByteForms DEF StartsWithMarker
<1>4. CASE SofIn(b) = {} /\ ~(b # <<>> /\ Last(b) = A5)
  <2>1. DiscardUntilSof(b) = <<>>
    BY <1>4 DEF DiscardUntilSof
  <2>2. ASSUME Len(b) > 0 PROVE b[Len(b)] # A5
    BY <1>4, <2>2 DEF Last
  <2> QED BY <1>1, <1>4, <2>1, <2>2 DEF StartsWithMarker
<1> QED BY <1>2, <1>3, <1>4

\* The number after x, as the board counts.
LEMMA Successor ==
    ASSUME NEW x \in 0 .. SEQUENCE_COUNT - 1
    PROVE  (x + 1) % SEQUENCE_COUNT = Plus(x, 1)
BY NumbersAssumption DEF Plus

\* _sequence_update: the difference of two numbers, modulo their count.
LEMMA DeltaIs ==
    ASSUME NEW x \in 0 .. SEQUENCE_COUNT - 1, NEW y \in 0 .. SEQUENCE_COUNT - 1
    PROVE  Delta(y, x) = IF y >= x THEN y - x ELSE y - x + SEQUENCE_COUNT
BY NumbersAssumption DEF Delta

-----------------------------------------------------------------------------
(* The board and its line.                                                   *)

\* Which byte of a frame is what; only its payload may look like a marker.
LEMMA EncodedKinds ==
    ASSUME NEW id \in Nat, NEW trusted \in BOOLEAN, NEW k \in 1 .. 5
    PROVE  LET f == Encoded(id, trusted)
           IN  /\ f[k][1] = "head" => k = 3
               /\ f[k][1] # "echo"
               /\ k > 1 /\ f[k] = A5 => k = 4
               /\ f[5] # <<"5A">>
<1> DEFINE f == Encoded(id, trusted)
<1>1. /\ f[1][1] = "A5" /\ f[2][1] = "5A" /\ f[3][1] = "head"
      /\ f[4][1] \in {"A5", "data"} /\ f[5][1] = "check"
  <2>1. /\ f[1] = A5 /\ f[2] = <<"5A">> /\ f[3] = <<"head", id, 1>>
        /\ f[4] = (IF trusted THEN <<"data">> ELSE A5) /\ f[5] = <<"check", id>>
    BY EncodedIs
  <2> HIDE DEF f
  <2>2. f[4] = <<"data">> \/ f[4] = A5
    BY <2>1
  <2> QED BY <2>1, <2>2 DEF A5
<1>2. k = 1 \/ k = 2 \/ k = 3 \/ k = 4 \/ k = 5
  OBVIOUS
<1>3. A5[1] = "A5" /\ (<<"5A">>)[1] = "5A"
  BY DEF A5
<1> HIDE DEF f
<1>4. k > 1 /\ f[k] = A5 => k = 4
  BY <1>1, <1>2, <1>3
<1>5. f[5] # <<"5A">>
  BY <1>1, <1>3
<1>6. (f[k][1] = "head" => k = 3) /\ f[k][1] # "echo"
  BY <1>1, <1>2
<1> QED BY <1>4, <1>5, <1>6 DEF f

\* Noise forges no header and no echo.
LEMMA NoiseIsNeither ==
    ASSUME NEW b \in NoiseBytes
    PROVE  b \in Byte /\ b[1] # "head" /\ b[1] # "echo"
BY DEF NoiseBytes, Byte, A5

\* Whatever a byte becomes, and whichever the image.
LEMMA NoiseForms ==
    ASSUME NEW c
    PROVE  Noise(c) \subseteq NoiseBytes
<1> SUFFICES ASSUME NEW b \in Noise(c) PROVE b \in NoiseBytes
  OBVIOUS
<1>1. CASE image = "smoke"
  <2>1. b \in {"stray"} \X (StrayValues \ {Value(c)})
    BY <1>1 DEF Noise, StrayValues
  <2> QED BY <2>1 DEF NoiseBytes
<1>2. CASE image # "smoke"
  <2>1. 0 .. MAX_PAYLOAD + 1 \subseteq Nat
    BY BufferAssumption
  <2>2. b \in {A5, <<"5A">>} \cup {"junk"} \X (0 .. MAX_PAYLOAD + 1)
    BY <1>2 DEF Noise
  <2> QED BY <2>1, <2>2 DEF NoiseBytes
<1> QED BY <1>1, <1>2

(* What is left of `bytes` after a byte was lost or changed.                 *)
Debris(m, bytes) ==
    /\ m \in Seq(Byte)
    /\ \A i \in DOMAIN m : m[i] \in NoiseBytes \/ \E k \in DOMAIN bytes : m[i] = bytes[k]
    /\ \A i, j \in DOMAIN m : i < j =>
          \/ m[i] \in NoiseBytes \/ m[j] \in NoiseBytes
          \/ \E k, l \in DOMAIN bytes : k < l /\ m[i] = bytes[k] /\ m[j] = bytes[l]

\* The line grows by the bytes sent, or by what is left of them.
LEMMA WhatArrives ==
    ASSUME NEW bytes \in Seq(Byte), OnLine(bytes)
    PROVE  \E m : Debris(m, bytes) /\ line' = line \o m
<1>1. CASE line' = line \o bytes
  BY <1>1 DEF Debris
<1>2. ASSUME NEW x \in DOMAIN bytes PROVE Debris(RemoveAt(bytes, x), bytes)
  <2> DEFINE head == SubSeq(bytes, 1, x - 1)
             tail == SubSeq(bytes, x + 1, Len(bytes))
             m == RemoveAt(bytes, x)
  <2>1. x \in 1 .. Len(bytes)
    OBVIOUS
  <2>2. /\ head \in Seq(Byte) /\ Len(head) = x - 1
        /\ \A i \in 1 .. x - 1 : head[i] = bytes[i]
    BY <2>1
  <2>3. /\ tail \in Seq(Byte) /\ Len(tail) = Len(bytes) - x
        /\ \A i \in 1 .. Len(bytes) - x : tail[i] = bytes[x + i]
    BY <2>1
  <2>4. m = head \o tail
    BY DEF RemoveAt
  <2> HIDE DEF head, tail, m
  <2>5. m \in Seq(Byte) /\ Len(m) = Len(bytes) - 1
    BY <2>1, <2>2, <2>3, <2>4, ConcatProperties
  <2>6. \A i \in 1 .. Len(m) : m[i] = bytes[IF i < x THEN i ELSE i + 1]
    <3> SUFFICES ASSUME NEW i \in 1 .. Len(m) PROVE m[i] = bytes[IF i < x THEN i ELSE i + 1]
      OBVIOUS
    <3>1. m[i] = IF i <= x - 1 THEN head[i] ELSE tail[i - (x - 1)]
      BY <2>1, <2>2, <2>3, <2>4, <2>5, ConcatProperties
    <3>2. CASE i < x
      BY <2>1, <2>2, <3>1, <3>2
    <3>3. CASE i >= x
      <4>1. i - (x - 1) \in 1 .. Len(bytes) - x /\ x + (i - (x - 1)) = i + 1
        BY <2>1, <2>5, <3>3
      <4>2. tail[i - (x - 1)] = bytes[i + 1]
        BY <2>3, <4>1
      <4> QED BY <2>1, <2>5, <3>1, <3>3, <4>2
    <3> QED BY <2>1, <3>2, <3>3
  <2>7. ASSUME NEW i \in DOMAIN m
        PROVE  (IF i < x THEN i ELSE i + 1) \in DOMAIN bytes
    BY <2>1, <2>5
  <2>8. ASSUME NEW i \in DOMAIN m, NEW j \in DOMAIN m, i < j
        PROVE  (IF i < x THEN i ELSE i + 1) < (IF j < x THEN j ELSE j + 1)
    BY <2>1, <2>5, <2>8
  <2>9. \A i \in DOMAIN m : \E k \in DOMAIN bytes : m[i] = bytes[k]
    BY <2>5, <2>6, <2>7
  <2>10. ASSUME NEW i \in DOMAIN m, NEW j \in DOMAIN m, i < j
         PROVE  \E k, l \in DOMAIN bytes : k < l /\ m[i] = bytes[k] /\ m[j] = bytes[l]
    <3>1. /\ m[i] = bytes[IF i < x THEN i ELSE i + 1]
          /\ m[j] = bytes[IF j < x THEN j ELSE j + 1]
      BY <2>5, <2>6
    <3> QED BY <2>7, <2>8, <2>10, <3>1
  <2> QED BY <2>5, <2>9, <2>10 DEF Debris, m
<1>3. ASSUME NEW x \in DOMAIN bytes, NEW b \in NoiseBytes
      PROVE  Debris([bytes EXCEPT ![x] = b], bytes)
  <2> DEFINE m == [bytes EXCEPT ![x] = b]
  <2>1. m \in Seq(Byte) /\ DOMAIN m = DOMAIN bytes
    BY <1>3, NoiseIsNeither
  <2>2. \A i \in DOMAIN m : m[i] \in NoiseBytes \/ m[i] = bytes[i]
    BY <2>1
  <2> QED BY <2>1, <2>2 DEF Debris
<1>4. CASE \E x \in DOMAIN bytes : line' = line \o RemoveAt(bytes, x)
  BY <1>2, <1>4
<1>5. CASE \E x \in DOMAIN bytes : \E b \in Noise(bytes[x]) :
              line' = line \o [bytes EXCEPT ![x] = b]
  <2>1. PICK x \in DOMAIN bytes, b \in NoiseBytes : line' = line \o [bytes EXCEPT ![x] = b]
    BY <1>5, NoiseForms
  <2> QED BY <1>3, <2>1
<1> QED BY <1>1, <1>4, <1>5 DEF OnLine

\* What was on the line stays there; what is new comes from the bytes sent.
LEMMA LineGrows ==
    ASSUME line \in Seq(Byte), NEW bytes \in Seq(Byte), OnLine(bytes)
    PROVE  /\ line' \in Seq(Byte) /\ Len(line') >= Len(line)
           /\ \A i \in 1 .. Len(line) : line'[i] = line[i]
           /\ \A i \in Len(line) + 1 .. Len(line') :
                 line'[i] \in NoiseBytes \/ \E k \in DOMAIN bytes : line'[i] = bytes[k]
           /\ \A i, j \in Len(line) + 1 .. Len(line') : i < j =>
                 \/ line'[i] \in NoiseBytes \/ line'[j] \in NoiseBytes
                 \/ \E k, l \in DOMAIN bytes :
                       k < l /\ line'[i] = bytes[k] /\ line'[j] = bytes[l]
<1>1. PICK m : Debris(m, bytes) /\ line' = line \o m
  BY WhatArrives
<1>2. /\ line' \in Seq(Byte) /\ Len(line') = Len(line) + Len(m)
      /\ \A i \in 1 .. Len(line') :
            line'[i] = IF i <= Len(line) THEN line[i] ELSE m[i - Len(line)]
  BY <1>1, ConcatProperties DEF Debris
<1>3. ASSUME NEW i \in Len(line) + 1 .. Len(line')
      PROVE  i - Len(line) \in DOMAIN m /\ line'[i] = m[i - Len(line)]
  BY <1>1, <1>2 DEF Debris
<1>4. \A i, j \in Len(line) + 1 .. Len(line') : i < j => i - Len(line) < j - Len(line)
  BY <1>2
<1> QED BY <1>1, <1>2, <1>3, <1>4 DEF Debris
\* The board appends to the line and to what it sent, or cuts off bytes that
\* were not read.
BoardStep == (\E kind \in Kinds : SendFrame(kind)) \/ Beat \/ Echo \/ Restart

\* A heartbeat is no header and no echo.
LEMMA BeatBytes ==
    /\ << <<"beat">> >> \in Seq(Byte)
    /\ \A k \in DOMAIN << <<"beat">> >> : << <<"beat">> >>[k][1] = "beat"
BY ByteForms

\* The byte the smoke image returns.
LEMMA EchoBytes ==
    ASSUME NEW n \in Nat
    PROVE  /\ << <<"echo", n>> >> \in Seq(Byte)
           /\ \A k \in DOMAIN << <<"echo", n>> >> :
                 k = 1 /\ << <<"echo", n>> >>[k] = <<"echo", n>>
<1> DEFINE e == <<"echo", n>>
<1>1. e \in Byte
  BY ByteForms
<1> HIDE DEF e
<1>2. <<e>> \in Seq(Byte) /\ \A k \in DOMAIN <<e>> : k = 1 /\ <<e>>[k] = e
  BY <1>1
<1> QED BY <1>2 DEF e

\* The board adds to the line behind what was read, and touches no tool.
LEMMA BoardExtends ==
    ASSUME BoardTypeOK, BoardStep
    PROVE  /\ line' \in Seq(Byte) /\ Len(line') >= position /\ position' = position
           /\ \A p \in 1 .. position : line'[p] = line[p]
           /\ Len(sent') >= Len(sent) /\ \A id \in 1 .. Len(sent) : sent'[id] = sent[id]
           /\ UNCHANGED <<image, tool_vars>>
<1> USE DEF BoardTypeOK
<1>1. ASSUME NEW kind \in Kinds, SendFrame(kind)
      PROVE  /\ sent' \in Seq(SentFrame) /\ Len(sent') = Len(sent) + 1
             /\ \A id \in 1 .. Len(sent) : sent'[id] = sent[id]
             /\ \E trusted \in BOOLEAN :
                   /\ OnLine(Encoded(Len(sent) + 1, trusted))
                   /\ sent'[Len(sent) + 1] = [kind |-> kind, sequence |-> number[kind],
                                              trusted |-> trusted, boot |-> restarts]
             /\ UNCHANGED <<image, position, tool_vars>>
  <2>1. PICK trusted \in BOOLEAN :
          /\ sent' = Append(sent, [kind |-> kind, sequence |-> number[kind],
                                   trusted |-> trusted, boot |-> restarts])
          /\ OnLine(Encoded(Len(sent) + 1, trusted))
    BY <1>1 DEF SendFrame
  <2>2. [kind |-> kind, sequence |-> number[kind],
         trusted |-> trusted, boot |-> restarts] \in SentFrame
    BY DEF SentFrame
  <2> QED BY <1>1, <2>1, <2>2 DEF SendFrame
<1>2. ASSUME NEW kind \in Kinds, SendFrame(kind)
      PROVE  /\ line' \in Seq(Byte) /\ Len(line') >= Len(line)
             /\ \A i \in 1 .. Len(line) : line'[i] = line[i]
  <2>1. PICK trusted \in BOOLEAN : OnLine(Encoded(Len(sent) + 1, trusted))
    BY <1>1, <1>2
  <2>2. Encoded(Len(sent) + 1, trusted) \in Seq(Byte)
    BY EncodedIs
  <2> QED BY <2>1, <2>2, LineGrows
<1>3. CASE Beat
  <2>1. /\ line' \in Seq(Byte) /\ Len(line') >= Len(line)
        /\ \A i \in 1 .. Len(line) : line'[i] = line[i]
    BY <1>3, BeatBytes, LineGrows DEF Beat
  <2> QED BY <1>3, <2>1 DEF Beat
<1>4. CASE Echo
  <2>1. Head(pending) \in Nat
    BY <1>4 DEF Echo
  <2>2. /\ line' \in Seq(Byte) /\ Len(line') >= Len(line)
        /\ \A i \in 1 .. Len(line) : line'[i] = line[i]
    BY <1>4, <2>1, EchoBytes, LineGrows DEF Echo
  <2> QED BY <1>4, <2>2 DEF Echo
<1>5. CASE Restart
  <2>1. PICK kept \in position .. Len(line) : line' = SubSeq(line, 1, kept)
    BY <1>5 DEF Restart
  <2>2. kept \in 0 .. Len(line) /\ position <= kept
    OBVIOUS
  <2>3. /\ line' \in Seq(Byte) /\ Len(line') = kept
        /\ \A i \in 1 .. kept : line'[i] = line[i]
    BY <2>1, <2>2
  <2> QED BY <1>5, <2>2, <2>3 DEF Restart
<1>6. ASSUME NEW kind \in Kinds, SendFrame(kind)
      PROVE  /\ line' \in Seq(Byte) /\ Len(line') >= position /\ position' = position
             /\ \A p \in 1 .. position : line'[p] = line[p]
             /\ Len(sent') >= Len(sent) /\ \A id \in 1 .. Len(sent) : sent'[id] = sent[id]
             /\ UNCHANGED <<image, tool_vars>>
  BY <1>1, <1>2, <1>6
<1> QED BY <1>3, <1>4, <1>5, <1>6 DEF BoardStep

\* The types, step by step of the board.
LEMMA BoardKeepsTypes ==
    ASSUME BoardTypeOK, BoardStep
    PROVE  BoardTypeOK'
<1> USE DEF BoardTypeOK
<1>1. /\ image' = image /\ tool' = tool /\ report' = report /\ position' = position
      /\ probe' = probe /\ line' \in Seq(Byte) /\ position' \in 0 .. Len(line')
  BY BoardExtends DEF tool_vars, smoke_vars
<1>2. /\ sent' \in Seq(SentFrame) /\ Len(sent') <= MAX_FRAMES /\ restarts' \in Nat
      /\ number' \in [Kinds -> 0 .. SEQUENCE_COUNT - 1] /\ pending' \in Seq(Nat)
  <2>1. ASSUME NEW kind \in Kinds, SendFrame(kind) 
        PROVE  /\ sent' \in Seq(SentFrame) /\ Len(sent') <= MAX_FRAMES /\ restarts' \in Nat
               /\ number' \in [Kinds -> 0 .. SEQUENCE_COUNT - 1] /\ pending' \in Seq(Nat)
    <3>1. PICK trusted \in BOOLEAN :
            sent' = Append(sent, [kind |-> kind, sequence |-> number[kind],
                                  trusted |-> trusted, boot |-> restarts])
      BY <2>1 DEF SendFrame
    <3>2. [kind |-> kind, sequence |-> number[kind],
           trusted |-> trusted, boot |-> restarts] \in SentFrame
      BY DEF SentFrame
    <3>3. Len(sent) < MAX_FRAMES
      BY <2>1, NumbersAssumption DEF SendFrame
    <3>4. (number[kind] + 1) % SEQUENCE_COUNT \in 0 .. SEQUENCE_COUNT - 1
      BY Successor, NumbersAssumption DEF Plus
    <3>5. number' = [number EXCEPT ![kind] = (@ + 1) % SEQUENCE_COUNT]
      BY <2>1 DEF SendFrame
    <3>6. restarts' = restarts /\ pending' = pending
      BY <2>1 DEF SendFrame
    <3> QED BY <3>1, <3>2, <3>3, <3>4, <3>5, <3>6, NumbersAssumption
  <2>2. CASE Beat
    BY <2>2 DEF Beat
  <2>3. CASE Echo
    BY <2>3 DEF Echo
  <2>4. CASE Restart
    <3>1. 0 \in 0 .. SEQUENCE_COUNT - 1
      BY NumbersAssumption
    <3> QED BY <2>4, <3>1 DEF Restart
  <2> QED BY <2>1, <2>2, <2>3, <2>4 DEF BoardStep
<1> QED BY <1>1, <1>2

\* Bytes without a header, or an echo, bring none to the line.
LEMMA NoneIsNew ==
    ASSUME line \in Seq(Byte), NEW bytes \in Seq(Byte), OnLine(bytes),
           NEW word \in {"head", "echo"}, \A k \in DOMAIN bytes : bytes[k][1] # word
    PROVE  \A i \in DOMAIN line' :
              line'[i][1] = word => i \in 1 .. Len(line) /\ line'[i] = line[i]
<1> SUFFICES ASSUME NEW i \in DOMAIN line', line'[i][1] = word
             PROVE  i \in 1 .. Len(line) /\ line'[i] = line[i]
  OBVIOUS
<1>1. i \in 1 .. Len(line')
  BY LineGrows
<1>2. i \notin Len(line) + 1 .. Len(line')
  <2> SUFFICES ASSUME i \in Len(line) + 1 .. Len(line') PROVE FALSE
    OBVIOUS
  <2>1. line'[i] \in NoiseBytes \/ \E k \in DOMAIN bytes : line'[i] = bytes[k]
    BY LineGrows
  <2> QED BY <2>1, NoiseIsNeither
<1> QED BY <1>1, <1>2, LineGrows

\* SendFrame puts the next frame's header at the end; noise forges none.
LEMMA BoardKeepsHeads ==
    ASSUME BoardTypeOK, HeadsInOrder, BoardStep
    PROVE  HeadsInOrder'
<1> USE DEF BoardTypeOK
<1>0. line' \in Seq(Byte) /\ Len(sent') >= Len(sent)
  BY BoardExtends
<1>1. ASSUME \A i \in DOMAIN line' :
                line'[i][1] = "head" => i \in 1 .. Len(line) /\ line'[i] = line[i]
      PROVE  HeadsInOrder'
  <2>1. ASSUME NEW i \in DOMAIN line', line'[i][1] = "head" PROVE line'[i][2] \in 1 .. Len(sent')
    <3>1. line[i][2] \in 1 .. Len(sent)
      BY <1>1, <2>1 DEF HeadsInOrder
    <3> QED BY <1>0, <1>1, <2>1, <3>1
  <2>2. ASSUME NEW i \in DOMAIN line', NEW j \in DOMAIN line', i < j,
               line'[i][1] = "head", line'[j][1] = "head"
        PROVE  line'[i][2] < line'[j][2]
    <3>1. /\ i \in DOMAIN line /\ j \in DOMAIN line
          /\ line'[i] = line[i] /\ line'[j] = line[j]
      BY <1>1, <2>2
    <3> QED BY <2>2, <3>1 DEF HeadsInOrder
  <2> QED BY <2>1, <2>2 DEF HeadsInOrder
<1>2. CASE Beat
  <2>1. \A k \in DOMAIN << <<"beat">> >> : << <<"beat">> >>[k][1] # "head"
    BY BeatBytes
  <2> QED BY <1>1, <1>2, <2>1, BeatBytes, NoneIsNew DEF Beat
<1>3. CASE Echo
  <2>1. Head(pending) \in Nat
    BY <1>3 DEF Echo
  <2>2. \A k \in DOMAIN << <<"echo", Head(pending)>> >> :
           << <<"echo", Head(pending)>> >>[k][1] # "head"
    BY <2>1, EchoBytes
  <2> QED BY <1>1, <1>3, <2>1, <2>2, EchoBytes, NoneIsNew DEF Echo
<1>4. CASE Restart
  <2>1. PICK kept \in position .. Len(line) : line' = SubSeq(line, 1, kept)
    BY <1>4 DEF Restart
  <2>2. kept \in 0 .. Len(line)
    OBVIOUS
  <2>3. \A i \in DOMAIN line' : i \in 1 .. Len(line) /\ line'[i] = line[i]
    BY <2>1, <2>2
  <2> QED BY <1>1, <2>3
<1>5. ASSUME NEW kind \in Kinds, SendFrame(kind) PROVE HeadsInOrder'
  <2> DEFINE id == Len(sent) + 1
  <2>1. PICK trusted \in BOOLEAN : OnLine(Encoded(id, trusted)) /\ Len(sent') = id
    BY <1>5 DEF SendFrame
  <2> DEFINE f == Encoded(id, trusted)
  <2>i. id \in Nat
    OBVIOUS
  <2> HIDE DEF id
  <2>2. f \in Seq(Byte) /\ Len(f) = 5 /\ f[3] = <<"head", id, 1>>
    BY <2>i, EncodedIs
  <2>3. \A k \in DOMAIN f : f[k][1] = "head" => k = 3
    BY <2>i, <2>2, EncodedKinds
  <2> HIDE DEF f
  <2>4. /\ Len(line') >= Len(line)
        /\ \A i \in 1 .. Len(line) : line'[i] = line[i]
    BY <2>1, <2>2, LineGrows DEF f
  <2>5. ASSUME NEW i \in Len(line) + 1 .. Len(line'), line'[i][1] = "head"
        PROVE  line'[i][2] = id
    <3>1. PICK k \in DOMAIN f : line'[i] = f[k]
      BY <2>1, <2>2, <2>5, LineGrows, NoiseIsNeither DEF f
    <3> QED BY <2>2, <2>3, <2>5, <3>1
  <2>6. ASSUME NEW i \in Len(line) + 1 .. Len(line'), NEW j \in Len(line) + 1 .. Len(line'),
               i < j, line'[i][1] = "head", line'[j][1] = "head"
        PROVE  FALSE
    <3>1. line'[i] \notin NoiseBytes /\ line'[j] \notin NoiseBytes
      BY <2>6, NoiseIsNeither
    <3>2. PICK k \in DOMAIN f, l \in DOMAIN f : k < l /\ line'[i] = f[k] /\ line'[j] = f[l]
      BY <2>1, <2>2, <2>6, <3>1, LineGrows DEF f
    <3> QED BY <2>2, <2>3, <2>6, <3>2
  <2>7. ASSUME NEW i \in DOMAIN line', line'[i][1] = "head"
        PROVE  \/ i \in 1 .. Len(line) /\ line'[i] = line[i] /\ line'[i][2] \in 1 .. Len(sent)
               \/ i \in Len(line) + 1 .. Len(line') /\ line'[i][2] = id
    <3>1. i \in 1 .. Len(line')
      BY <1>0
    <3>2. CASE i \in 1 .. Len(line)
      BY <2>4, <2>7, <3>2 DEF HeadsInOrder
    <3>3. CASE i \in Len(line) + 1 .. Len(line')
      BY <2>5, <2>7, <3>3
    <3> QED BY <3>1, <3>2, <3>3
  <2>8. ASSUME NEW i \in DOMAIN line', line'[i][1] = "head"
        PROVE  line'[i][2] \in 1 .. Len(sent')
    BY <2>1, <2>7, <2>8 DEF id
  <2>9. ASSUME NEW i \in DOMAIN line', NEW j \in DOMAIN line', i < j,
               line'[i][1] = "head", line'[j][1] = "head"
        PROVE  line'[i][2] < line'[j][2]
    <3>1. CASE i \in 1 .. Len(line) /\ j \in 1 .. Len(line)
      <4>1. line'[i] = line[i] /\ line'[j] = line[j] /\ i \in DOMAIN line /\ j \in DOMAIN line
        BY <2>4, <3>1
      <4> QED BY <2>9, <4>1 DEF HeadsInOrder
    <3>2. CASE j \in Len(line) + 1 .. Len(line')
      <4>1. i \in 1 .. Len(line) /\ line'[i][2] \in 1 .. Len(sent) /\ line'[j][2] = id
        BY <2>6, <2>7, <2>9, <3>2
      <4> QED BY <4>1 DEF id
    <3> QED BY <2>7, <2>9, <3>1, <3>2
  <2> QED BY <2>8, <2>9 DEF HeadsInOrder
<1> QED BY <1>2, <1>3, <1>4, <1>5 DEF BoardStep

\* Counting on by one more.
LEMMA PlusTwice ==
    ASSUME NEW x \in 0 .. SEQUENCE_COUNT - 1, NEW d \in 0 .. MAX_FRAMES
    PROVE  Plus(Plus(x, d), 1) = Plus(x, d + 1) /\ Plus(x, d) \in 0 .. SEQUENCE_COUNT - 1
BY NumbersAssumption DEF Plus

\* SendFrame numbers each kind in order; Restart begins a new count.
LEMMA BoardKeepsNumbers ==
    ASSUME BoardTypeOK, Numbered, BoardStep
    PROVE  Numbered'
<1> USE DEF BoardTypeOK
<1>1. ASSUME NEW kind \in Kinds, SendFrame(kind) PROVE Numbered'
  <2> DEFINE id == Len(sent) + 1
  <2>1. PICK trusted \in BOOLEAN :
          sent' = Append(sent, [kind |-> kind, sequence |-> number[kind],
                                trusted |-> trusted, boot |-> restarts])
    BY <1>1 DEF SendFrame
  <2>2. /\ DOMAIN sent' = 1 .. id /\ \A a \in 1 .. Len(sent) : sent'[a] = sent[a]
        /\ sent'[id].kind = kind /\ sent'[id].sequence = number[kind]
        /\ sent'[id].boot = restarts /\ Len(sent') = id
    BY <2>1
  <2>3. /\ restarts' = restarts
        /\ number' = [number EXCEPT ![kind] = (@ + 1) % SEQUENCE_COUNT]
        /\ Len(sent) < MAX_FRAMES
    BY <1>1, NumbersAssumption DEF SendFrame
  <2>4. number'[kind] = Plus(number[kind], 1) /\ \A k \in Kinds \ {kind} : number'[k] = number[k]
    BY <2>3, Successor
  <2>5. \A a \in 1 .. Len(sent) : sent[a].kind \in Kinds /\ sent[a].sequence \in 0 .. SEQUENCE_COUNT - 1
    <3>1. \A a \in 1 .. Len(sent) : sent[a] \in SentFrame
      OBVIOUS
    <3> QED BY <3>1 DEF SentFrame
  <2>n. DOMAIN sent = 1 .. Len(sent)
    OBVIOUS
  <2>p. \A a, b \in 1 .. Len(sent) :
           a < b /\ sent[a].kind = sent[b].kind /\ sent[a].boot = sent[b].boot =>
               Counts(sent, a, b, sent[b].sequence)
    BY <2>n, Zenon DEF Numbered
  <2>q. \A a, b \in 1 .. Len(sent) : a < b => sent[a].boot <= sent[b].boot
    BY <2>n, Zenon DEF Numbered
  <2>r. \A a \in 1 .. Len(sent) : sent[a].boot <= restarts
    BY <2>n, Zenon DEF Numbered
  <2>6. ASSUME NEW a \in 1 .. Len(sent), NEW b \in 1 .. id, NEW x, Counts(sent, a, b, x)
        PROVE  Counts(sent', a, b, x)
    <3>1. PICK d \in 1 .. b - a :
            /\ x = Plus(sent[a].sequence, d)
            /\ d = 1 => \A c \in a + 1 .. b - 1 : sent[c].kind # sent[a].kind
      BY <2>6 DEF Counts
    <3>2. ASSUME NEW c \in a + 1 .. b - 1 PROVE sent'[c] = sent[c]
      <4>1. c \in 1 .. Len(sent)
        OBVIOUS
      <4> QED BY <2>2, <4>1
    <3>3. sent'[a] = sent[a]
      BY <2>2
    <3> QED BY <3>1, <3>2, <3>3 DEF Counts, Plus
  <2>7. ASSUME NEW a \in 1 .. id, NEW b \in 1 .. id, a < b,
               sent'[a].kind = sent'[b].kind, sent'[a].boot = sent'[b].boot
        PROVE  Counts(sent', a, b, sent'[b].sequence)
    <3>1. a \in 1 .. Len(sent) /\ sent'[a] = sent[a]
      BY <2>2, <2>7
    <3>2. CASE b \in 1 .. Len(sent)
      <4>1. sent'[b] = sent[b]
        BY <2>2, <3>2
      <4>2. Counts(sent, a, b, sent[b].sequence)
        BY <2>p, <2>7, <3>1, <3>2, <4>1
      <4> QED BY <2>6, <3>1, <4>1, <4>2
    <3>3. CASE b = id
      <4>1. Counts(sent, a, id, number[kind])
        BY <2>2, <2>7, <3>1, <3>3 DEF Numbered
      <4> QED BY <2>2, <2>6, <3>1, <3>3, <4>1
    <3> QED BY <3>2, <3>3
  <2>8. ASSUME NEW a \in 1 .. id, sent'[a].boot = restarts'
        PROVE  Counts(sent', a, Len(sent') + 1, number'[sent'[a].kind])
    <3>1. CASE a = id
      <4>1. number'[sent'[a].kind] = Plus(sent'[a].sequence, 1)
        BY <2>2, <2>4, <3>1
      <4>2. 1 \in 1 .. (Len(sent') + 1) - a /\ a + 1 .. (Len(sent') + 1) - 1 = {}
        BY <2>2, <3>1
      <4> QED BY <4>1, <4>2 DEF Counts, Plus
    <3>2. CASE a \in 1 .. Len(sent)
      <4>1. sent'[a] = sent[a] /\ Counts(sent, a, id, number[sent[a].kind])
        BY <2>2, <2>3, <2>8, <3>2 DEF Numbered
      <4>2. PICK d \in 1 .. id - a :
              /\ number[sent[a].kind] = Plus(sent[a].sequence, d)
              /\ d = 1 => \A c \in a + 1 .. id - 1 : sent[c].kind # sent[a].kind
        BY <4>1 DEF Counts
      <4>3. CASE sent[a].kind = kind
        <5>1. number'[kind] = Plus(sent[a].sequence, d + 1)
          <6>1. d \in 0 .. MAX_FRAMES
            BY <2>3, NumbersAssumption
          <6> QED BY <2>4, <2>5, <3>2, <4>2, <4>3, <6>1, PlusTwice
        <5>2. d + 1 \in 1 .. (Len(sent') + 1) - a /\ d + 1 # 1
          BY <2>2
        <5> QED BY <4>1, <4>3, <5>1, <5>2 DEF Counts, Plus
      <4>4. CASE sent[a].kind # kind
        <5>1. number'[sent[a].kind] = number[sent[a].kind]
          BY <2>4, <2>5, <3>2, <4>4
        <5>2. d \in 1 .. (Len(sent') + 1) - a
          BY <2>2
        <5>3. d = 1 => \A c \in a + 1 .. (Len(sent') + 1) - 1 : sent'[c].kind # sent[a].kind
          <6> SUFFICES ASSUME d = 1, NEW c \in a + 1 .. (Len(sent') + 1) - 1
                       PROVE  sent'[c].kind # sent[a].kind
            OBVIOUS
          <6>1. CASE c = id
            BY <2>2, <4>4, <6>1
          <6>2. CASE c # id
            <7>1. c \in a + 1 .. id - 1
              <8>1. Len(sent') = id /\ id \in Nat /\ a \in Nat
                BY <2>2, <3>2
              <8>2. c \in a + 1 .. id /\ c # id
                BY <6>2, <8>1
              <8> HIDE DEF id
              <8> QED BY <8>1, <8>2
            <7>2. c \in 1 .. Len(sent)
              <8>1. id - 1 = Len(sent) /\ Len(sent) \in Nat /\ a \in Nat
                BY <2>2, <3>2
              <8> QED BY <3>2, <7>1, <8>1
            <7> QED BY <2>2, <4>2, <7>1, <7>2
          <6> QED BY <6>1, <6>2
        <5> QED BY <4>1, <4>2, <5>1, <5>2, <5>3 DEF Counts, Plus
      <4> QED BY <4>3, <4>4
    <3> QED BY <3>1, <3>2
  <2>9. \A a \in 1 .. Len(sent) : sent'[a].boot <= restarts /\ sent'[a].boot \in Nat
    <3>1. \A a \in 1 .. Len(sent) : sent[a] \in SentFrame
      OBVIOUS
    <3> QED BY <2>2, <2>r, <3>1 DEF SentFrame
  <2>10. \A a \in 1 .. id : sent'[a].boot <= restarts'
    BY <2>2, <2>3, <2>9
  <2>11. ASSUME NEW a \in 1 .. id, NEW b \in 1 .. id, a < b
         PROVE  sent'[a].boot <= sent'[b].boot
    <3>1. a \in 1 .. Len(sent)
      BY <2>11
    <3>2. CASE b = id
      BY <2>2, <2>9, <3>1, <3>2
    <3>3. CASE b \in 1 .. Len(sent)
      BY <2>2, <2>q, <2>11, <3>1, <3>3
    <3> QED BY <3>2, <3>3
  <2> QED BY <2>2, <2>7, <2>8, <2>10, <2>11 DEF Numbered
<1>2. CASE Beat \/ Echo
  <2>1. sent' = sent /\ number' = number /\ restarts' = restarts
    BY <1>2 DEF Beat, Echo
  <2> QED BY <2>1 DEF Numbered, Counts, Plus
<1>3. CASE Restart
  <2>1. sent' = sent /\ restarts' = restarts + 1
    BY <1>3 DEF Restart
  <2>2. \A a \in DOMAIN sent : sent[a].boot \in Nat /\ sent[a].boot <= restarts
    <3>1. \A a \in DOMAIN sent : sent[a] \in SentFrame
      OBVIOUS
    <3> QED BY <3>1 DEF Numbered, SentFrame
  <2>3. \A a \in DOMAIN sent : sent[a].boot <= restarts' /\ sent[a].boot # restarts'
    BY <2>1, <2>2
  <2> QED BY <2>1, <2>3 DEF Numbered
<1> QED BY <1>1, <1>2, <1>3 DEF BoardStep
-----------------------------------------------------------------------------
(* The decoder and the observer.                                            *)

\* What was dropped stays dropped for a reason, whatever is sent next.
LEMMA BoardKeepsDecoder ==
    ASSUME BoardTypeOK, ToolTypeOK, DecoderInv, BoardStep
    PROVE  DecoderInv'
<1> SUFFICES ASSUME tool' \in {"observe", "calibration"}
             PROVE  BufferIsTail' /\ NothingDroppedUnseen' /\ DeliveredWasRead'
  BY DEF DecoderInv
<1>1. /\ tool' = tool /\ buffer' = buffer /\ delivered' = delivered
      /\ position' = position
  BY BoardExtends DEF tool_vars, decoder_vars
<1>2. \A p \in 1 .. position : line'[p] = line[p]
  BY BoardExtends
<1>3. Len(sent') >= Len(sent) /\ \A id \in 1 .. Len(sent) : sent'[id] = sent[id]
  BY BoardExtends
<1>4. BufferIsTail /\ NothingDroppedUnseen /\ DeliveredWasRead
  BY <1>1 DEF DecoderInv
<1>5. position \in Nat /\ Len(buffer) \in Nat /\ Len(buffer) <= position
      /\ Dropped' = Dropped /\ Dropped = position - Len(buffer)
  BY <1>1, <1>4 DEF BoardTypeOK, ToolTypeOK, BufferIsTail, Dropped
<1>6. BufferIsTail'
  <2>1. ASSUME NEW i \in 1 .. Len(buffer) PROVE buffer[i] = line'[Dropped + i]
    <3>1. Dropped + i \in 1 .. position
      BY <1>5
    <3> QED BY <1>2, <1>4, <3>1 DEF BufferIsTail
  <2> QED BY <1>1, <1>4, <1>5, <2>1 DEF BufferIsTail
<1>7. NothingDroppedUnseen'
  <2> SUFFICES ASSUME NEW p \in 1 .. Dropped, NEW id \in 1 .. MAX_FRAMES,
                      NEW trusted \in BOOLEAN,
                      id <= Len(sent') => trusted = sent'[id].trusted
               PROVE  Delivered(id)' \/ Differs(p, Encoded(id, trusted))'
    BY <1>5 DEF NothingDroppedUnseen
  <2>1. id <= Len(sent) => trusted = sent[id].trusted
    BY <1>3, NumbersAssumption DEF BoardTypeOK
  <2>2. Delivered(id) \/ Differs(p, Encoded(id, trusted))
    BY <1>4, <2>1 DEF NothingDroppedUnseen
  <2>3. Delivered(id) => Delivered(id)'
    BY <1>1 DEF Delivered
  <2>4. ASSUME Differs(p, Encoded(id, trusted)) PROVE Differs(p, Encoded(id, trusted))'
    <3> DEFINE f == Encoded(id, trusted)
    <3>i. id \in Nat
      BY NumbersAssumption
    <3>e. f \in Seq(Byte)
      BY <3>i, EncodedIs
    <3>1. f \in Seq(Byte) /\ f' = f
      BY <3>e
    <3> HIDE DEF f
    <3>2. PICK k \in DOMAIN f : p + k - 1 <= position /\ line[p + k - 1] # f[k]
      BY <2>4 DEF Differs, f
    <3>3. p + k - 1 \in 1 .. position
      BY <1>5, <3>1, <3>2
    <3>4. line'[p + k - 1] # f[k] /\ p + k - 1 <= position'
      BY <1>1, <1>2, <3>2, <3>3
    <3> QED BY <3>1, <3>4 DEF Differs, f
  <2> QED BY <2>2, <2>3, <2>4
<1>8. DeliveredWasRead'
  <2>1. \A p \in 1 .. Dropped : line'[p] = line[p]
    BY <1>2, <1>5
  <2> QED BY <1>1, <1>4, <1>5, <2>1 DEF DeliveredWasRead
<1> QED BY <1>6, <1>7, <1>8

\* Frames sent later do not part those that were accepted.
LEMMA BoardKeepsAccepted ==
    ASSUME BoardTypeOK, ToolTypeOK, AcceptedInv, BoardStep
    PROVE  AcceptedInv'
<1>1. /\ delivered' = delivered /\ accepted' = accepted /\ gaps' = gaps /\ faults' = faults
  BY BoardExtends DEF tool_vars, decoder_vars, observer_vars
<1>2. /\ Len(sent') >= Len(sent) /\ Len(sent) \in Nat /\ Len(sent') \in Int
      /\ \A id \in 1 .. Len(sent) : sent'[id] = sent[id]
  BY BoardExtends, BoardKeepsTypes DEF BoardTypeOK
<1>3. ASSUME NEW a \in 1 .. Len(sent), NEW b \in 1 .. Len(sent), Successive(a, b)
      PROVE  Successive(a, b)'
  <2>1. sent'[a] = sent[a] /\ sent'[b] = sent[b]
    BY <1>2
  <2>2. \A c \in a + 1 .. b - 1 : sent'[c] = sent[c]
    <3> SUFFICES ASSUME NEW c \in a + 1 .. b - 1 PROVE sent'[c] = sent[c]
      OBVIOUS
    <3>1. c \in 1 .. Len(sent)
      BY <1>2
    <3> QED BY <1>2, <3>1
  <2> QED BY <1>3, <2>1, <2>2 DEF Successive
<1>4. ASSUME NEW kind \in Kinds, NEW i \in DOMAIN accepted[kind]
      PROVE  /\ Delivered(accepted[kind][i])' /\ accepted[kind][i] \in 1 .. Len(sent')
             /\ accepted[kind][i] \in 1 .. Len(sent)
             /\ sent'[accepted[kind][i]].kind = kind
  <2>1. /\ Delivered(accepted[kind][i]) /\ accepted[kind][i] \in 1 .. Len(sent)
        /\ sent[accepted[kind][i]].kind = kind
    BY DEF AcceptedInv
  <2>2. accepted[kind][i] \in 1 .. Len(sent')
    BY <1>2, <2>1
  <2>3. Delivered(accepted[kind][i])'
    BY <1>1, <2>1 DEF Delivered
  <2> QED BY <1>2, <2>1, <2>2, <2>3
<1>5. ASSUME ~gaps, ~faults, NEW kind \in Kinds
      PROVE  Unbroken(accepted[kind])'
  <2>1. Unbroken(accepted[kind])
    BY <1>5 DEF AcceptedInv
  <2>2. accepted[kind] \in Seq(Nat)
    BY DEF ToolTypeOK
  <2>3. ASSUME NEW i \in 1 .. Len(accepted[kind]) - 1
        PROVE  Successive(accepted[kind][i], accepted[kind][i + 1])'
    <3>1. i \in DOMAIN accepted[kind] /\ i + 1 \in DOMAIN accepted[kind]
      BY <2>2
    <3>2. accepted[kind][i] \in 1 .. Len(sent) /\ accepted[kind][i + 1] \in 1 .. Len(sent)
      BY <1>4, <3>1
    <3>3. Successive(accepted[kind][i], accepted[kind][i + 1])
      BY <2>1 DEF Unbroken
    <3> QED BY <1>1, <1>3, <3>2, <3>3
  <2> QED BY <1>1, <2>3 DEF Unbroken
<1> QED BY <1>1, <1>4, <1>5 DEF AcceptedInv
-----------------------------------------------------------------------------
(* The smoke tool.                                                          *)

\* Bytes that leave the line, or that are no echoes, disturb nothing.
LEMMA FewerEchoes ==
    ASSUME EchoInv, UNCHANGED <<tool, report, smoke_vars>>,
           pending' = pending \/ pending' = <<>>,
           \A i \in DOMAIN line' :
              line'[i][1] = "echo" => i \in DOMAIN line /\ line'[i] = line[i]
    PROVE  EchoInv'
<1>1. EchoUnderWay' => EchoUnderWay
  BY DEF EchoUnderWay
<1>2. \A i \in DOMAIN line' :
         line'[i][1] = "echo" => /\ line[i][1] = "echo" /\ line[i][2] = line'[i][2]
                                 /\ i \in DOMAIN line
  OBVIOUS
<1>3. /\ tool' = tool /\ report' = report /\ probe' = probe /\ timeouts' = timeouts
      /\ answers' = answers
  BY DEF smoke_vars
<1>4. tool = "none" /\ report = NoReport => pending' = <<>> /\ ~EchoUnderWay'
  BY <1>1 DEF EchoInv
<1>5. (NoStrayTaken' <=> NoStrayTaken) /\ (AnswersInv' <=> AnswersInv)
  BY <1>3 DEF NoStrayTaken, AnswersInv, OwnEcho, AfterStray
<1>6. ASSUME tool = "smoke", ~timeouts, NoStrayTaken PROVE OnlyItsEcho'
  <2>1. OnlyItsEcho
    BY <1>6 DEF EchoInv
  <2> QED BY <1>1, <1>2, <1>3, <2>1 DEF OnlyItsEcho
<1>7. tool = "smoke" => /\ probe \in 0 .. Len(PROBES) + 1 /\ answers \in Seq(Byte)
                        /\ (~timeouts => AnswersInv)
  BY DEF EchoInv
<1> QED BY <1>3, <1>4, <1>5, <1>6, <1>7 DEF EchoInv

\* Echo uses up the only probe under way; Restart forgets it.
LEMMA BoardKeepsEcho ==
    ASSUME BoardTypeOK, EchoInv, BoardStep
    PROVE  EchoInv'
<1> USE DEF BoardTypeOK
<1>0. UNCHANGED <<tool, report, smoke_vars>>
  BY BoardExtends DEF tool_vars
<1>1. ASSUME NEW kind \in Kinds, SendFrame(kind) PROVE EchoInv'
  <2> DEFINE id == Len(sent) + 1
  <2>1. PICK trusted \in BOOLEAN : OnLine(Encoded(id, trusted)) /\ pending' = pending
    BY <1>1 DEF SendFrame
  <2>2. id \in Nat
    OBVIOUS
  <2> HIDE DEF id
  <2>3. Encoded(id, trusted) \in Seq(Byte) /\ Len(Encoded(id, trusted)) = 5
    BY <2>2, EncodedIs
  <2>4. \A k \in DOMAIN Encoded(id, trusted) : Encoded(id, trusted)[k][1] # "echo"
    BY <2>2, <2>3, EncodedKinds
  <2>5. \A i \in DOMAIN line' :
           line'[i][1] = "echo" => i \in 1 .. Len(line) /\ line'[i] = line[i]
    BY <2>1, <2>3, <2>4, NoneIsNew
  <2> QED BY <1>0, <2>1, <2>5, FewerEchoes
<1>2. CASE Beat
  <2>1. \A k \in DOMAIN << <<"beat">> >> : << <<"beat">> >>[k][1] # "echo"
    BY BeatBytes
  <2>2. \A i \in DOMAIN line' :
           line'[i][1] = "echo" => i \in 1 .. Len(line) /\ line'[i] = line[i]
    BY <1>2, <2>1, BeatBytes, NoneIsNew DEF Beat
  <2>3. pending' = pending
    BY <1>2 DEF Beat
  <2> QED BY <1>0, <2>2, <2>3, FewerEchoes
<1>3. CASE Echo
  <2>1. pending # <<>> /\ pending' = Tail(pending) /\ report = NoReport
    BY <1>3 DEF Echo, Running
  <2>2. tool # "none"
    BY <2>1 DEF EchoInv
  <2>3. /\ tool' = tool /\ report' = report /\ probe' = probe /\ timeouts' = timeouts
        /\ answers' = answers
    BY <1>0 DEF smoke_vars
  <2>a. (NoStrayTaken' <=> NoStrayTaken) /\ (AnswersInv' <=> AnswersInv)
    BY <2>3 DEF NoStrayTaken, AnswersInv, OwnEcho, AfterStray
  <2>4. CASE tool # "smoke" \/ timeouts \/ ~NoStrayTaken
    BY <2>2, <2>3, <2>4, <2>a DEF EchoInv
  <2>5. CASE tool = "smoke" /\ ~timeouts /\ NoStrayTaken
    <3>1. /\ pending = <<probe>> /\ ~EchoUnderWay /\ probe \notin {0, Len(PROBES) + 1}
          /\ probe \in 0 .. Len(PROBES) + 1
      BY <2>1, <2>5 DEF EchoInv, OnlyItsEcho
    <3>2. Head(pending) = probe /\ pending' = <<>>
      BY <2>1, <3>1
    <3> DEFINE bytes == << <<"echo", probe>> >>
    <3>3. /\ bytes \in Seq(Byte) /\ OnLine(bytes)
          /\ \A k \in DOMAIN bytes : k = 1 /\ bytes[k] = <<"echo", probe>>
      BY <1>3, <3>2, EchoBytes DEF Echo
    <3> HIDE DEF bytes
    <3>4. line' \in Seq(Byte) /\ \A i \in 1 .. Len(line) : line'[i] = line[i]
      BY <3>3, LineGrows
    <3>5. ASSUME NEW i \in DOMAIN line', line'[i][1] = "echo"
          PROVE  i \in Len(line) + 1 .. Len(line')
      <4>1. i \in 1 .. Len(line')
        BY <3>4
      <4>2. i \notin 1 .. Len(line)
        BY <3>1, <3>4, <3>5 DEF EchoUnderWay
      <4> QED BY <4>1, <4>2
    <3>6. ASSUME NEW i \in DOMAIN line', line'[i][1] = "echo"
          PROVE  line'[i][2] = probe
      <4>1. \E k \in DOMAIN bytes : line'[i] = bytes[k]
        BY <3>3, <3>5, <3>6, LineGrows, NoiseIsNeither
      <4> QED BY <3>3, <4>1
    <3>7. ASSUME NEW i \in DOMAIN line', NEW j \in DOMAIN line', i < j,
                 line'[i][1] = "echo", line'[j][1] = "echo"
          PROVE  FALSE
      <4>1. \E k, l \in DOMAIN bytes : k < l /\ line'[i] = bytes[k] /\ line'[j] = bytes[l]
        BY <3>3, <3>5, <3>7, LineGrows, NoiseIsNeither
      <4> QED BY <3>3, <4>1
    <3>8. \A i, j \in DOMAIN line' :
             line'[i][1] = "echo" /\ line'[j][1] = "echo" => i = j
      <4> SUFFICES ASSUME NEW i \in DOMAIN line', NEW j \in DOMAIN line',
                          line'[i][1] = "echo", line'[j][1] = "echo"
                   PROVE  i = j
        OBVIOUS
      <4>1. i \in 1 .. Len(line') /\ j \in 1 .. Len(line')
        BY <3>4
      <4> QED BY <3>7, <4>1
    <3>9. OnlyItsEcho'
      BY <2>3, <3>1, <3>2, <3>6, <3>8 DEF OnlyItsEcho
    <3> QED BY <2>2, <2>3, <2>5, <2>a, <3>9 DEF EchoInv
  <2> QED BY <2>4, <2>5
<1>4. CASE Restart
  <2>1. PICK kept \in position .. Len(line) : line' = SubSeq(line, 1, kept)
    BY <1>4 DEF Restart
  <2>2. kept \in 0 .. Len(line)
    OBVIOUS
  <2>3. \A i \in DOMAIN line' : i \in DOMAIN line /\ line'[i] = line[i]
    BY <2>1, <2>2
  <2>4. pending' = <<>>
    BY <1>4 DEF Restart
  <2> QED BY <1>0, <2>3, <2>4, FewerEchoes
<1> QED BY <1>1, <1>2, <1>3, <1>4 DEF BoardStep

\* The smoke tool reads bytes and touches no frame.
LEMMA SmokeKeepsTypes ==
    ASSUME CommissioningInv, ReadByte \/ ReadTimeout
    PROVE  /\ BoardTypeOK' /\ ToolTypeOK' /\ HeadsInOrder' /\ Numbered' /\ DecoderInv'
           /\ AcceptedInv' /\ report = NoReport /\ report' = report /\ tool' = tool
           /\ tool = "smoke"
<1> USE DEF CommissioningInv
<1>1. /\ tool = "smoke" /\ tool' = tool /\ report' = report /\ position' = position
      /\ sent' = sent /\ number' = number /\ restarts' = restarts /\ image' = image
      /\ UNCHANGED <<decoder_vars, observer_vars>>
  BY DEF ReadByte, ReadTimeout
<1>2. report = NoReport /\ position = 0
  BY <1>1 DEF BoardTypeOK
<1>3. /\ line' \in Seq(Byte)
      /\ \/ line' = line
         \/ \A i \in DOMAIN line' : i + 1 \in DOMAIN line /\ line'[i] = line[i + 1]
  <2>1. CASE ReadTimeout
    BY <2>1 DEF ReadTimeout, BoardTypeOK
  <2>2. CASE ReadByte
    <3>1. line # <<>> /\ line' = Tail(line) /\ line \in Seq(Byte)
      BY <2>2 DEF ReadByte, BoardTypeOK
    <3> QED BY <3>1
  <2> QED BY <2>1, <2>2
<1>4. pending' \in Seq(Nat) /\ probe' \in Nat
  <2>1. pending \in Seq(Nat) /\ probe \in Nat
    BY DEF BoardTypeOK
  <2>2. ASSUME NEW n \in Nat, WriteProbe(n) PROVE pending' \in Seq(Nat) /\ probe' \in Nat
    <3>1. pending' = pending \/ pending' = Append(pending, n)
      BY <2>2 DEF WriteProbe
    <3>2. probe' = n
      BY <2>2 DEF WriteProbe
    <3> QED BY <2>1, <3>1, <3>2
  <2>3. WriteProbe(1) \/ WriteProbe(probe + 1) \/ (pending' = pending /\ probe' = probe)
    BY Zenon DEF ReadByte, ReadTimeout, NextProbe
  <2> QED BY <2>1, <2>2, <2>3
<1>5. BoardTypeOK'
  BY <1>1, <1>2, <1>3, <1>4 DEF BoardTypeOK
<1>6. ToolTypeOK' /\ AcceptedInv' /\ Numbered'
  BY <1>1 DEF ToolTypeOK, AcceptedInv, Numbered, decoder_vars, observer_vars, Unbroken,
              Successive, Delivered
<1>7. HeadsInOrder'
  <2>1. CASE line' = line
    BY <1>1, <2>1 DEF HeadsInOrder
  <2>2. CASE \A i \in DOMAIN line' : i + 1 \in DOMAIN line /\ line'[i] = line[i + 1]
    <3>1. ASSUME NEW i \in DOMAIN line', line'[i][1] = "head" PROVE line'[i][2] \in 1 .. Len(sent)
      BY <2>2, <3>1 DEF HeadsInOrder
    <3>2. ASSUME NEW i \in DOMAIN line', NEW j \in DOMAIN line', i < j,
                 line'[i][1] = "head", line'[j][1] = "head"
          PROVE  line'[i][2] < line'[j][2]
      <4>1. i \in 1 .. Len(line') /\ j \in 1 .. Len(line')
        BY <1>3
      <4>2. i + 1 < j + 1 /\ i + 1 \in DOMAIN line /\ j + 1 \in DOMAIN line
        BY <2>2, <3>2, <4>1
      <4> QED BY <2>2, <3>2, <4>2 DEF HeadsInOrder
    <3> QED BY <1>1, <3>1, <3>2 DEF HeadsInOrder
  <2> QED BY <1>3, <2>1, <2>2
<1>8. DecoderInv'
  BY <1>1 DEF DecoderInv
<1> QED BY <1>1, <1>2, <1>5, <1>6, <1>7, <1>8

\* WriteProbe adds a probe when none is under way, or when one timed out.
LEMMA SmokeKeepsEcho ==
    ASSUME CommissioningInv, ReadByte \/ ReadTimeout
    PROVE  EchoInv'
<1>1. /\ tool = "smoke" /\ tool' = "smoke" /\ report' = report /\ BoardTypeOK /\ EchoInv
  BY SmokeKeepsTypes DEF CommissioningInv
<1>2. /\ probe \in 0 .. Len(PROBES) /\ Len(PROBES) \in Nat
      /\ probe' \in {probe, probe + 1} /\ (timeouts => timeouts')
  <2>1. Len(PROBES) \in Nat /\ probe \in Nat
    BY <1>1, ProbesAssumption DEF BoardTypeOK
  <2>2. probe <= Len(PROBES)
    BY DEF ReadByte, ReadTimeout
  <2>3. timeouts => timeouts'
    BY Zenon DEF ReadByte, ReadTimeout
  <2>4. probe' = probe \/ probe' = probe + 1
    <3>1. CASE ReadTimeout
      BY <3>1 DEF ReadTimeout, WriteProbe
    <3>2. CASE ReadByte
      <4>1. \/ probe = 0 /\ WriteProbe(1)
            \/ WriteProbe(probe + 1)
            \/ probe' = probe
        BY <3>2, Zenon DEF ReadByte, NextProbe
      <4> QED BY <2>1, <4>1 DEF WriteProbe
    <3> QED BY <3>1, <3>2
  <2> QED BY <2>1, <2>2, <2>3, <2>4
<1>3. probe' \in 0 .. Len(PROBES) + 1
  BY <1>2
<1>4. Len(answers) \in Nat /\ answers \in Seq(Byte)
  BY <1>1 DEF EchoInv
\* No echo is left, and nothing is under way: the next probe may be written.
<1>5. ASSUME WriteProbe(probe + 1), pending = <<>>, ~EchoUnderWay'
      PROVE  OnlyItsEcho'
  <2>1. Append(<<>>, probe + 1) = <<probe + 1>>
    OBVIOUS
  <2>2. /\ probe' = probe + 1 /\ probe' # 0 /\ pending' \in {<<>>, <<probe'>>}
        /\ probe' = Len(PROBES) + 1 => pending' = <<>>
    BY <1>2, <1>5, <2>1 DEF WriteProbe
  <2>3. \A i \in DOMAIN line' : line'[i][1] # "echo"
    BY <1>5 DEF EchoUnderWay
  <2> QED BY <1>5, <2>2, <2>3 DEF OnlyItsEcho
\* What the invariant asks of the step.
<1>6. ASSUME answers' \in Seq(Byte), ~timeouts' => AnswersInv',
             ~timeouts' /\ NoStrayTaken' => OnlyItsEcho'
      PROVE  EchoInv'
  BY <1>1, <1>3, <1>6 DEF EchoInv
<1>7. ASSUME answers' = answers, probe' = probe \/ (probe = 0 /\ probe' = 1)
      PROVE  /\ answers' \in Seq(Byte) /\ (AnswersInv => AnswersInv')
             /\ (NoStrayTaken' <=> NoStrayTaken)
  BY <1>4, <1>7 DEF AnswersInv, NoStrayTaken, OwnEcho, AfterStray
<1>8. CASE ReadTimeout
  <2>1. answers' = answers /\ line' = line /\ WriteProbe(probe + 1) /\ probe' = probe + 1
    BY <1>8 DEF ReadTimeout, WriteProbe
  <2>2. CASE timeouts'
    BY <1>4, <1>6, <2>1, <2>2
  <2>3. CASE ~timeouts'
    <3>1. probe = 0 /\ ~timeouts /\ probe' = 1
      <4>1. ~(probe > 0) /\ ~timeouts
        BY <1>8, <2>3, Zenon DEF ReadTimeout
      <4> QED BY <1>2, <2>1, <4>1
    <3>2. AnswersInv /\ (NoStrayTaken => OnlyItsEcho)
      BY <1>1, <3>1 DEF EchoInv
    <3>3. ASSUME NoStrayTaken' PROVE OnlyItsEcho'
      <4>1. pending = <<>> /\ ~EchoUnderWay
        BY <1>7, <2>1, <3>1, <3>2, <3>3 DEF OnlyItsEcho
      <4>2. ~EchoUnderWay'
        BY <2>1, <4>1 DEF EchoUnderWay
      <4> QED BY <1>5, <2>1, <4>1, <4>2
    <3> QED BY <1>6, <1>7, <2>1, <3>1, <3>2, <3>3
  <2> QED BY <2>2, <2>3
<1>9. CASE ReadByte
  <2>1. line # <<>> /\ line' = Tail(line) /\ line \in Seq(Byte) /\ timeouts' = timeouts
    BY <1>1, <1>9 DEF ReadByte, BoardTypeOK
  <2>2. /\ 1 \in DOMAIN line /\ Head(line) = line[1] /\ Head(line) \in Byte
        /\ \A i \in DOMAIN line' :
              i \in Nat /\ i + 1 \in DOMAIN line /\ i + 1 # 1 /\ line'[i] = line[i + 1]
    BY <2>1
  <2>3. EchoUnderWay' => EchoUnderWay
    BY <2>2 DEF EchoUnderWay
  <2>a. ~timeouts => AnswersInv /\ (NoStrayTaken => OnlyItsEcho)
    BY <1>1 DEF EchoInv
  <2>4. CASE probe = 0 /\ WriteProbe(1) /\ UNCHANGED answers
    <3>1. probe + 1 = 1 /\ probe' = 1
      BY <2>4 DEF WriteProbe
    <3>2. ASSUME ~timeouts', NoStrayTaken' PROVE OnlyItsEcho'
      <4>1. pending = <<>> /\ ~EchoUnderWay
        BY <1>7, <2>1, <2>4, <2>a, <3>1, <3>2 DEF OnlyItsEcho
      <4> QED BY <1>5, <2>3, <2>4, <3>1, <4>1
    <3> QED BY <1>6, <1>7, <2>1, <2>4, <2>a, <3>1, <3>2
  <2>5. CASE probe > 0 /\ IsAnswer(Head(line)) /\ NextProbe(Head(line))
    <3> DEFINE b == Head(line)
    <3>1. /\ b[1] \in {"echo", "stray"} /\ WriteProbe(probe + 1) /\ probe' = probe + 1
          /\ answers' = Append(answers, b)
      BY <2>5, Zenon DEF IsAnswer, NextProbe, WriteProbe, Value
    <3>2. b \in Byte /\ b = line[1] /\ 1 \in DOMAIN line
      BY <2>2
    <3> HIDE DEF b
    <3>3. /\ answers' \in Seq(Byte) /\ Len(answers') = Len(answers) + 1
          /\ \A n \in DOMAIN answers : n \in DOMAIN answers' /\ answers'[n] = answers[n]
          /\ \A n \in DOMAIN answers' : n \in DOMAIN answers \/ n = Len(answers) + 1
          /\ answers'[Len(answers) + 1] = b /\ Len(answers) + 1 \in DOMAIN answers'
      BY <1>4, <3>1, <3>2
    <3> SUFFICES ASSUME ~timeouts' PROVE AnswersInv' /\ (NoStrayTaken' => OnlyItsEcho')
      BY <1>6, <3>3
    <3>4. Len(answers) = probe - 1 /\ Len(answers) + 1 = probe
      BY <1>2, <2>1, <2>5, <2>a DEF AnswersInv
    <3>5. ASSUME NoStrayTaken
          PROVE  b[1] = "echo" => b = <<"echo", probe>> /\ pending = <<>> /\ ~EchoUnderWay'
      <4> SUFFICES ASSUME b[1] = "echo"
                   PROVE  b = <<"echo", probe>> /\ pending = <<>> /\ ~EchoUnderWay'
        OBVIOUS
      <4>1. OnlyItsEcho
        BY <2>1, <2>a, <3>5
      <4>2. b[2] = probe /\ pending = <<>>
        BY <3>2, <4>1 DEF OnlyItsEcho, EchoUnderWay
      <4>3. ~EchoUnderWay'
        BY <2>2, <3>2, <4>1 DEF OnlyItsEcho, EchoUnderWay
      <4> QED BY <3>2, <4>2, <4>3, EchoForm
    <3>6. ASSUME NoStrayTaken' PROVE OnlyItsEcho'
      <4>1. b[1] # "stray"
        BY <3>3, <3>6 DEF NoStrayTaken
      <4>2. NoStrayTaken
        BY <3>3, <3>6 DEF NoStrayTaken
      <4> QED BY <1>5, <3>1, <3>5, <4>1, <4>2
    <3>7. AnswersInv'
      <4>1. Len(answers') = probe /\ probe' = probe + 1 /\ probe' # 0 /\ probe' - 1 = probe
        BY <1>2, <3>1, <3>3, <3>4
      <4>2. ASSUME NEW n \in DOMAIN answers PROVE (OwnEcho(n) \/ AfterStray(n))'
        <5>1. OwnEcho(n) \/ AfterStray(n)
          BY <2>1, <2>a DEF AnswersInv
        <5>2. \A m \in 1 .. n : answers'[m] = answers[m]
          BY <1>4, <3>3
        <5> QED BY <3>3, <5>1, <5>2 DEF OwnEcho, AfterStray
      <4>3. ASSUME NEW n, n = probe PROVE (OwnEcho(n) \/ AfterStray(n))'
        <5>1. CASE ~NoStrayTaken
          <6>1. PICK m \in DOMAIN answers : answers[m][1] = "stray"
            BY <5>1 DEF NoStrayTaken
          <6>2. m \in 1 .. n /\ answers'[m][1] = "stray"
            BY <1>2, <1>4, <3>3, <3>4, <4>3, <6>1
          <6> QED BY <6>2 DEF AfterStray
        <5>2. CASE NoStrayTaken /\ b[1] = "stray"
          <6>1. n \in 1 .. n /\ answers'[n][1] = "stray"
            BY <1>2, <2>5, <3>3, <3>4, <4>3, <5>2
          <6> QED BY <6>1 DEF AfterStray
        <5>3. CASE NoStrayTaken /\ b[1] = "echo"
          <6>1. answers'[n] = <<"echo", n>>
            BY <3>3, <3>4, <3>5, <4>3, <5>3
          <6> QED BY <6>1 DEF OwnEcho
        <5> QED BY <3>1, <5>1, <5>2, <5>3
      <4>4. ASSUME NEW n \in DOMAIN answers' PROVE (OwnEcho(n) \/ AfterStray(n))'
        BY <3>3, <3>4, <4>2, <4>3
      <4> QED BY <4>1, <4>4 DEF AnswersInv
    <3> QED BY <3>6, <3>7
  <2>6. CASE UNCHANGED <<probe, answers, pending>>
    <3>1. ASSUME OnlyItsEcho PROVE OnlyItsEcho'
      <4>1. \A i \in DOMAIN line' : line'[i][1] = "echo" => line'[i][2] = probe
        BY <2>2, <3>1 DEF OnlyItsEcho
      <4>2. \A i, j \in DOMAIN line' : line'[i][1] = "echo" /\ line'[j][1] = "echo" => i = j
        <5> SUFFICES ASSUME NEW i \in DOMAIN line', NEW j \in DOMAIN line',
                            line'[i][1] = "echo", line'[j][1] = "echo"
                     PROVE  i = j
          OBVIOUS
        <5>1. i + 1 = j + 1
          BY <2>2, <3>1 DEF OnlyItsEcho
        <5> QED BY <2>2, <5>1
      <4> QED BY <2>3, <2>6, <3>1, <4>1, <4>2 DEF OnlyItsEcho
    <3> QED BY <1>6, <1>7, <2>1, <2>6, <2>a, <3>1
  <2> QED BY <1>9, <2>4, <2>5, <2>6 DEF ReadByte
<1> QED BY <1>8, <1>9
-----------------------------------------------------------------------------
(* A tool starts, and ends with its report.                                 *)

\* Nothing is claimed before the report is printed.
LEMMA NoReportYet ==
    ASSUME report' = NoReport
    PROVE  PassMeansIntact' /\ EchoesAreOwn'
BY DEF PassMeansIntact, EchoesAreOwn

\* Start resets the input: what is left of the line has the old order.
LEMMA StartKeepsInvariant ==
    ASSUME CommissioningInv, NEW t \in {"smoke", "observe", "calibration"}, Start(t)
    PROVE  CommissioningInv'
<1> USE DEF CommissioningInv
<1>1. /\ tool = "none" /\ tool' = t /\ report = NoReport /\ report' = NoReport
      /\ position' = 0 /\ sent' = sent /\ number' = number /\ restarts' = restarts
      /\ image' = image /\ pending' = pending /\ buffer' = <<>> /\ delivered' = <<>>
      /\ accepted' = [kind \in Kinds |-> <<>>] /\ probe' = 0 /\ answers' = <<>>
      /\ timeouts' = FALSE
  BY DEF Start, Running, FreshTool
<1>2. \E shift \in Nat :
         /\ line' \in Seq(Byte)
         /\ \A i \in DOMAIN line' : i \in Nat /\ i + shift \in DOMAIN line
                                    /\ line'[i] = line[i + shift]
  <2>1. CASE line' = <<>>
    <3>1. line' \in Seq(Byte) /\ DOMAIN line' = {} /\ 0 \in Nat
      BY <2>1
    <3> QED BY <3>1
  <2>2. CASE \E tail \in 1 .. Total(1) - 1 :
                /\ tail <= Len(line)
                /\ line' = SubSeq(line, Len(line) - tail + 1, Len(line))
    <3>1. PICK tail \in 1 .. Total(1) - 1 :
            /\ tail <= Len(line) /\ line' = SubSeq(line, Len(line) - tail + 1, Len(line))
      BY <2>2
    <3>2. tail \in 1 .. Len(line) /\ line \in Seq(Byte)
      BY <3>1 DEF BoardTypeOK, Total, HEADER_SIZE
    <3> DEFINE shift == Len(line) - tail
    <3>3. shift \in Nat /\ line' \in Seq(Byte) /\ Len(line') = tail
          /\ \A i \in 1 .. tail : line'[i] = line[i + shift]
      BY <3>1, <3>2
    <3>4. \A i \in DOMAIN line' : i \in 1 .. tail /\ i + shift \in DOMAIN line
      BY <3>2, <3>3
    <3> HIDE DEF shift
    <3>5. \A i \in DOMAIN line' : i \in Nat /\ i + shift \in DOMAIN line
                                   /\ line'[i] = line[i + shift]
      BY <3>3, <3>4
    <3> QED BY <3>3, <3>5
  <2> QED BY <2>1, <2>2 DEF Start
<1>3. PICK shift \in Nat :
         /\ line' \in Seq(Byte)
         /\ \A i \in DOMAIN line' : i \in Nat /\ i + shift \in DOMAIN line
                                    /\ line'[i] = line[i + shift]
  BY <1>2
<1>4. BoardTypeOK'
  <2>1. 0 \in 0 .. Len(line') /\ 0 \in Nat
    BY <1>3
  <2> QED BY <1>1, <1>3, <2>1 DEF BoardTypeOK
<1>5. ToolTypeOK'
  BY <1>1 DEF ToolTypeOK
<1>6. HeadsInOrder'
  <2>1. ASSUME NEW i \in DOMAIN line', line'[i][1] = "head" PROVE line'[i][2] \in 1 .. Len(sent)
    BY <1>3, <2>1 DEF HeadsInOrder
  <2>2. ASSUME NEW i \in DOMAIN line', NEW j \in DOMAIN line', i < j,
               line'[i][1] = "head", line'[j][1] = "head"
        PROVE  line'[i][2] < line'[j][2]
    <3>1. i + shift < j + shift
      BY <1>3, <2>2
    <3> QED BY <1>3, <2>2, <3>1 DEF HeadsInOrder
  <2> QED BY <1>1, <2>1, <2>2 DEF HeadsInOrder
<1>7. Numbered'
  BY <1>1 DEF Numbered
<1>8. DecoderInv'
  <2>1. Dropped' = 0 /\ Len(buffer') = 0 /\ DOMAIN delivered' = {}
    <3>1. Len(<<>>) = 0 /\ DOMAIN <<>> = {} /\ 0 - 0 = 0
      OBVIOUS
    <3>2. Dropped' = position' - Len(buffer')
      BY DEF Dropped
    <3> QED BY <1>1, <3>1, <3>2
  <2> QED BY <1>1, <2>1 DEF DecoderInv, BufferIsTail, StartsWithMarker, NothingDroppedUnseen,
         DeliveredWasRead
<1>9. AcceptedInv'
  <2>1. \A kind \in Kinds : accepted'[kind] = <<>> /\ DOMAIN accepted'[kind] = {}
    BY <1>1
  <2>2. Len(<<>>) = 0 /\ 1 .. 0 - 1 = {}
    OBVIOUS
  <2> QED BY <2>1, <2>2 DEF AcceptedInv, Unbroken
<1>10. EchoInv'
  <2>1. pending = <<>> /\ ~EchoUnderWay
    BY <1>1 DEF EchoInv
  <2>2. ~EchoUnderWay'
    BY <1>3, <2>1 DEF EchoUnderWay
  <2>3. \A i \in DOMAIN line' : line'[i][1] # "echo"
    BY <2>2 DEF EchoUnderWay
  <2>4. Len(PROBES) \in Nat /\ 0 \in 0 .. Len(PROBES) + 1
    BY ProbesAssumption
  <2>5. AnswersInv'
    <3>1. Len(<<>>) = 0 /\ DOMAIN <<>> = {}
      OBVIOUS
    <3> QED BY <1>1, <3>1 DEF AnswersInv
  <2>6. OnlyItsEcho'
    BY <1>1, <2>1, <2>2, <2>3 DEF OnlyItsEcho
  <2>7. answers' \in Seq(Byte)
    BY <1>1
  <2> QED BY <1>1, <2>1, <2>2, <2>4, <2>5, <2>6, <2>7 DEF EchoInv
<1>11. PassMeansIntact' /\ EchoesAreOwn'
  BY <1>1, NoReportYet
<1> QED BY <1>1, <1>4, <1>5, <1>6, <1>7, <1>8, <1>9, <1>10, <1>11

\* The verdict of a tool and the link check it writes, computed apart.
LEMMA FinishKeepsInvariant ==
    ASSUME CommissioningInv, Finish
    PROVE  CommissioningInv'
<1> USE DEF CommissioningInv
<1>1. /\ tool # "none" /\ tool' = "none" /\ (tool = "smoke" => probe > Len(PROBES))
      /\ report' = [tool |-> tool, pass |-> Verdict,
                    linkIntegrity |-> tool = "observe" /\ LinkIntegrity]
      /\ UNCHANGED <<board_vars, line, position, decoder_vars, observer_vars, smoke_vars>>
  BY DEF Finish
<1>2. report' # NoReport
  <2>1. report'.tool = tool /\ NoReport.tool = "none"
    BY <1>1 DEF NoReport
  <2> QED BY <1>1, <2>1
<1>3. BoardTypeOK' /\ ToolTypeOK' /\ HeadsInOrder' /\ Numbered' /\ AcceptedInv'
  BY <1>1, <1>2 DEF BoardTypeOK, ToolTypeOK, HeadsInOrder, Numbered, AcceptedInv, board_vars,
     decoder_vars, observer_vars, smoke_vars, Unbroken, Successive, Delivered
<1>4. DecoderInv' /\ EchoInv'
  BY <1>1, <1>2 DEF DecoderInv, EchoInv
<1>5. PassMeansIntact'
  <2> SUFFICES ASSUME tool # "smoke", report'.pass \/ report'.linkIntegrity, NEW kind \in Kinds
               PROVE  Unbroken(accepted[kind])'
    BY <1>1 DEF PassMeansIntact
  <2>1. SequenceIntegrityPass
    <3>1. CASE report'.linkIntegrity
      BY <1>1, <3>1 DEF LinkIntegrity
    <3>2. CASE report'.pass /\ tool = "observe"
      BY <1>1, <3>2 DEF Verdict, CommissioningPass
    <3>3. CASE report'.pass /\ tool = "calibration"
      BY <1>1, <3>3 DEF Verdict, CapturePass
    <3> QED BY <1>1, <3>1, <3>2, <3>3 DEF BoardTypeOK
  <2>2. Unbroken(accepted[kind])
    BY <2>1 DEF SequenceIntegrityPass, AcceptedInv
  <2> QED BY <1>1, <2>2 DEF Unbroken, Successive, observer_vars, board_vars
<1>6. EchoesAreOwn'
  <2> SUFFICES ASSUME tool = "smoke", report'.pass
               PROVE  /\ Len(answers') = Len(PROBES)
                      /\ \A n \in DOMAIN PROBES : OwnEcho(n)' \/ AfterStray(n)'
    BY <1>1 DEF EchoesAreOwn
  <2>1. ~timeouts /\ Len(answers) = Len(PROBES)
    BY <1>1 DEF Verdict, EchoPass
  <2>2. AnswersInv /\ answers \in Seq(Byte)
    BY <2>1 DEF EchoInv
  <2>3. DOMAIN answers = DOMAIN PROBES
    BY <2>1, <2>2, ProbesAssumption
  <2>4. \A n \in DOMAIN PROBES : OwnEcho(n) \/ AfterStray(n)
    BY <2>2, <2>3 DEF AnswersInv
  <2> QED BY <1>1, <2>1, <2>4 DEF OwnEcho, AfterStray, smoke_vars
<1> QED BY <1>1, <1>3, <1>4, <1>5, <1>6
-----------------------------------------------------------------------------
(* A read, and a round of the decoder's loop.                               *)

\* A length is a number, and that of a header is right.
LEMMA LengthForm ==
    ASSUME NEW b \in Byte
    PROVE  LengthIn(b) \in Nat /\ (b[1] = "head" => LengthIn(b) = 1)
<1>1. b[1] = "head" => b[3] = 1
  BY HeadForm
<1>2. b[1] = "junk" => b[2] \in Nat
  BY DEF Byte, A5
<1> QED BY <1>1, <1>2, BufferAssumption DEF LengthIn

\* A decoder that waits has room for one more chunk.
LEMMA WaitingIsShort ==
    ASSUME NEW b \in Seq(Byte), StartsWithMarker(b), Waits(b)
    PROVE  Len(b) <= MAX_PAYLOAD + 3
<1>1. CASE SofIn(b) = {}
  <2>1. ASSUME Len(b) >= 2 PROVE FALSE
    <3>1. b[1] = A5 /\ b[1 + 1] = <<"5A">> /\ 1 \in 1 .. Len(b) - 1
      BY <2>1 DEF StartsWithMarker
    <3> QED BY <1>1, <3>1, MarkerAt
  <2> QED BY <2>1, BufferAssumption
<1>2. CASE Len(b) < HEADER_SIZE
  BY <1>2, BufferAssumption DEF HEADER_SIZE
<1>3. CASE SofIn(b) # {} /\ Len(b) >= HEADER_SIZE
  <2>1. b[HEADER_SIZE] \in Byte
    BY <1>3 DEF HEADER_SIZE
  <2>2. LengthIn(b[HEADER_SIZE]) \in Nat
    BY <2>1, LengthForm
  <2>3. LengthIn(b[HEADER_SIZE]) <= MAX_PAYLOAD /\ Len(b) < Total(LengthIn(b[HEADER_SIZE]))
    BY <1>3 DEF Waits
  <2> QED BY <2>2, <2>3, BufferAssumption DEF Total, HEADER_SIZE
<1> QED BY <1>1, <1>2, <1>3 DEF HEADER_SIZE

\* The search for the next marker keeps the invariant if what was dropped
\* before it began is accounted for.
LEMMA SearchKeepsInvariant ==
    ASSUME BoardTypeOK, BufferIsTail, NothingDroppedUnseen, ToolTypeOK,
           sent' = sent, line' = line, position' \in position .. Len(line),
           NEW c \in Seq(Byte), Len(c) <= position', buffer' = DiscardUntilSof(c),
           \A i \in 1 .. Len(c) : c[i] = line[(position' - Len(c)) + i],
           position' - Len(c) >= Dropped,
           \A id : Delivered(id) => Delivered(id)',
           \A p \in Dropped + 1 .. position' - Len(c), id \in 1 .. MAX_FRAMES,
              trusted \in BOOLEAN :
              (id <= Len(sent) => trusted = sent[id].trusted) =>
                  Delivered(id)' \/ Differs(p, Encoded(id, trusted))'
    PROVE  /\ buffer' \in Seq(Byte) /\ BufferIsTail' /\ NothingDroppedUnseen'
           /\ Dropped' >= position' - Len(c) /\ Dropped' \in Nat
<1> DEFINE base == position' - Len(c)
           n == Len(c) - Len(buffer')
<1>1. /\ position \in Nat /\ position' \in Nat /\ position <= position'
      /\ Len(c) \in Nat /\ base \in Nat /\ Dropped \in Nat /\ Dropped <= base
  BY DEF BoardTypeOK, ToolTypeOK, BufferIsTail, Dropped
<1>2. /\ buffer' \in Seq(Byte) /\ Len(buffer') <= Len(c) /\ StartsWithMarker(buffer')
      /\ \A i \in 1 .. Len(buffer') : buffer'[i] = c[n + i]
      /\ \A i \in 1 .. n : c[i] # A5 \/ (i + 1 <= Len(c) /\ c[i + 1] # <<"5A">>)
  BY DiscardKeepsMarkers
<1>3. Len(buffer') \in Nat /\ n \in Nat /\ Dropped' = base + n /\ Dropped' = position' - Len(buffer')
  BY <1>1, <1>2 DEF Dropped
<1>b. Len(c) = n + Len(buffer') /\ position' = base + Len(c)
  BY <1>1, <1>2, <1>3
<1>c. \A i \in 1 .. Len(c) : c[i] = line[base + i]
  OBVIOUS
<1> HIDE DEF n, base
<1>4. BufferIsTail'
  <2>1. ASSUME NEW i \in 1 .. Len(buffer') PROVE buffer'[i] = line'[Dropped' + i]
    <3>1. n + i \in 1 .. Len(c) /\ Dropped' + i = base + (n + i)
      BY <1>1, <1>3, <1>b
    <3> QED BY <1>2, <1>c, <3>1
  <2> QED BY <1>1, <1>2, <1>3, <2>1 DEF BufferIsTail
<1>5. ASSUME NEW p \in 1 .. Dropped', NEW id \in 1 .. MAX_FRAMES, NEW trusted \in BOOLEAN,
             id <= Len(sent) => trusted = sent[id].trusted
      PROVE  Delivered(id)' \/ Differs(p, Encoded(id, trusted))'
  <2> DEFINE f == Encoded(id, trusted)
  <2>1. /\ f \in Seq(Byte) /\ f' = f /\ Len(f) = 5 /\ DOMAIN f = 1 .. 5
        /\ f[1] = A5 /\ f[2] = <<"5A">>
    BY EncodedIs, NumbersAssumption
  <2>2. ASSUME NEW k \in 1 .. 5, p + k - 1 <= position', line[p + k - 1] # f[k]
        PROVE  Differs(p, Encoded(id, trusted))'
    BY <2>1, <2>2 DEF Differs
  <2> HIDE DEF f
  <2>3. CASE p \in 1 .. Dropped
    <3>1. Delivered(id) \/ Differs(p, f)
      BY <1>5, <2>3 DEF NothingDroppedUnseen, f
    <3>2. ASSUME Differs(p, f) PROVE Differs(p, Encoded(id, trusted))'
      <4>1. PICK k \in 1 .. 5 : p + k - 1 <= position /\ line[p + k - 1] # f[k]
        BY <2>1, <3>2 DEF Differs
      <4>2. p + k - 1 <= position'
        BY <1>1, <4>1
      <4> QED BY <2>2, <4>1, <4>2
    <3> QED BY <3>1, <3>2
  <2>4. CASE p \in Dropped + 1 .. base
    BY <1>5, <2>4 DEF base
  <2>5. CASE p \in base + 1 .. base + n
    <3> DEFINE i == p - base
    <3>1. i \in 1 .. n /\ p = base + i
      BY <1>1, <1>3, <2>5
    <3> HIDE DEF i
    <3>2. i \in 1 .. Len(c) /\ p <= position' /\ p \in Nat
      <4>1. /\ base \in Nat /\ n \in Nat /\ Len(c) \in Nat /\ Len(c) >= n
            /\ position' = base + Len(c)
        BY <1>1, <1>3, <1>b
      <4>2. i \in 1 .. Len(c)
        BY <3>1, <4>1
      <4>3. p \in Nat /\ p <= position'
        BY <3>1, <4>1, <4>2
      <4> QED BY <4>2, <4>3
    <3>3. CASE c[i] # A5
      <4>1. p + 1 - 1 = p /\ line[p] # f[1]
        BY <1>c, <2>1, <3>1, <3>2, <3>3
      <4>2. 1 \in 1 .. 5 /\ p + 1 - 1 <= position' /\ line[p + 1 - 1] # f[1]
        BY <3>2, <4>1
      <4> QED BY <2>2, <4>2
    <3>4. CASE i + 1 <= Len(c) /\ c[i + 1] # <<"5A">>
      <4>1. i + 1 \in 1 .. Len(c) /\ base + (i + 1) = p + 2 - 1 /\ p + 2 - 1 <= position'
        BY <1>1, <1>b, <3>1, <3>2, <3>4
      <4>2. 2 \in 1 .. 5 /\ line[p + 2 - 1] # f[2]
        BY <1>c, <2>1, <3>4, <4>1
      <4> QED BY <2>2, <4>1, <4>2
    <3> QED BY <1>2, <3>1, <3>3, <3>4
  <2>6. /\ base \in Nat /\ n \in Nat /\ Dropped \in Nat /\ Dropped <= base
        /\ p \in 1 .. base + n
    BY <1>1, <1>3
  <2>7. p \in 1 .. Dropped \/ p \in Dropped + 1 .. base \/ p \in base + 1 .. base + n
    BY <2>6
  <2> QED BY <2>3, <2>4, <2>5, <2>7
<1>6. NothingDroppedUnseen'
  BY <1>5, Zenon DEF NothingDroppedUnseen
<1>7. Dropped' >= position' - Len(c) /\ Dropped' \in Nat
  <2>1. Dropped' = base + n /\ base \in Nat /\ n \in Nat
    BY <1>1, <1>3
  <2> QED BY <2>1 DEF base
<1> QED BY <1>2, <1>4, <1>6, <1>7

\* ReadChunk: the buffer never overflows, so nothing is dropped unseen.
LEMMA ReadKeepsInvariant ==
    ASSUME CommissioningInv, ReadChunk
    PROVE  CommissioningInv'
<1> USE DEF CommissioningInv
<1>1. /\ tool \in {"observe", "calibration"} /\ Waits(buffer) /\ tool' = tool
      /\ UNCHANGED <<board_vars, line, errors, delivered, observer_vars, smoke_vars, report>>
  BY DEF ReadChunk
<1>2. /\ sent' = sent /\ line' = line /\ delivered' = delivered /\ accepted' = accepted
      /\ report' = report /\ report = NoReport
  BY <1>1 DEF board_vars, observer_vars
<1>3. /\ BufferIsTail /\ NothingDroppedUnseen /\ DeliveredWasRead
      /\ buffer \in Seq(Byte) /\ line \in Seq(Byte) /\ position \in 0 .. Len(line)
  BY <1>1 DEF DecoderInv, ToolTypeOK, BoardTypeOK
<1>4. PICK n \in 1 .. CHUNK :
        /\ position + n <= Len(line) /\ position' = position + n
        /\ buffer' = DiscardUntilSof(
                       Bounded(buffer \o SubSeq(line, position + 1, position + n)))
  BY DEF ReadChunk
<1> DEFINE chunk == SubSeq(line, position + 1, position + n)
           c == buffer \o chunk
<1>5. /\ chunk \in Seq(Byte) /\ Len(chunk) = n
      /\ \A i \in 1 .. n : chunk[i] = line[position + i]
  <2>1. n \in Nat /\ position + n \in Nat /\ position + 1 \in 1 .. Len(line)
        /\ position + n \in 1 .. Len(line)
    BY <1>3, <1>4, BufferAssumption
  <2> QED BY <1>3, <1>4, <2>1
<1> HIDE DEF chunk
<1>6. /\ c \in Seq(Byte) /\ Len(c) = Len(buffer) + n
      /\ \A i \in 1 .. Len(c) :
            c[i] = IF i <= Len(buffer) THEN buffer[i] ELSE chunk[i - Len(buffer)]
  BY <1>3, <1>5, ConcatProperties
<1> HIDE DEF c
<1>7. Bounded(c) = c
  <2>1. Len(buffer) <= MAX_PAYLOAD + 3 /\ Len(buffer) \in Nat
    BY <1>1, <1>3, WaitingIsShort DEF BufferIsTail
  <2>2. Len(c) <= MAX_BUFFER
    BY <1>4, <1>6, <2>1, BufferAssumption
  <2> QED BY <1>6, <2>2, BufferAssumption DEF Bounded
<1>8. /\ Len(buffer) \in Nat /\ Len(c) \in Nat /\ n \in Nat /\ Dropped = position - Len(buffer)
      /\ position' - Len(c) = Dropped /\ Len(c) <= position' /\ position' \in position .. Len(line)
      /\ Dropped \in Nat
  BY <1>3, <1>4, <1>6 DEF BufferIsTail, Dropped
<1>9. ASSUME NEW i \in 1 .. Len(c) PROVE c[i] = line[(position' - Len(c)) + i]
  <2>1. CASE i <= Len(buffer)
    BY <1>3, <1>6, <1>8, <2>1 DEF BufferIsTail
  <2>2. CASE i > Len(buffer)
    <3>1. i - Len(buffer) \in 1 .. n
      BY <1>6, <1>8, <2>2
    <3>2. position + (i - Len(buffer)) = (position' - Len(c)) + i
      BY <1>3, <1>8, <2>2
    <3> QED BY <1>5, <1>6, <1>8, <2>2, <3>1, <3>2
  <2> QED BY <1>8, <2>1, <2>2
<1>10. /\ buffer' \in Seq(Byte) /\ BufferIsTail' /\ NothingDroppedUnseen'
       /\ Dropped' >= Dropped /\ Dropped' \in Nat
  <2>1. buffer' = DiscardUntilSof(c)
    BY <1>4, <1>7 DEF c, chunk
  <2>2. \A id : Delivered(id) => Delivered(id)'
    BY <1>2 DEF Delivered
  <2>3. Dropped + 1 .. position' - Len(c) = {} /\ position' - Len(c) >= Dropped
    BY <1>8
  <2> QED BY <1>2, <1>3, <1>6, <1>8, <1>9, <2>1, <2>2, <2>3, SearchKeepsInvariant
<1>11. DeliveredWasRead'
  <2>1. \A p \in 1 .. Dropped : p \in 1 .. Dropped'
    BY <1>8, <1>10
  <2> QED BY <1>2, <1>3, <2>1 DEF DeliveredWasRead
<1>12. BoardTypeOK'
  BY <1>1, <1>2, <1>3, <1>8 DEF BoardTypeOK, board_vars, smoke_vars
<1>13. ToolTypeOK' /\ HeadsInOrder' /\ Numbered' /\ AcceptedInv'
  BY <1>1, <1>2, <1>10 DEF ToolTypeOK, HeadsInOrder, Numbered, AcceptedInv, board_vars,
     observer_vars, Unbroken, Successive, Delivered
<1>14. EchoInv' /\ DecoderInv'
  BY <1>1, <1>10, <1>11 DEF EchoInv, DecoderInv
<1> QED BY <1>2, <1>12, <1>13, <1>14, NoReportYet
\* What the decoder looks at when it does not wait: a marker, a header, and the
\* bytes the header announces.
LEMMA CandidateForm ==
    ASSUME ToolTypeOK, StartsWithMarker(buffer), ~Waits(buffer)
    PROVE  /\ Len(buffer) \in Nat /\ Len(buffer) >= 3
           /\ buffer[1] = A5 /\ buffer[2] = <<"5A">> /\ buffer[3] \in Byte
           /\ LengthIn(buffer[3]) <= MAX_PAYLOAD =>
                 Len(buffer) >= 4 + LengthIn(buffer[3])
<1>1. Len(buffer) \in Nat /\ Len(buffer) >= 3
  BY DEF ToolTypeOK, Waits, HEADER_SIZE
<1>2. buffer[3] \in Byte
  BY <1>1 DEF ToolTypeOK
<1>3. LengthIn(buffer[3]) \in Nat
  BY <1>2, LengthForm
<1>4. ASSUME LengthIn(buffer[3]) <= MAX_PAYLOAD PROVE Len(buffer) >= 4 + LengthIn(buffer[3])
  BY <1>1, <1>3, <1>4 DEF Waits, HEADER_SIZE, Total
<1> QED BY <1>1, <1>2, <1>4 DEF StartsWithMarker

\* The decoder drops k bytes of its buffer and searches on.
LEMMA AdvanceKeepsInvariant ==
    ASSUME BoardTypeOK, ToolTypeOK, BufferIsTail, NothingDroppedUnseen,
           sent' = sent, line' = line, position' = position,
           NEW k \in 1 .. Len(buffer),
           buffer' = DiscardUntilSof(SubSeq(buffer, k + 1, Len(buffer))),
           \A id : Delivered(id) => Delivered(id)',
           \A j \in 1 .. k, id \in 1 .. MAX_FRAMES, trusted \in BOOLEAN :
              (id <= Len(sent) => trusted = sent[id].trusted) =>
                  \/ Delivered(id)'
                  \/ \E m \in 1 .. 5 : /\ j + m - 1 <= Len(buffer)
                                       /\ buffer[j + m - 1] # Encoded(id, trusted)[m]
    PROVE  /\ buffer' \in Seq(Byte) /\ BufferIsTail' /\ NothingDroppedUnseen'
           /\ Dropped' >= Dropped + k /\ Dropped' \in Nat /\ Dropped \in Nat
<1> DEFINE c == SubSeq(buffer, k + 1, Len(buffer))
<1>1. /\ position \in 0 .. Len(line) /\ Len(line) \in Nat /\ Len(buffer) \in Nat
      /\ buffer \in Seq(Byte) /\ Len(buffer) <= position
      /\ Dropped = position - Len(buffer) /\ Dropped \in Nat
      /\ \A i \in 1 .. Len(buffer) : buffer[i] = line[Dropped + i]
  BY DEF BoardTypeOK, ToolTypeOK, BufferIsTail, Dropped
<1>2. /\ c \in Seq(Byte) /\ Len(c) = Len(buffer) - k
      /\ \A i \in 1 .. Len(buffer) - k : c[i] = buffer[k + i]
  BY <1>1
<1> HIDE DEF c
<1>3. /\ position' - Len(c) = Dropped + k /\ Len(c) <= position' /\ Len(c) \in Nat
      /\ position' \in position .. Len(line) /\ position' - Len(c) >= Dropped
  BY <1>1, <1>2
<1>4. ASSUME NEW i \in 1 .. Len(c) PROVE c[i] = line[(position' - Len(c)) + i]
  <2>1. k + i \in 1 .. Len(buffer) /\ Dropped + (k + i) = (position' - Len(c)) + i
    BY <1>1, <1>2, <1>3
  <2> QED BY <1>1, <1>2, <2>1
<1>5. ASSUME NEW p \in Dropped + 1 .. position' - Len(c), NEW id \in 1 .. MAX_FRAMES,
             NEW trusted \in BOOLEAN, id <= Len(sent) => trusted = sent[id].trusted
      PROVE  Delivered(id)' \/ Differs(p, Encoded(id, trusted))'
  <2> DEFINE f == Encoded(id, trusted)
             j == p - Dropped
  <2>1. f' = f /\ DOMAIN f = 1 .. 5
    BY EncodedIs, NumbersAssumption
  <2>2. j \in 1 .. k /\ p = Dropped + j
    <3>1. p \in Dropped + 1 .. Dropped + k /\ Dropped \in Nat /\ k \in Nat
      BY <1>1, <1>3
    <3> HIDE DEF Dropped
    <3> QED BY <3>1
  <2> HIDE DEF j
  <2>3. ASSUME NEW m \in 1 .. 5, j + m - 1 <= Len(buffer), buffer[j + m - 1] # f[m]
        PROVE  Differs(p, Encoded(id, trusted))'
    <3>1. /\ j + m - 1 \in 1 .. Len(buffer) /\ Dropped + (j + m - 1) = p + m - 1
          /\ p + m - 1 <= position'
      BY <1>1, <2>2, <2>3
    <3>2. line'[p + m - 1] # f[m]
      BY <1>1, <2>3, <3>1
    <3> QED BY <2>1, <3>1, <3>2 DEF Differs
  <2> QED BY <1>5, <2>2, <2>3 DEF f
<1>6. /\ buffer' \in Seq(Byte) /\ BufferIsTail' /\ NothingDroppedUnseen'
      /\ Dropped' >= position' - Len(c) /\ Dropped' \in Nat
  <2>1. buffer' = DiscardUntilSof(c)
    BY DEF c
  <2> QED BY <1>2, <1>3, <1>4, <1>5, <2>1, SearchKeepsInvariant
<1> QED BY <1>1, <1>3, <1>6

\* decode_frame compares the five bytes of a frame.
LEMMA Decoding ==
    ASSUME ToolTypeOK, Len(buffer) >= 5, NEW id \in 1 .. Len(sent), sent \in Seq(SentFrame)
    PROVE  /\ sent[id].trusted \in BOOLEAN
           /\ SubSeq(buffer, 1, Total(1)) = FrameBytes(id) <=>
                 \A m \in 1 .. 5 : buffer[m] = Encoded(id, sent[id].trusted)[m]
<1> DEFINE f == Encoded(id, sent[id].trusted)
           b == SubSeq(buffer, 1, 5)
<1>0. sent[id] \in SentFrame
  OBVIOUS
<1>1. sent[id].trusted \in BOOLEAN /\ id \in Nat
  BY <1>0 DEF SentFrame
<1>2. f \in Seq(Byte) /\ Len(f) = 5
  BY <1>1, EncodedIs
<1>3. b \in Seq(Byte) /\ Len(b) = 5 /\ \A m \in 1 .. 5 : b[m] = buffer[m]
  BY DEF ToolTypeOK
<1>4. FrameBytes(id) = f /\ Total(1) = 5
  BY DEF FrameBytes, Total, HEADER_SIZE
<1> HIDE DEF f, b
<1>5. (\A m \in 1 .. 5 : b[m] = f[m]) => b = f
  BY <1>2, <1>3, SeqEqual
<1> QED BY <1>1, <1>3, <1>4, <1>5 DEF f, b

\* A candidate that is no frame is left behind by one byte.
LEMMA SkipKeepsInvariant ==
    ASSUME CommissioningInv, tool \in {"observe", "calibration"}, ~Waits(buffer),
           ~Decodes(buffer), sent' = sent, line' = line, position' = position,
           delivered' = delivered, buffer' = DiscardUntilSof(Tail(buffer))
    PROVE  /\ buffer' \in Seq(Byte) /\ BufferIsTail' /\ NothingDroppedUnseen'
           /\ DeliveredWasRead'
<1> USE DEF CommissioningInv
<1>1. BufferIsTail /\ NothingDroppedUnseen /\ DeliveredWasRead /\ StartsWithMarker(buffer)
  BY DEF DecoderInv, BufferIsTail
<1>2. /\ Len(buffer) \in Nat /\ Len(buffer) >= 3 /\ buffer[3] \in Byte
      /\ LengthIn(buffer[3]) <= MAX_PAYLOAD => Len(buffer) >= 4 + LengthIn(buffer[3])
  BY <1>1, CandidateForm
<1>3. buffer \in Seq(Byte) /\ sent \in Seq(SentFrame) /\ Len(sent) \in Nat
  BY DEF ToolTypeOK, BoardTypeOK
<1>4. Tail(buffer) = SubSeq(buffer, 1 + 1, Len(buffer))
  BY <1>2, <1>3
<1>5. ASSUME NEW id \in 1 .. MAX_FRAMES, NEW trusted \in BOOLEAN,
             id <= Len(sent) => trusted = sent[id].trusted,
             \A m \in 1 .. 5 : m <= Len(buffer) => buffer[m] = Encoded(id, trusted)[m]
      PROVE  FALSE
  <2>1. id \in Nat /\ Encoded(id, trusted)[3] = <<"head", id, 1>>
    BY NumbersAssumption, EncodedIs
  <2>2. buffer[3] = <<"head", id, 1>>
    BY <1>2, <1>5, <2>1
  <2>3. buffer[3][1] = "head" /\ buffer[3][2] = id
    BY <2>2
  <2>4. Len(buffer) >= 5
    BY <1>2, <2>3, LengthForm, BufferAssumption
  <2>5. id \in 1 .. Len(sent)
    <3>1. line[Dropped + 3] = buffer[3] /\ Dropped + 3 \in DOMAIN line
      BY <1>1, <1>2 DEF BufferIsTail, Dropped, BoardTypeOK
    <3> QED BY <2>3, <3>1 DEF HeadsInOrder
  <2>6. id <= Len(sent)
    BY <1>3, <2>5
  <2>7. \A m \in 1 .. 5 : buffer[m] = Encoded(id, sent[id].trusted)[m]
    BY <1>2, <1>5, <2>4, <2>6
  <2>8. SubSeq(buffer, 1, Total(1)) = FrameBytes(id)
    BY <1>3, <2>4, <2>5, <2>7, Decoding
  <2>9. Decodes(buffer)
    BY <2>2, <2>5, <2>8 DEF Decodes, HEADER_SIZE
  <2> QED BY <2>9
<1>6. /\ buffer' \in Seq(Byte) /\ BufferIsTail' /\ NothingDroppedUnseen'
      /\ Dropped' >= Dropped + 1 /\ Dropped' \in Nat /\ Dropped \in Nat
  <2>1. \A id : Delivered(id) => Delivered(id)'
    BY DEF Delivered
  <2>2. ASSUME NEW j \in 1 .. 1, NEW id \in 1 .. MAX_FRAMES, NEW trusted \in BOOLEAN,
               id <= Len(sent) => trusted = sent[id].trusted
        PROVE  \E m \in 1 .. 5 : /\ j + m - 1 <= Len(buffer)
                                 /\ buffer[j + m - 1] # Encoded(id, trusted)[m]
    <3>1. PICK m \in 1 .. 5 : m <= Len(buffer) /\ buffer[m] # Encoded(id, trusted)[m]
      BY <1>5, <2>2
    <3>2. j + m - 1 = m
      OBVIOUS
    <3> QED BY <3>1, <3>2
  <2>3. 1 \in 1 .. Len(buffer)
    BY <1>2
  <2> QED BY <1>1, <1>4, <2>1, <2>2, <2>3, AdvanceKeepsInvariant
<1>7. DeliveredWasRead'
  <2>1. \A p \in 1 .. Dropped : p \in 1 .. Dropped'
    BY <1>6
  <2> QED BY <1>1, <2>1 DEF DeliveredWasRead
<1> QED BY <1>6, <1>7

\* A frame that decodes is the next one: its bytes are dropped, and among them
\* no other begins.
LEMMA AcceptKeepsInvariant ==
    ASSUME CommissioningInv, tool \in {"observe", "calibration"}, ~Waits(buffer),
           NEW id0 \in 1 .. Len(sent), buffer[3] = <<"head", id0, 1>>,
           SubSeq(buffer, 1, Total(1)) = FrameBytes(id0),
           sent' = sent, line' = line, position' = position,
           delivered' = Append(delivered, id0),
           buffer' = DiscardUntilSof(SubSeq(buffer, Total(1) + 1, Len(buffer)))
    PROVE  /\ buffer' \in Seq(Byte) /\ BufferIsTail' /\ NothingDroppedUnseen'
           /\ DeliveredWasRead'
           /\ \A i \in DOMAIN delivered : delivered[i] < id0
<1> USE DEF CommissioningInv
<1>1. BufferIsTail /\ NothingDroppedUnseen /\ DeliveredWasRead /\ StartsWithMarker(buffer)
  BY DEF DecoderInv, BufferIsTail
<1>2. /\ Len(buffer) \in Nat /\ Len(buffer) >= 5
  <2>1. LengthIn(buffer[3]) = 1
    BY DEF LengthIn
  <2> QED BY <1>1, <2>1, CandidateForm, BufferAssumption
<1>3. /\ buffer \in Seq(Byte) /\ sent \in Seq(SentFrame) /\ Len(sent) \in Nat /\ id0 \in Nat
      /\ delivered \in Seq(Nat) /\ Len(delivered) \in Nat
  BY DEF ToolTypeOK, BoardTypeOK
<1> DEFINE f == Encoded(id0, sent[id0].trusted)
<1>4. sent[id0].trusted \in BOOLEAN /\ \A m \in 1 .. 5 : buffer[m] = f[m]
  BY <1>2, <1>3, Decoding
<1>5. \A m \in 1 .. 5 : (m > 1 /\ f[m] = A5 => m = 4) /\ f[5] # <<"5A">>
  BY <1>3, <1>4, EncodedKinds
<1> HIDE DEF f
<1>6. /\ Len(delivered') = Len(delivered) + 1
      /\ \A i \in 1 .. Len(delivered) : delivered'[i] = delivered[i]
      /\ delivered'[Len(delivered) + 1] = id0
  BY <1>3
<1>7. Delivered(id0)' /\ \A id : Delivered(id) => Delivered(id)'
  <2>1. DOMAIN delivered = 1 .. Len(delivered) /\ DOMAIN delivered' = 1 .. Len(delivered) + 1
    BY <1>3, <1>6
  <2>2. Delivered(id0)'
    <3>1. Len(delivered) + 1 \in DOMAIN delivered'
      BY <1>3, <2>1
    <3> QED BY <1>6, <3>1 DEF Delivered
  <2>3. ASSUME NEW id, Delivered(id) PROVE Delivered(id)'
    <3>1. PICK i \in 1 .. Len(delivered) : delivered[i] = id
      BY <2>1, <2>3 DEF Delivered
    <3>2. i \in DOMAIN delivered' /\ delivered'[i] = id
      BY <1>3, <1>6, <2>1, <3>1
    <3> QED BY <3>2 DEF Delivered
  <2> QED BY <2>2, <2>3
<1>8. ASSUME NEW j \in 1 .. 5, NEW id \in 1 .. MAX_FRAMES, NEW trusted \in BOOLEAN, id # id0
      PROVE  \E m \in 1 .. 5 : /\ j + m - 1 <= Len(buffer)
                               /\ buffer[j + m - 1] # Encoded(id, trusted)[m]
  <2>1. /\ Encoded(id, trusted)[1] = A5 /\ Encoded(id, trusted)[2] = <<"5A">>
        /\ Encoded(id, trusted)[3] = <<"head", id, 1>>
    BY NumbersAssumption, EncodedIs
  <2>2. CASE j = 1
    <3>1. buffer[j + 3 - 1] # Encoded(id, trusted)[3] /\ j + 3 - 1 <= Len(buffer)
      BY <1>2, <1>8, <2>1, <2>2
    <3> QED BY <3>1
  <2>3. CASE j > 1 /\ f[j] # A5
    <3>1. buffer[j + 1 - 1] # Encoded(id, trusted)[1] /\ j + 1 - 1 <= Len(buffer)
      BY <1>2, <1>4, <2>1, <2>3
    <3> QED BY <3>1
  <2>4. CASE j = 4
    <3>1. buffer[j + 2 - 1] # Encoded(id, trusted)[2] /\ j + 2 - 1 <= Len(buffer)
      BY <1>2, <1>4, <1>5, <2>1, <2>4
    <3> QED BY <3>1
  <2> QED BY <1>5, <2>2, <2>3, <2>4
<1>9. /\ buffer' \in Seq(Byte) /\ BufferIsTail' /\ NothingDroppedUnseen'
      /\ Dropped' >= Dropped + 5 /\ Dropped' \in Nat /\ Dropped \in Nat
  <2>1. 5 \in 1 .. Len(buffer) /\ Total(1) = 5
    BY <1>2 DEF Total, HEADER_SIZE
  <2> QED BY <1>1, <1>7, <1>8, <2>1, AdvanceKeepsInvariant
<1>10. line[Dropped + 3] = <<"head", id0, 1>> /\ Dropped + 3 \in DOMAIN line
  <2>1. 3 \in 1 .. Len(buffer) /\ \A i \in 1 .. Len(buffer) : buffer[i] = line[Dropped + i]
    BY <1>1, <1>2 DEF BufferIsTail
  <2>2. /\ Dropped = position - Len(buffer) /\ position \in 0 .. Len(line)
        /\ line \in Seq(Byte)
    BY DEF Dropped, BoardTypeOK
  <2>3. buffer[3] = line[Dropped + 3]
    BY <2>1
  <2>4. Dropped + 3 \in DOMAIN line
    BY <1>2, <1>9, <2>2
  <2> QED BY <2>3, <2>4
<1>11. ASSUME NEW i \in DOMAIN delivered PROVE delivered[i] < id0
  <2>1. PICK p \in 1 .. Dropped : line[p] = <<"head", delivered[i], 1>>
    BY <1>1 DEF DeliveredWasRead
  <2>2. p < Dropped + 3 /\ p \in DOMAIN line
    BY <1>9, <1>10 DEF BoardTypeOK
  <2>3. /\ line[p][1] = "head" /\ line[p][2] = delivered[i]
        /\ line[Dropped + 3][1] = "head" /\ line[Dropped + 3][2] = id0
    BY <1>10, <2>1
  <2> QED BY <1>10, <2>2, <2>3 DEF HeadsInOrder
<1>12. DeliveredWasRead'
  <2>1. \A p \in 1 .. Dropped : p \in 1 .. Dropped'
    BY <1>9
  <2>2. Dropped + 3 \in 1 .. Dropped'
    BY <1>9
  <2>3. ASSUME NEW i \in DOMAIN delivered'
        PROVE  \E p \in 1 .. Dropped' : line'[p] = <<"head", delivered'[i], 1>>
    <3>1. CASE i \in 1 .. Len(delivered)
      <4>1. i \in DOMAIN delivered /\ delivered'[i] = delivered[i]
        BY <1>3, <1>6, <3>1
      <4>2. PICK p \in 1 .. Dropped : line[p] = <<"head", delivered[i], 1>>
        BY <1>1, <4>1 DEF DeliveredWasRead
      <4> QED BY <2>1, <4>1, <4>2
    <3>2. CASE i = Len(delivered) + 1
      BY <1>6, <1>10, <2>2, <3>2
    <3>3. DOMAIN delivered' = 1 .. Len(delivered) + 1 /\ Len(delivered) \in Nat
      BY <1>3
    <3>4. i \in 1 .. Len(delivered) \/ i = Len(delivered) + 1
      BY <3>3
    <3> QED BY <3>1, <3>2, <3>4
  <2>4. ASSUME NEW i \in DOMAIN delivered', NEW j \in DOMAIN delivered', i < j
        PROVE  delivered'[i] < delivered'[j]
    <3>1. i \in 1 .. Len(delivered) /\ j \in 1 .. Len(delivered) + 1
      BY <1>3, <1>6, <2>4
    <3>2. CASE j = Len(delivered) + 1
      BY <1>6, <1>11, <3>1, <3>2
    <3>3. CASE j \in 1 .. Len(delivered)
      BY <1>1, <1>6, <2>4, <3>1, <3>3 DEF DeliveredWasRead
    <3> QED BY <1>3, <3>1, <3>2, <3>3
  <2> QED BY <2>3, <2>4 DEF DeliveredWasRead
<1> QED BY <1>9, <1>11, <1>12
\* A step of one in the numbers is a step to the next frame, unless the board
\* restarted in between.
LEMMA StepOfOne ==
    ASSUME BoardTypeOK, Numbered, NEW a \in 1 .. Len(sent), NEW b \in 1 .. Len(sent), a < b,
           sent[a].kind = sent[b].kind, Delta(sent[b].sequence, sent[a].sequence) = 1
    PROVE  Successive(a, b)
<1> DEFINE x == sent[a].sequence
           y == sent[b].sequence
<1>1. /\ sent \in Seq(SentFrame) /\ sent[a] \in SentFrame /\ sent[b] \in SentFrame
      /\ Len(sent) \in Nat /\ Len(sent) <= MAX_FRAMES
  BY DEF BoardTypeOK
<1>2. x \in 0 .. SEQUENCE_COUNT - 1 /\ y \in 0 .. SEQUENCE_COUNT - 1
  BY <1>1 DEF SentFrame
<1>3. Delta(y, x) = 1
  OBVIOUS
<1> HIDE DEF x, y
<1>4. y = Plus(x, 1)
  BY <1>2, <1>3, DeltaIs, NumbersAssumption DEF Plus
<1>5. CASE sent[a].boot = sent[b].boot
  <2>1. PICK d \in 1 .. b - a :
          /\ y = Plus(x, d)
          /\ d = 1 => \A c \in a + 1 .. b - 1 : sent[c].kind # sent[a].kind
    <3>1. a \in DOMAIN sent /\ b \in DOMAIN sent
      BY <1>1
    <3>2. Counts(sent, a, b, sent[b].sequence)
      BY <1>5, <3>1 DEF Numbered
    <3> QED BY <3>2 DEF Counts, x, y
  <2>2. d = 1
    BY <1>1, <1>2, <1>4, <2>1, NumbersAssumption DEF Plus
  <2> QED BY <2>1, <2>2 DEF Successive
<1>6. CASE sent[a].boot # sent[b].boot
  <2>1. (x + 1) % SEQUENCE_COUNT = y
    BY <1>2, <1>4, Successor
  <2> QED BY <1>6, <2>1 DEF Successive, x, y
<1> QED BY <1>5, <1>6

\* Observe: a frame is accepted without a gap only as the next of its kind.
LEMMA ObserveKeepsAccepted ==
    ASSUME CommissioningInv, NEW id \in 1 .. Len(sent), Observe(id), sent' = sent,
           \A i \in DOMAIN delivered : delivered[i] < id,
           \A old : Delivered(old) => Delivered(old)', Delivered(id)'
    PROVE  AcceptedInv' /\ accepted' \in [Kinds -> Seq(Nat)]
<1> USE DEF CommissioningInv
<1> DEFINE kind0 == sent[id].kind
<1>1. /\ accepted \in [Kinds -> Seq(Nat)] /\ sent \in Seq(SentFrame) /\ kind0 \in Kinds
      /\ id \in Nat
  <2>1. sent \in Seq(SentFrame) /\ sent[id] \in SentFrame
    BY DEF BoardTypeOK
  <2> QED BY <2>1 DEF ToolTypeOK, SentFrame
<1>2. ASSUME NEW kind \in Kinds, NEW i \in DOMAIN accepted[kind]
      PROVE  /\ \E n \in DOMAIN delivered' : delivered'[n] = accepted[kind][i]
             /\ accepted[kind][i] \in 1 .. Len(sent)
             /\ sent[accepted[kind][i]].kind = kind /\ accepted[kind][i] < id
  <2> DEFINE old == accepted[kind][i]
  <2>1. Delivered(old) /\ old \in 1 .. Len(sent) /\ sent[old].kind = kind
    BY DEF AcceptedInv
  <2> HIDE DEF old
  <2>2. \E n \in DOMAIN delivered' : delivered'[n] = old
    BY <2>1 DEF Delivered
  <2>3. old < id
    BY <2>1 DEF Delivered
  <2> QED BY <2>1, <2>2, <2>3 DEF old
<1>s. ASSUME NEW a, NEW b, Successive(a, b) PROVE Successive(a, b)'
  BY <1>s DEF Successive
<1>u. ASSUME NEW kind \in Kinds, accepted'[kind] = accepted[kind], Unbroken(accepted[kind])
      PROVE  Unbroken(accepted[kind])'
  <2>1. ASSUME NEW i \in 1 .. Len(accepted[kind]) - 1
        PROVE  Successive(accepted[kind][i], accepted[kind][i + 1])'
    <3>1. Successive(accepted[kind][i], accepted[kind][i + 1])
      BY <1>u DEF Unbroken
    <3> QED BY <1>s, <1>u, <3>1
  <2> QED BY <1>u, <2>1 DEF Unbroken
<1>3. CASE UNCHANGED observer_vars
  <2>1. accepted' = accepted /\ gaps' = gaps /\ faults' = faults
    BY <1>3 DEF observer_vars
  <2>2. ASSUME ~gaps', ~faults', NEW kind \in Kinds PROVE Unbroken(accepted[kind])'
    BY <1>u, <2>1, <2>2 DEF AcceptedInv
  <2>3. ASSUME NEW kind \in Kinds, NEW i \in DOMAIN accepted'[kind]
        PROVE  /\ Delivered(accepted[kind][i])' /\ accepted'[kind][i] \in 1 .. Len(sent')
               /\ sent'[accepted'[kind][i]].kind = kind
    BY <1>2, <2>1, <2>3 DEF Delivered
  <2> QED BY <1>1, <2>1, <2>2, <2>3 DEF AcceptedInv
<1>4. CASE UNCHANGED <<accepted, gaps>> /\ faults' = TRUE
  <2>1. ASSUME NEW kind \in Kinds, NEW i \in DOMAIN accepted'[kind]
        PROVE  /\ Delivered(accepted[kind][i])' /\ accepted'[kind][i] \in 1 .. Len(sent')
               /\ sent'[accepted'[kind][i]].kind = kind
    BY <1>2, <1>4, <2>1 DEF Delivered
  <2> QED BY <1>1, <1>4, <2>1 DEF AcceptedInv
<1>5. CASE /\ Earlier(id) = <<>> /\ UNCHANGED <<gaps, faults>>
           /\ accepted' = [accepted EXCEPT ![kind0] = <<id>>]
  <2>1. /\ accepted' \in [Kinds -> Seq(Nat)] /\ accepted'[kind0] = <<id>>
        /\ \A kind \in Kinds : kind # kind0 => accepted'[kind] = accepted[kind]
    BY <1>1, <1>5
  <2>2. \A i \in DOMAIN <<id>> : <<id>>[i] = id
    OBVIOUS
  <2>3. ASSUME NEW kind \in Kinds, NEW i \in DOMAIN accepted'[kind]
        PROVE  /\ Delivered(accepted[kind][i])' /\ accepted'[kind][i] \in 1 .. Len(sent')
               /\ sent'[accepted'[kind][i]].kind = kind
    <3>1. CASE kind = kind0
      <4>1. accepted'[kind][i] = id
        BY <2>1, <2>2, <2>3, <3>1
      <4>2. id \in 1 .. Len(sent') /\ sent'[id].kind = kind
        BY <3>1
      <4> QED BY <4>1, <4>2 DEF Delivered
    <3>2. CASE kind # kind0
      <4>1. i \in DOMAIN accepted[kind] /\ accepted'[kind] = accepted[kind]
        BY <2>1, <2>3, <3>2
      <4> QED BY <1>2, <4>1 DEF Delivered
    <3> QED BY <3>1, <3>2
  <2>4. ASSUME ~gaps', ~faults', NEW kind \in Kinds PROVE Unbroken(accepted[kind])'
    <3>1. CASE kind = kind0
      BY <2>1, <3>1 DEF Unbroken
    <3>2. CASE kind # kind0
      <4>1. Unbroken(accepted[kind])
        BY <1>5, <2>4 DEF AcceptedInv
      <4> QED BY <1>u, <2>1, <3>2, <4>1
    <3> QED BY <3>1, <3>2
  <2> QED BY <2>1, <2>3, <2>4 DEF AcceptedInv
<1>6. CASE /\ Earlier(id) # <<>> /\ StepTo(id) \in 1 .. SEQUENCE_COUNT \div 2 - 1
           /\ accepted' = [accepted EXCEPT ![kind0] = Append(@, id)]
           /\ gaps' = (gaps \/ Gaps(StepTo(id))) /\ UNCHANGED faults
  <2> DEFINE old == accepted[kind0]
  <2>1. /\ accepted' \in [Kinds -> Seq(Nat)] /\ accepted'[kind0] = Append(old, id)
        /\ \A kind \in Kinds : kind # kind0 => accepted'[kind] = accepted[kind]
    BY <1>1, <1>6
  <2>2. old \in Seq(Nat) /\ old # <<>> /\ Earlier(id) = old
    BY <1>1, <1>6 DEF Earlier
  <2>3. /\ Len(old) \in Nat /\ Len(old) >= 1 /\ Len(Append(old, id)) = Len(old) + 1
        /\ \A i \in 1 .. Len(old) : Append(old, id)[i] = old[i]
        /\ Append(old, id)[Len(old) + 1] = id
    BY <1>1, <2>2
  <2>4. DOMAIN Append(old, id) = 1 .. Len(old) + 1 /\ DOMAIN old = 1 .. Len(old)
    BY <1>1, <2>2
  <2>5. ASSUME NEW kind \in Kinds, NEW i \in DOMAIN accepted'[kind]
        PROVE  /\ Delivered(accepted[kind][i])' /\ accepted'[kind][i] \in 1 .. Len(sent')
               /\ sent'[accepted'[kind][i]].kind = kind
    <3>1. CASE kind # kind0
      <4>1. i \in DOMAIN accepted[kind] /\ accepted'[kind] = accepted[kind]
        BY <2>1, <2>5, <3>1
      <4> QED BY <1>2, <4>1 DEF Delivered
    <3>2. CASE kind = kind0 /\ i \in 1 .. Len(old)
      <4>1. i \in DOMAIN accepted[kind] /\ accepted'[kind][i] = accepted[kind][i]
        BY <2>1, <2>3, <2>4, <3>2
      <4> QED BY <1>2, <4>1 DEF Delivered
    <3>3. CASE kind = kind0 /\ i = Len(old) + 1
      BY <2>1, <2>3, <3>3 DEF Delivered
    <3> QED BY <2>1, <2>3, <2>4, <2>5, <3>1, <3>2, <3>3
  <2>6. ASSUME ~gaps', ~faults', NEW kind \in Kinds PROVE Unbroken(accepted[kind])'
    <3>1. ~gaps /\ ~faults /\ ~Gaps(StepTo(id))
      BY <1>6, <2>6, Zenon
    <3>2. Unbroken(accepted[kind]) /\ Unbroken(old)
      BY <1>1, <3>1 DEF AcceptedInv
    <3>3. CASE kind # kind0
      BY <1>u, <2>1, <3>2, <3>3
    <3>4. CASE kind = kind0
      <4> DEFINE a == old[Len(old)]
      <4>1. a \in 1 .. Len(sent) /\ a < id /\ sent[a].kind = kind0
        BY <1>1, <1>2, <2>3, <2>4
      <4>2. StepTo(id) = Delta(sent[id].sequence, sent[a].sequence)
        BY <2>2 DEF StepTo, Last
      <4>3. StepTo(id) = 1
        BY <1>6, <3>1 DEF Gaps
      <4>4. Successive(a, id)
        BY <4>1, <4>2, <4>3, StepOfOne
      <4>5. ASSUME NEW i \in 1 .. Len(old)
            PROVE  Successive(Append(old, id)[i], Append(old, id)[i + 1])
        <5>1. CASE i = Len(old)
          BY <2>3, <4>4, <5>1
        <5>2. CASE i < Len(old)
          <6>1. i + 1 \in 1 .. Len(old) /\ i \in 1 .. Len(old) - 1
            BY <2>3, <5>2
          <6> QED BY <2>3, <3>2, <6>1 DEF Unbroken
        <5> QED BY <2>3, <5>1, <5>2
      <4>6. Len(Append(old, id)) - 1 = Len(old)
        BY <2>3
      <4>7. accepted'[kind] = Append(old, id)
        BY <2>1, <3>4
      <4>8. ASSUME NEW i \in 1 .. Len(accepted'[kind]) - 1
            PROVE  Successive(accepted[kind][i], accepted[kind][i + 1])'
        BY <1>s, <4>5, <4>6, <4>7
      <4> QED BY <4>8 DEF Unbroken
    <3> QED BY <3>3, <3>4
  <2> QED BY <2>1, <2>5, <2>6 DEF AcceptedInv
<1> QED BY <1>3, <1>4, <1>5, <1>6 DEF Observe

\* DecodeCandidate: too long, decoded, or rejected.
LEMMA DecodeKeepsInvariant ==
    ASSUME CommissioningInv, DecodeCandidate
    PROVE  CommissioningInv'
<1> USE DEF CommissioningInv
<1>1. /\ tool \in {"observe", "calibration"} /\ tool' = tool /\ ~Waits(buffer)
      /\ position' = position /\ line' = line /\ report' = report /\ sent' = sent
      /\ UNCHANGED <<board_vars, smoke_vars>>
  BY DEF DecodeCandidate, board_vars
<1>2. report = NoReport
  BY <1>1
<1> DEFINE Kept == /\ buffer' \in Seq(Byte) /\ BufferIsTail' /\ NothingDroppedUnseen'
                   /\ DeliveredWasRead' /\ AcceptedInv'
                   /\ delivered' \in Seq(Nat) /\ accepted' \in [Kinds -> Seq(Nat)]
<1>3. ASSUME ~Decodes(buffer), buffer' = DiscardUntilSof(Tail(buffer)),
             delivered' = delivered, UNCHANGED observer_vars
      PROVE  Kept
  <2>1. UNCHANGED <<delivered, accepted, gaps, faults>>
    BY <1>3 DEF observer_vars
  <2>2. AcceptedInv'
    BY <1>1, <2>1 DEF AcceptedInv, Delivered, Unbroken, Successive
  <2>3. /\ buffer' \in Seq(Byte) /\ BufferIsTail' /\ NothingDroppedUnseen'
        /\ DeliveredWasRead'
    BY <1>1, <1>3, <2>1, SkipKeepsInvariant
  <2> QED BY <2>1, <2>2, <2>3 DEF ToolTypeOK
<1>4. ASSUME LengthIn(buffer[HEADER_SIZE]) > MAX_PAYLOAD,
             buffer' = DiscardUntilSof(Tail(buffer)),
             UNCHANGED <<errors, delivered, observer_vars>>
      PROVE  Kept
  <2>1. ~Decodes(buffer)
    BY <1>4, BufferAssumption DEF Decodes, LengthIn, HEADER_SIZE
  <2> QED BY <1>3, <1>4, <2>1
<1>5. ASSUME ~Decodes(buffer), buffer' = DiscardUntilSof(AfterBad(buffer)),
             UNCHANGED <<delivered, observer_vars>>
      PROVE  Kept
  BY <1>3, <1>5 DEF AfterBad
<1>6. ASSUME Decodes(buffer),
             buffer' = DiscardUntilSof(SubSeq(buffer, Total(1) + 1, Len(buffer))),
             delivered' = Append(delivered, buffer[HEADER_SIZE][2]),
             Observe(buffer[HEADER_SIZE][2])
      PROVE  Kept
  <2>1. PICK id \in 1 .. Len(sent) : /\ buffer[3] = <<"head", id, 1>>
                                     /\ SubSeq(buffer, 1, Total(1)) = FrameBytes(id)
    BY <1>6 DEF Decodes, HEADER_SIZE
  <2>2. delivered' = Append(delivered, id) /\ Observe(id) /\ id \in Nat
    BY <1>6, <2>1 DEF HEADER_SIZE, BoardTypeOK
  <2>3. /\ buffer' \in Seq(Byte) /\ BufferIsTail' /\ NothingDroppedUnseen'
        /\ DeliveredWasRead' /\ \A i \in DOMAIN delivered : delivered[i] < id
    BY <1>1, <1>6, <2>1, <2>2, AcceptKeepsInvariant
  <2>4. /\ delivered \in Seq(Nat) /\ delivered' \in Seq(Nat)
        /\ DOMAIN delivered = 1 .. Len(delivered)
        /\ DOMAIN delivered' = 1 .. Len(delivered) + 1
        /\ \A i \in 1 .. Len(delivered) : delivered'[i] = delivered[i]
        /\ delivered'[Len(delivered) + 1] = id /\ Len(delivered) \in Nat
    BY <2>2 DEF ToolTypeOK
  <2>5. Delivered(id)'
    <3>1. Len(delivered) + 1 \in DOMAIN delivered'
      BY <2>4
    <3> QED BY <2>4, <3>1 DEF Delivered
  <2>6. ASSUME NEW old, Delivered(old) PROVE Delivered(old)'
    <3>1. PICK i \in 1 .. Len(delivered) : delivered[i] = old
      BY <2>4, <2>6 DEF Delivered
    <3>2. i \in DOMAIN delivered' /\ delivered'[i] = old
      BY <2>4, <3>1
    <3> QED BY <3>2 DEF Delivered
  <2>7. AcceptedInv' /\ accepted' \in [Kinds -> Seq(Nat)]
    BY <1>1, <2>2, <2>3, <2>5, <2>6, ObserveKeepsAccepted
  <2> QED BY <2>3, <2>4, <2>7
<1>7. Kept
  BY <1>4, <1>5, <1>6 DEF DecodeCandidate
<1>8. BoardTypeOK'
  BY <1>1 DEF BoardTypeOK, board_vars, smoke_vars
<1>9. HeadsInOrder' /\ Numbered' /\ EchoInv'
  BY <1>1 DEF HeadsInOrder, Numbered, EchoInv, board_vars
<1>10. ToolTypeOK' /\ DecoderInv'
  BY <1>7 DEF ToolTypeOK, DecoderInv
<1> QED BY <1>1, <1>2, <1>7, <1>8, <1>9, <1>10, NoReportYet

\* The board's steps together.
LEMMA BoardKeepsInvariant ==
    ASSUME CommissioningInv, BoardStep
    PROVE  CommissioningInv'
<1> USE DEF CommissioningInv
<1>1. report = NoReport /\ UNCHANGED tool_vars
  BY BoardExtends DEF BoardStep, SendFrame, Beat, Echo, Restart, Running, BoardTypeOK
<1>2. report' = NoReport /\ ToolTypeOK'
  BY <1>1 DEF tool_vars, ToolTypeOK, decoder_vars, observer_vars
<1> QED BY <1>2, NoReportYet, BoardKeepsTypes, BoardKeepsHeads, BoardKeepsNumbers,
           BoardKeepsDecoder, BoardKeepsAccepted, BoardKeepsEcho

\* The smoke tool's steps together.
LEMMA SmokeKeepsInvariant ==
    ASSUME CommissioningInv, ReadByte \/ ReadTimeout
    PROVE  CommissioningInv'
BY SmokeKeepsTypes, SmokeKeepsEcho, NoReportYet DEF CommissioningInv

\* While the monitor runs, nothing of the tools changes.
LEMMA StutterKeepsInvariant ==
    ASSUME CommissioningInv, UNCHANGED commissioning_vars
    PROVE  CommissioningInv'
<1>1. /\ UNCHANGED <<image, sent, number, pending, beats_sent, damage, restarts>>
      /\ UNCHANGED <<line, position, tool, buffer, errors, delivered>>
      /\ UNCHANGED <<accepted, gaps, faults, heartbeats, probe, answers, timeouts, report>>
  BY DEF commissioning_vars, board_vars, tool_vars, decoder_vars, observer_vars, smoke_vars
<1>2. BoardTypeOK' /\ ToolTypeOK' /\ HeadsInOrder' /\ Numbered'
  BY <1>1 DEF CommissioningInv, BoardTypeOK, ToolTypeOK, HeadsInOrder, Numbered
<1>3. DecoderInv'
  <2>1. Dropped' = Dropped
    BY <1>1 DEF Dropped
  <2>2. ASSUME tool \in {"observe", "calibration"} PROVE NothingDroppedUnseen'
    <3>1. ASSUME NEW p \in 1 .. Dropped, NEW id \in 1 .. MAX_FRAMES, NEW trusted \in BOOLEAN,
                 id <= Len(sent) => trusted = sent[id].trusted
          PROVE  Delivered(id)' \/ Differs(p, Encoded(id, trusted))'
      <4> DEFINE f == Encoded(id, trusted)
      <4>1. f' = f
        BY EncodedIs, NumbersAssumption
      <4>2. Delivered(id) \/ Differs(p, f)
        BY <2>2, <3>1 DEF CommissioningInv, DecoderInv, NothingDroppedUnseen
      <4> HIDE DEF f
      <4>3. Delivered(id) => Delivered(id)'
        BY <1>1 DEF Delivered
      <4>4. Differs(p, f) => Differs(p, f)'
        BY <1>1, <4>1 DEF Differs
      <4> QED BY <4>2, <4>3, <4>4 DEF f
    <3> QED BY <1>1, <2>1, <3>1 DEF NothingDroppedUnseen
  <2>3. ASSUME tool \in {"observe", "calibration"} PROVE BufferIsTail' /\ DeliveredWasRead'
    BY <1>1, <2>1, <2>3 DEF CommissioningInv, DecoderInv, BufferIsTail, DeliveredWasRead,
       StartsWithMarker
  <2> QED BY <1>1, <2>2, <2>3 DEF DecoderInv
<1>4. ASSUME NEW kind \in Kinds, Unbroken(accepted[kind]) PROVE Unbroken(accepted[kind])'
  <2>1. ASSUME NEW a, NEW b, Successive(a, b) PROVE Successive(a, b)'
    BY <1>1, <2>1 DEF Successive
  <2> QED BY <1>1, <1>4, <2>1 DEF Unbroken
<1>5. AcceptedInv' /\ EchoInv'
  <2>1. \A id : Delivered(id) => Delivered(id)'
    BY <1>1 DEF Delivered
  <2>2. AcceptedInv'
    BY <1>1, <1>4, <2>1 DEF CommissioningInv, AcceptedInv
  <2>3. (AnswersInv => AnswersInv') /\ (NoStrayTaken' <=> NoStrayTaken)
        /\ (OnlyItsEcho => OnlyItsEcho') /\ (EchoUnderWay' <=> EchoUnderWay)
    BY <1>1 DEF AnswersInv, NoStrayTaken, OwnEcho, AfterStray, OnlyItsEcho, EchoUnderWay
  <2> QED BY <1>1, <2>2, <2>3 DEF CommissioningInv, EchoInv
<1>6. PassMeansIntact' /\ EchoesAreOwn' /\ (report' # NoReport => tool' = "none")
  BY <1>1, <1>4 DEF CommissioningInv, PassMeansIntact, EchoesAreOwn, OwnEcho, AfterStray
<1> QED BY <1>2, <1>3, <1>5, <1>6 DEF CommissioningInv

\* The board is attached and no tool runs.
LEMMA InvariantAtFirst ==
    ASSUME CommissioningInit
    PROVE  CommissioningInv
<1> USE DEF CommissioningInit
<1>1. BoardTypeOK
  <2>1. PICK n \in FIRST_NUMBERS : number = [kind \in Kinds |-> n]
    OBVIOUS
  <2>2. n \in 0 .. SEQUENCE_COUNT - 1
    BY NumbersAssumption
  <2> QED BY <2>1, <2>2, NumbersAssumption DEF BoardTypeOK
<1>2. ToolTypeOK
  BY DEF ToolTypeOK
<1>3. HeadsInOrder /\ Numbered
  BY DEF HeadsInOrder, Numbered
<1>4. DecoderInv
  BY DEF DecoderInv
<1>5. AcceptedInv
  BY DEF AcceptedInv, Unbroken
<1>6. EchoInv
  BY DEF EchoInv, EchoUnderWay
<1> QED BY <1>1, <1>2, <1>3, <1>4, <1>5, <1>6 DEF CommissioningInv, PassMeansIntact, EchoesAreOwn

\* Every step of the tools and of the board keeps the invariant.
LEMMA NextKeepsInvariant ==
    ASSUME CommissioningInv, CommissioningNext
    PROVE  CommissioningInv'
<1>1. CASE BoardStep
  BY <1>1, BoardKeepsInvariant
<1>2. CASE ReadChunk
  BY <1>2, ReadKeepsInvariant
<1>3. CASE DecodeCandidate
  BY <1>3, DecodeKeepsInvariant
<1>4. CASE ReadByte \/ ReadTimeout
  BY <1>4, SmokeKeepsInvariant
<1>5. CASE \E t \in {"smoke", "observe", "calibration"} : Start(t)
  BY <1>5, StartKeepsInvariant
<1>6. CASE Finish
  BY <1>6, FinishKeepsInvariant
<1> QED BY <1>1, <1>2, <1>3, <1>4, <1>5, <1>6 DEF CommissioningNext, BoardStep

\* A decoder that waits has delivered every frame that arrived whole: a byte of
\* one it dropped would have told against it, and one that is still in the
\* buffer leaves nothing to wait for.
LEMMA NothingIsMissed ==
    ASSUME CommissioningInv
    PROVE  NoFrameIsMissed
<1> USE DEF CommissioningInv
<1> SUFFICES ASSUME tool \in {"observe", "calibration"} PROVE NoFrameIsMissed
  BY DEF NoFrameIsMissed
<1>1. BufferIsTail /\ NothingDroppedUnseen /\ DeliveredWasRead
  BY DEF DecoderInv
<1>2. /\ line \in Seq(Byte) /\ position \in 0 .. Len(line) /\ sent \in Seq(SentFrame)
      /\ Len(sent) \in Nat /\ Len(sent) <= MAX_FRAMES /\ buffer \in Seq(Byte)
      /\ Len(buffer) \in Nat /\ Len(buffer) <= position
      /\ Dropped = position - Len(buffer) /\ Dropped \in Nat
  BY <1>1 DEF BoardTypeOK, ToolTypeOK, BufferIsTail, Dropped
<1>3. ASSUME NEW id \in 1 .. Len(sent), Waits(buffer), ArrivedWhole(id)
      PROVE  Delivered(id)
  <2> DEFINE f == Encoded(id, sent[id].trusted)
  <2>1. sent[id].trusted \in BOOLEAN /\ id \in 1 .. MAX_FRAMES /\ id \in Nat
    <3>1. sent[id] \in SentFrame
      BY <1>2
    <3> QED BY <1>2, <3>1, NumbersAssumption DEF SentFrame
  <2>2. /\ f \in Seq(Byte) /\ Len(f) = 5 /\ DOMAIN f = 1 .. 5
        /\ f[1] = A5 /\ f[2] = <<"5A">> /\ f[3] = <<"head", id, 1>>
    BY <2>1, EncodedIs
  <2>3. Heard \in Seq(Byte) /\ Len(Heard) = position /\ \A i \in 1 .. position : Heard[i] = line[i]
    BY <1>2 DEF Heard
  <2>4. PICK p \in 1 .. position - MAX_PAYLOAD - 2 :
          p + 4 <= position /\ SubSeq(Heard, p, p + 4) = f
    <3>1. /\ Total(MAX_PAYLOAD) = MAX_PAYLOAD + 4 /\ Total(1) = 5 /\ MAX_PAYLOAD \in Nat
          /\ FrameBytes(id) = f
      BY BufferAssumption DEF Total, HEADER_SIZE, FrameBytes
    <3>2. PICK p \in 1 .. position - (MAX_PAYLOAD + 4) + 2 :
            p + 5 - 1 <= position /\ SubSeq(Heard, p, p + 5 - 1) = f
      BY <1>3, <2>3, <3>1 DEF ArrivedWhole
    <3>3. p \in 1 .. position - MAX_PAYLOAD - 2 /\ p + 5 - 1 = p + 4
      BY <1>2, <3>1, <3>2
    <3> QED BY <3>2, <3>3
  <2> HIDE DEF f
  <2>5. ASSUME NEW m \in 1 .. 5 PROVE line[p + m - 1] = f[m] /\ p + m - 1 \in 1 .. position
    <3>1. p + m - 1 \in 1 .. position
      BY <1>2, <2>4
    <3>2. SubSeq(Heard, p, p + 4)[m] = Heard[p + m - 1]
      BY <1>2, <2>3, <2>4
    <3> QED BY <2>3, <2>4, <3>1, <3>2
  <2>6. CASE p <= Dropped
    <3>1. p \in 1 .. Dropped
      BY <1>2, <2>6
    <3>2. Delivered(id) \/ Differs(p, f)
      BY <1>1, <1>2, <2>1, <3>1 DEF NothingDroppedUnseen, f
    <3>3. ~Differs(p, f)
      BY <2>2, <2>5 DEF Differs
    <3> QED BY <3>2, <3>3
  <2>7. CASE p > Dropped
    <3> DEFINE q == p - Dropped
    <3>1. q \in 1 .. Len(buffer) - 4 /\ p = Dropped + q /\ Len(buffer) >= q + MAX_PAYLOAD + 2
      BY <1>2, <2>4, <2>7, BufferAssumption
    <3> HIDE DEF q
    <3>2. ASSUME NEW m \in 1 .. 5 PROVE buffer[q + m - 1] = f[m]
      <4>1. q + m - 1 \in 1 .. Len(buffer) /\ Dropped + (q + m - 1) = p + m - 1
        BY <1>2, <3>1
      <4> QED BY <1>1, <2>5, <4>1 DEF BufferIsTail
    <3>3. q \in SofIn(buffer)
      <4>1. buffer[q + 1 - 1] = f[1] /\ buffer[q + 2 - 1] = f[2]
        BY <3>2
      <4>2. q \in 1 .. Len(buffer) - 1 /\ q + 1 - 1 = q /\ q + 2 - 1 = q + 1
        BY <1>2, <3>1
      <4> QED BY <1>2, <2>2, <4>1, <4>2, MarkerAt
    <3>4. Len(buffer) >= 3 /\ buffer[3] \in Byte
      BY <1>2, <3>1
    <3>5. /\ LengthIn(buffer[3]) \in Nat /\ LengthIn(buffer[3]) <= MAX_PAYLOAD
          /\ Len(buffer) < 4 + LengthIn(buffer[3])
      <4>1. LengthIn(buffer[3]) \in Nat
        BY <3>4, LengthForm
      <4> QED BY <1>2, <1>3, <3>3, <3>4, <4>1 DEF Waits, HEADER_SIZE, Total
    <3>6. q = 1
      BY <1>2, <3>1, <3>5, BufferAssumption
    <3>7. buffer[3] = <<"head", id, 1>>
      <4>1. buffer[q + 3 - 1] = f[3] /\ q + 3 - 1 = 3
        BY <3>2, <3>6
      <4> QED BY <2>2, <4>1
    <3>8. LengthIn(buffer[3]) = 1
      BY <3>7 DEF LengthIn
    <3> QED BY <1>2, <3>1, <3>5, <3>8
  <2> QED BY <1>2, <2>4, <2>6, <2>7
<1> QED BY <1>1, <1>3 DEF NoFrameIsMissed, Delivered, DeliveredWasRead
-----------------------------------------------------------------------------
(* THE MONITOR.                                                              *)

Requests == [at : {"idle", "waiting", "ready", "answered"}, since : Int]
Lines == [observed : Int, age : Int, sent : Int]
Pictures == [fresh : BOOLEAN, observed : Int, revision : Int, start : Int]

MonitorTypeOK ==
    /\ now \in Nat /\ wire \in Lines /\ packet \in Lines
    /\ section \in {"line", "other", "status"} /\ reading \in BOOLEAN
    /\ starts \in Nat /\ up \in BOOLEAN /\ revision \in Nat
    /\ status \in [observed : Int, received : Int]
    /\ request \in Requests /\ answer \in Pictures /\ shown \in Pictures

\* A line under way is as old as it says, and not under way for long.
Timely(record) ==
    record # NoLine => /\ record.age = record.sent - record.observed
                       /\ record.sent <= now /\ now - record.sent <= DELAY

StatusTimely ==
    status # NoStatus => /\ status.received <= now
                         /\ status.received - status.observed <= STALE_AFTER + DELAY

Age0 == 2 * STALE_AFTER + DELAY
Allowed(at) == CASE at = "idle" -> POLL [] at = "waiting" -> WAIT [] OTHER -> RESPONSE
AgeAt(at) == CASE at = "idle" -> Age0 + RESPONSE
               [] at = "waiting" -> Age0 + RESPONSE + POLL
               [] OTHER -> Age0 + RESPONSE + POLL + WAIT

\* What the page shows, and the answer on its way to it, are as old as the stage
\* of the poll allows.
PollTimely ==
    /\ request.since <= now /\ now - request.since <= Allowed(request.at)
    /\ shown.fresh => request.since - shown.observed <= AgeAt(request.at)
    /\ request.at = "answered" /\ answer.fresh => request.since - answer.observed <= Age0

\* Within one run of the host process a revision stands for one status.
SameRevisionSameStatus(picture) ==
    picture.start = starts => /\ picture.revision <= revision
                              /\ picture.revision = revision => picture.observed = status.observed

Revisions ==
    /\ shown.start <= starts
    /\ up => starts >= 1
    /\ ~up => request.at = "idle" /\ ~shown.fresh
    /\ up => SameRevisionSameStatus(shown)
    /\ request.at = "answered" => answer.start = starts /\ SameRevisionSameStatus(answer)

MonitorInv ==
    /\ MonitorTypeOK /\ Timely(wire) /\ Timely(packet) /\ StatusTimely /\ PollTimely
    /\ Revisions /\ WaitsWithNewest

-----------------------------------------------------------------------------

\* The page before its first answer.
LEMMA NothingIsPicture == NothingShown \in Pictures
<1>1. FALSE \in BOOLEAN /\ -1 \in Int /\ 0 \in Int
  OBVIOUS
<1> QED BY <1>1, Zenon DEF Pictures, NothingShown

\* Nothing was sent, taken in or shown.
LEMMA MonitorStarts == Init => MonitorInv
<1> SUFFICES ASSUME Init PROVE MonitorInv
    OBVIOUS
<1> USE TimeAssumption DEF Init, NoLine, NoStatus, NothingShown
<1>1. MonitorTypeOK
  <2>1. /\ reading \in BOOLEAN /\ up \in BOOLEAN /\ section \in {"line", "other", "status"}
    BY Zenon
  <2>2. now \in Nat /\ starts \in Nat /\ revision \in Nat
    BY SMT
  <2>3. wire \in Lines /\ packet \in Lines /\ status \in [observed : Int, received : Int]
    BY SMT DEF Lines
  <2>4. request \in Requests
    BY SMT DEF Requests
  <2> QED BY <2>1, <2>2, <2>3, <2>4, NothingIsPicture, Zenon DEF MonitorTypeOK
<1>2. Timely(wire) /\ Timely(packet) /\ StatusTimely
  BY DEF Timely, StatusTimely
<1>3. PollTimely
  BY DEF PollTimely, Allowed, AgeAt, Age0
<1>4. Revisions /\ WaitsWithNewest
  BY DEF Revisions, SameRevisionSameStatus, WaitsWithNewest
<1> QED BY <1>1, <1>2, <1>3, <1>4 DEF MonitorInv

\* The reader's steps: what it takes in is recent enough, and wakes the poll.
LEMMA ReaderKeepsMonitor ==
    MonitorInv /\ (EmitLine \/ ReadLine \/ IngestOther \/ IngestStatus \/ LoseReader) => MonitorInv'
<1> SUFFICES ASSUME MonitorInv, EmitLine \/ ReadLine \/ IngestOther \/ IngestStatus \/ LoseReader
             PROVE  MonitorInv'
    OBVIOUS
<1> USE TimeAssumption DEF MonitorInv, MonitorTypeOK, Requests, Lines, Pictures, Timely, StatusTimely,
        PollTimely, Revisions, SameRevisionSameStatus, WaitsWithNewest, Allowed, AgeAt, Age0,
        NoLine, NoStatus, NothingShown
<1>1. CASE EmitLine
  BY <1>1 DEF EmitLine
<1>2. CASE ReadLine
  BY <1>2 DEF ReadLine
<1>3. CASE IngestOther
  BY <1>3 DEF IngestOther, CommitChange, Notify
<1>4. CASE IngestStatus
  <2>1. MonitorTypeOK'
    BY <1>4 DEF IngestStatus, RecentEnough, CommitChange, Notify
  <2>2. Timely(wire)' /\ Timely(packet)'
    BY <1>4 DEF IngestStatus, RecentEnough, CommitChange, Notify
  <2>3. StatusTimely'
    BY <1>4 DEF IngestStatus, RecentEnough, CommitChange, Notify
  <2>4. PollTimely'
    BY <1>4 DEF IngestStatus, RecentEnough, CommitChange, Notify
  <2>5. Revisions'
    BY <1>4 DEF IngestStatus, RecentEnough, CommitChange, Notify
  <2>6. WaitsWithNewest'
    BY <1>4 DEF IngestStatus, RecentEnough, CommitChange, Notify
  <2> QED BY <2>1, <2>2, <2>3, <2>4, <2>5, <2>6
<1>5. CASE LoseReader
  <2>1. MonitorTypeOK'
    <3>1. reading' \in BOOLEAN
      BY ONLY <1>5, Zenon DEF LoseReader
    <3> QED BY <1>5, <3>1 DEF LoseReader
  <2>2. Timely(wire)' /\ Timely(packet)'
    BY <1>5 DEF LoseReader
  <2>3. StatusTimely'
    BY <1>5 DEF LoseReader
  <2>4. PollTimely'
    BY <1>5 DEF LoseReader
  <2>5. Revisions'
    BY <1>5 DEF LoseReader
  <2>6. WaitsWithNewest'
    BY <1>5 DEF LoseReader
  <2> QED BY <2>1, <2>2, <2>3, <2>4, <2>5, <2>6
<1> QED BY <1>1, <1>2, <1>3, <1>4, <1>5

\* The page's steps: each adds its own delay to the age of the picture.
LEMMA PageKeepsMonitor ==
    MonitorInv /\ (Poll \/ WaitEnds \/ TakeSnapshot \/ Render \/ PollFails) => MonitorInv'
<1> SUFFICES ASSUME MonitorInv, Poll \/ WaitEnds \/ TakeSnapshot \/ Render \/ PollFails
             PROVE  MonitorInv'
    OBVIOUS
<1> USE TimeAssumption DEF MonitorInv, MonitorTypeOK, Requests, Lines, Pictures, Timely, StatusTimely,
        PollTimely, Revisions, SameRevisionSameStatus, WaitsWithNewest, Allowed, AgeAt, Age0,
        NoLine, NoStatus, NothingShown
<1>1. CASE Poll
  <2>1. MonitorTypeOK'
    BY <1>1 DEF Poll
  <2>2. Timely(wire)' /\ Timely(packet)'
    BY <1>1 DEF Poll
  <2>3. StatusTimely'
    BY <1>1 DEF Poll
  <2>4. PollTimely'
    BY <1>1 DEF Poll
  <2>5. Revisions'
    BY <1>1 DEF Poll
  <2>6. WaitsWithNewest'
    BY <1>1 DEF Poll
  <2> QED BY <2>1, <2>2, <2>3, <2>4, <2>5, <2>6
<1>2. CASE WaitEnds
  <2>1. MonitorTypeOK'
    BY <1>2 DEF WaitEnds
  <2>2. Timely(wire)' /\ Timely(packet)'
    BY <1>2 DEF WaitEnds
  <2>3. StatusTimely'
    BY <1>2 DEF WaitEnds
  <2>4. PollTimely'
    BY <1>2 DEF WaitEnds
  <2>5. Revisions'
    BY <1>2 DEF WaitEnds
  <2>6. WaitsWithNewest'
    BY <1>2 DEF WaitEnds
  <2> QED BY <2>1, <2>2, <2>3, <2>4, <2>5, <2>6
<1>3. CASE TakeSnapshot
  <2>1. MonitorTypeOK'
    BY <1>3 DEF TakeSnapshot, Snapshot, Fresh
  <2>2. Timely(wire)' /\ Timely(packet)'
    BY <1>3 DEF TakeSnapshot, Snapshot, Fresh
  <2>3. StatusTimely'
    BY <1>3 DEF TakeSnapshot, Snapshot, Fresh
  <2>4. PollTimely'
    <3>1. /\ request.at = "ready" /\ request'.at = "answered"
          /\ request'.since = request.since /\ now' = now /\ shown' = shown
          /\ answer'.observed = status.observed
      BY <1>3 DEF TakeSnapshot, Snapshot
    <3>2. answer'.fresh <=> Fresh
      BY ONLY <1>3, Zenon DEF TakeSnapshot, Snapshot
    <3>3. Fresh => request.since - status.observed <= Age0
      BY DEF Fresh
    <3>4. answer'.fresh => request'.since - answer'.observed <= Age0
      BY <3>1, <3>2, <3>3
    <3> QED BY <3>1, <3>4
  <2>5. Revisions'
    BY <1>3 DEF TakeSnapshot, Snapshot, Fresh
  <2>6. WaitsWithNewest'
    BY <1>3 DEF TakeSnapshot, Snapshot, Fresh
  <2> QED BY <2>1, <2>2, <2>3, <2>4, <2>5, <2>6
<1>4. CASE Render
  <2>1. MonitorTypeOK'
    BY <1>4 DEF Render
  <2>2. Timely(wire)' /\ Timely(packet)'
    BY <1>4 DEF Render
  <2>3. StatusTimely'
    BY <1>4 DEF Render
  <2>4. PollTimely'
    BY <1>4 DEF Render
  <2>5. Revisions'
    <3>1. up /\ up' = up /\ starts' = starts /\ revision' = revision /\ status' = status
      BY <1>4 DEF Render
    <3>2. answer.start = starts /\ SameRevisionSameStatus(answer) /\ shown' = answer
      BY <1>4 DEF Render
    <3>3. SameRevisionSameStatus(shown)'
      BY <3>1, <3>2
    <3>4. request'.at = "idle"
      BY <1>4 DEF Render
    <3>5. shown'.start <= starts' /\ starts' >= 1
      BY <3>1, <3>2
    <3>6. request'.at # "answered"
      BY <3>4
    <3> QED BY ONLY <3>1, <3>3, <3>5, <3>6, Zenon DEF Revisions
  <2>6. WaitsWithNewest'
    BY <1>4 DEF Render
  <2> QED BY <2>1, <2>2, <2>3, <2>4, <2>5, <2>6
<1>5. CASE PollFails
  <2>1. MonitorTypeOK'
    BY <1>5 DEF PollFails
  <2>2. Timely(wire)' /\ Timely(packet)'
    BY <1>5 DEF PollFails
  <2>3. StatusTimely'
    BY <1>5 DEF PollFails
  <2>4. PollTimely'
    <3>1. request.at = "idle" /\ request'.at = "idle" /\ request'.since = now
      BY <1>5 DEF PollFails
    <3>2. ~shown.fresh
      BY <1>5 DEF PollFails
    <3> QED BY <1>5, <3>1, <3>2 DEF PollFails
  <2>5. Revisions'
    BY <1>5 DEF PollFails
  <2>6. WaitsWithNewest'
    BY <1>5 DEF PollFails
  <2> QED BY <2>1, <2>2, <2>3, <2>4, <2>5, <2>6
<1> QED BY <1>1, <1>2, <1>3, <1>4, <1>5

\* A process that stops takes its revisions with it; time does not pass over
\* what is due.
LEMMA HostAndTimeKeepMonitor == MonitorInv /\ (StopHost \/ StartHost \/ Tick) => MonitorInv'
<1> SUFFICES ASSUME MonitorInv, StopHost \/ StartHost \/ Tick PROVE MonitorInv'
    OBVIOUS
<1> USE TimeAssumption DEF MonitorInv, MonitorTypeOK, Requests, Lines, Pictures, Timely, StatusTimely,
        PollTimely, Revisions, SameRevisionSameStatus, WaitsWithNewest, Allowed, AgeAt, Age0,
        NoLine, NoStatus, NothingShown
<1>1. CASE StopHost
  <2>1. MonitorTypeOK'
    <3>1. reading' \in BOOLEAN /\ up' \in BOOLEAN
      BY ONLY <1>1, Zenon DEF StopHost
    <3>2. shown' \in Pictures
      BY <1>1, Zenon DEF StopHost
    <3>3. answer' \in Pictures
      BY ONLY <1>1, NothingIsPicture, Zenon DEF StopHost
    <3> QED BY <1>1, <3>1, <3>2, <3>3 DEF StopHost
  <2>2. Timely(wire)' /\ Timely(packet)'
    BY <1>1 DEF StopHost
  <2>3. StatusTimely'
    BY <1>1 DEF StopHost
  <2>4. PollTimely'
    BY <1>1 DEF StopHost
  <2>5. Revisions'
    BY <1>1 DEF StopHost
  <2>6. WaitsWithNewest'
    BY <1>1 DEF StopHost
  <2> QED BY <2>1, <2>2, <2>3, <2>4, <2>5, <2>6
<1>2. CASE StartHost
  <2>1. MonitorTypeOK'
    BY <1>2 DEF StartHost
  <2>2. Timely(wire)' /\ Timely(packet)'
    BY <1>2 DEF StartHost
  <2>3. StatusTimely'
    BY <1>2 DEF StartHost
  <2>4. PollTimely'
    BY <1>2 DEF StartHost
  <2>5. Revisions'
    <3>1. ~up /\ starts' = starts + 1 /\ request' = request /\ shown' = shown
      BY <1>2 DEF StartHost
    <3>2. request.at = "idle" /\ ~shown.fresh /\ shown.start <= starts
      BY <3>1
    <3>3. ~(shown.start = starts + 1)
      BY <3>2
    <3> QED BY <3>1, <3>2, <3>3
  <2>6. WaitsWithNewest'
    BY <1>2 DEF StartHost
  <2> QED BY <2>1, <2>2, <2>3, <2>4, <2>5, <2>6
<1>3. CASE Tick
  BY <1>3 DEF Tick, LineDue, RequestDue
<1> QED BY <1>1, <1>2, <1>3

\* The inductive invariant of the monitor: how old each copy of a status is, and
\* that within a run of the host process a revision stands for one status.
LEMMA MonitorInvariant == MonitorInv /\ [Next]_vars => MonitorInv'
<1> SUFFICES ASSUME MonitorInv, [Next]_vars PROVE MonitorInv'
    OBVIOUS
<1>1. CASE UNCHANGED vars
  BY <1>1 DEF vars, MonitorInv, MonitorTypeOK, Timely, StatusTimely, PollTimely, Revisions,
     SameRevisionSameStatus, WaitsWithNewest
<1> QED BY <1>1, ReaderKeepsMonitor, PageKeepsMonitor, HostAndTimeKeepMonitor DEF Next
-----------------------------------------------------------------------------
(* The operator's machine.                                                   *)

\* The two programs share the machine and nothing else: each keeps its invariant,
\* whichever of them runs.
THEOREM HostInvariant == HostSpec => [](CommissioningInv /\ MonitorInv)
<1>1. HostInit => CommissioningInv /\ MonitorInv
  BY InvariantAtFirst, MonitorStarts DEF HostInit
<1>2. ASSUME CommissioningInv /\ MonitorInv, [HostNext]_host_vars
      PROVE  (CommissioningInv /\ MonitorInv)'
  <2>1. CommissioningNext \/ UNCHANGED commissioning_vars
    BY <1>2 DEF HostNext, host_vars
  <2>2. Next \/ UNCHANGED vars
    BY <1>2 DEF HostNext, host_vars
  <2>3. CommissioningInv'
    BY <1>2, <2>1, NextKeepsInvariant, StutterKeepsInvariant
  <2>4. MonitorInv'
    BY <1>2, <2>2, MonitorInvariant
  <2> QED BY <2>3, <2>4
<1>3. CommissioningInv /\ MonitorInv /\ [HostNext]_host_vars
          => CommissioningInv' /\ MonitorInv'
  BY <1>2
<1> QED BY <1>1, <1>3, PTL DEF HostSpec

\* StreamDecoder.feed: whatever was damaged before it and however the reads cut
\* it, a frame that arrived whole has been decoded when the decoder waits, and
\* the frames come out once each, in their order.
THEOREM EveryWholeFrameIsDecoded == HostSpec => []NoFrameIsMissed
<1>1. CommissioningInv => NoFrameIsMissed
  BY NothingIsMissed
<1> QED BY <1>1, HostInvariant, PTL

\* commissioning_pass, capture_pass, apply_observation_to_record: a pass, or a link
\* check that passed, means an unbroken stream of each kind.
THEOREM APassSawNoBreak == HostSpec => []PassMeansIntact
<1>1. CommissioningInv => PassMeansIntact
  BY DEF CommissioningInv
<1> QED BY <1>1, HostInvariant, PTL

\* run_smoke_commissioning: a pass means that each probe was answered, by its own
\* echo up to the first damaged byte that read as the probe awaited.
THEOREM APassHeardItsEchoes == HostSpec => []EchoesAreOwn
<1>1. CommissioningInv => EchoesAreOwn
  BY DEF CommissioningInv
<1> QED BY <1>1, HostInvariant, PTL

\* The age of a state the page shows is bounded by the two staleness limits, the
\* line's delay and the time a poll takes: ingest_device_packet, snapshot, poll.
THEOREM ShownAgeIsBounded == HostSpec => []ShownStateIsRecent
<1>1. MonitorInv => ShownStateIsRecent
  BY TimeAssumption DEF MonitorInv, MonitorTypeOK, Requests, Pictures, PollTimely, Allowed,
     AgeAt, Age0, ShownStateIsRecent, ShownAgeLimit
<1> QED BY <1>1, HostInvariant, PTL

\* wait_for_revision and _commit_change: no wake-up is lost.
THEOREM NoChangeIsSleptOver == HostSpec => []WaitsWithNewest
<1>1. MonitorInv => WaitsWithNewest
  BY DEF MonitorInv
<1> QED BY <1>1, HostInvariant, PTL
=============================================================================
