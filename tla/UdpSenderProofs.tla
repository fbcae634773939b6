-------------------------- MODULE UdpSenderProofs --------------------------
(***************************************************************************)
(* Proofs about UdpSender, for every rate of the stream and of the device,   *)
(* every length of the packets and of the chunks and any capacity of the     *)
(* queue: what is sent is the audio that was taken from the queue, once and  *)
(* in order, each packet carries its predecessor, nothing waits that could   *)
(* be sent, and the receiver reads from the bytes what was meant.           *)
(***************************************************************************)
EXTENDS UdpSender, SequenceTheorems, WellFoundedInduction, TLAPS

-----------------------------------------------------------------------------
(* Arithmetic                                                               *)

\* A quotient is the greatest factor that fits.
LEMMA Quotient ==
    ASSUME NEW a \in Nat, NEW b \in Nat \ {0}
    PROVE  /\ a \div b \in Nat
           /\ (a \div b) * b <= a /\ a < (a \div b) * b + b
  <1>1. a \div b \in Nat
    OBVIOUS
  <1>2. (a \div b) * b <= a /\ a < (a \div b) * b + b
    OBVIOUS
  <1> QED
    BY <1>1, <1>2

LEMMA QuotientBelow ==
    ASSUME NEW a \in Nat, NEW b \in Nat \ {0}, NEW l \in Nat, a < l * b
    PROVE  a \div b \in 0 .. l - 1
  OBVIOUS

LEMMA FactorFits ==
    ASSUME NEW a \in Nat, NEW b \in Nat \ {0}, NEW k \in Nat, k <= a \div b
    PROVE  k * b <= a
  OBVIOUS

LEMMA ProductIsNat ==
    ASSUME NEW a \in Nat, NEW b \in Nat
    PROVE  a * b \in Nat
  OBVIOUS

LEMMA ProductDivides ==
    ASSUME NEW q \in Nat, NEW b \in Nat \ {0}
    PROVE  (q * b) % b = 0
  OBVIOUS

LEMMA ProductOfPositives ==
    ASSUME NEW a \in Nat \ {0}, NEW b \in Nat \ {0}
    PROVE  a * b \in Nat \ {0} /\ a * b >= b /\ a * b >= a
  OBVIOUS

LEMMA ProductMonotone ==
    ASSUME NEW a \in Nat, NEW b \in Nat, NEW c \in Nat, a <= b
    PROVE  a * c <= b * c
  <1>1. b * c = a * c + (b - a) * c
    OBVIOUS
  <1>2. (b - a) * c \in Nat /\ a * c \in Nat
    BY ProductIsNat
  <1> QED
    BY <1>1, <1>2

LEMMA QuotientMonotone ==
    ASSUME NEW a \in Nat, NEW b \in Nat, NEW c \in Nat \ {0}, a <= b
    PROVE  a \div c <= b \div c
  OBVIOUS

LEMMA QuotientIs ==
    ASSUME NEW a \in Nat, NEW c \in Nat \ {0}, NEW q \in Nat, q * c <= a, a < q * c + c
    PROVE  a \div c = q
  OBVIOUS

\* Resampling to a rate that is not lower leaves no source frame out: but, where the
\* frames do not give a whole number, perhaps the last.
LEMMA NoneLeftOut ==
    ASSUME NEW r \in Nat \ {0}, NEW s \in Nat \ {0}, r <= s, NEW l \in Nat, NEW i \in 1 .. l,
           i < l \/ (l * s) % r = 0, NEW k, k = ((i - 1) * s + r - 1) \div r + 1
    PROVE  k \in 1 .. (l * s) \div r /\ ((k - 1) * r) \div s + 1 = i
  <1> DEFINE a == (i - 1) * s
             b == l * s
             n == b \div r
             c == (a + r - 1) \div r
  <1>1. a \in Nat /\ b \in Nat /\ n \in Nat /\ i \in Nat
    BY ProductIsNat, Quotient
  <1>2. i * s = a + s
    OBVIOUS
  <1>3. b >= a + s /\ (i < l => b >= a + s + s)
    <2>1. i * s <= l * s
      BY <1>1, ProductMonotone
    <2>2. ASSUME i < l PROVE b >= a + s + s
      <3>1. (i + 1) * s <= l * s
        BY <1>1, <2>2, ProductMonotone
      <3>2. (i + 1) * s = i * s + s
        BY <1>1
      <3> QED
        BY <1>1, <1>2, <3>1, <3>2
    <2> QED
      BY <1>2, <2>1, <2>2
  <1> HIDE DEF a, b
  <1>4. c \in Nat /\ c * r \in Nat /\ c * r <= a + r - 1 /\ a + r - 1 < c * r + r
    <2>1. a + r - 1 \in Nat
      BY <1>1
    <2> QED
      BY <2>1, Quotient, ProductIsNat
  <1> HIDE DEF c
  <1>5. (c * r) \div s = i - 1
    <2>1. i - 1 \in Nat /\ (i - 1) * s <= c * r /\ c * r < (i - 1) * s + s
      BY <1>1, <1>4 DEF a
    <2> QED
      BY <1>4, <2>1, QuotientIs
  <1>6. c < n
    <2> SUFFICES ASSUME n <= c PROVE FALSE
      BY <1>1, <1>4
    <2>1. n * r <= c * r
      BY <1>1, <1>4, ProductMonotone
    <2>2. n * r \in Nat /\ b < n * r + r
      BY <1>1, Quotient, ProductIsNat
    <2>3. CASE i < l
      BY <1>1, <1>3, <1>4, <2>1, <2>2, <2>3
    <2>4. CASE b % r = 0
      <3>1. n * r = b
        BY <1>1, <2>4
      <3> QED
        BY <1>1, <1>3, <1>4, <2>1, <3>1
    <2> QED
      BY <2>3, <2>4 DEF b
  <1>7. c + 1 \in 1 .. n /\ (c + 1) - 1 = c
    BY <1>1, <1>4, <1>6
  <1>8. k = c + 1
    BY DEF c, a
  <1>9. k - 1 = c
    BY <1>7, <1>8
  <1>10. k \in 1 .. n
    BY <1>7, <1>8
  <1>11. ((k - 1) * r) \div s + 1 = i
    BY <1>1, <1>5, <1>9
  <1> QED
    BY <1>10, <1>11 DEF n, b

\* The frame sizer: a packet is never empty, never longer than its buffers, and what is
\* carried is a rest.
LEMMA FrameSizes ==
    ASSUME carried \in 0 .. 999
    PROVE  /\ MaxFrames \in Nat \ {0} /\ FrameSize \in 1 .. MaxFrames
           /\ NextCarried \in 0 .. 999
  <1> DEFINE perPacket == SampleRate * FrameMs
  <1>1. perPacket \in Nat /\ perPacket >= 1000
    BY FormatAssumption, PacketAssumption
  <1> HIDE DEF perPacket
  <1>2. /\ (perPacket + 999) \div 1000 \in Nat \ {0}
        /\ (perPacket + carried) \div 1000 \in 1 .. (perPacket + 999) \div 1000
        /\ (perPacket + carried) % 1000 \in 0 .. 999
    BY <1>1
  <1> QED
    BY <1>2 DEF perPacket, MaxFrames, FrameSize, NextCarried

\* A set of numbers has a least one.
LEMMA LeastNat ==
    ASSUME NEW T, T \subseteq Nat, T # {}
    PROVE  \E x \in T : \A y \in T : x <= y
  <1> DEFINE R == OpToRel(<, Nat)
  <1>1. PICK x \in T : \A y \in T : <<y, x>> \notin R
    <2>1. IsWellFoundedOn(R, Nat)
      BY NatLessThanWellFounded
    <2> HIDE DEF R
    <2> QED
      BY <2>1, WFMin
  <1>2. \A y \in T : ~(y < x)
    BY <1>1 DEF OpToRel
  <1>3. \A y \in T : x <= y
    BY <1>2
  <1> QED
    BY <1>3

\* Induction: a set with 0 that has the successor of each of its numbers has them all.
LEMMA NatSet ==
    ASSUME NEW S, S \subseteq Nat, 0 \in S, \A k \in S : k + 1 \in S
    PROVE  S = Nat
  <1> DEFINE T == Nat \ S
  <1> SUFFICES ASSUME T # {} PROVE FALSE
    OBVIOUS
  <1>1. PICK x \in T : \A y \in T : x <= y
    <2>1. T \subseteq Nat
      OBVIOUS
    <2> HIDE DEF T
    <2> QED
      BY <2>1, LeastNat
  <1>2. x \in Nat /\ x # 0
    OBVIOUS
  <1>3. x - 1 \in Nat /\ ~(x <= x - 1)
    BY <1>2
  <1>4. x - 1 \in S
    BY <1>1, <1>3
  <1>5. (x - 1) + 1 \in S
    BY <1>4
  <1> QED
    BY <1>2, <1>5

\* There is a block that gives a whole number of frames, whatever the two rates.
LEMMA BlockExists ==
    InputFrames \in Nat \ {0} /\ (InputFrames * SampleRate) % SourceRate = 0
  <1> DEFINE whole == {n \in 1 .. SourceRate * MaxFrames :
                          n >= MaxFrames /\ (n * SampleRate) % SourceRate = 0}
             most == SourceRate * MaxFrames
  <1>1. /\ SourceRate \in Nat \ {0} /\ SampleRate \in Nat
        /\ MaxFrames \in Nat \ {0}
    <2>1. 0 \in 0 .. 999
      OBVIOUS
    <2>2. SampleRate * FrameMs \in Nat /\ SampleRate * FrameMs >= 1000
      BY FormatAssumption, PacketAssumption
    <2> QED
      BY <2>2, SenderAssumption, FormatAssumption DEF MaxFrames
  <1>2. most \in Nat \ {0} /\ most >= MaxFrames
    BY <1>1, ProductOfPositives
  <1>3. (most * SampleRate) % SourceRate = 0
    <2>1. MaxFrames * SampleRate \in Nat
      BY <1>1
    <2>2. most * SampleRate = (MaxFrames * SampleRate) * SourceRate
      BY <1>1
    <2> QED
      BY <1>1, <2>1, <2>2, ProductDivides
  <1>4. most \in whole
    BY <1>1, <1>2, <1>3
  <1>5. Min(whole) \in whole
    <2>1. whole \subseteq Nat
      OBVIOUS
    <2> HIDE DEF whole
    <2>2. \E x \in whole : \A y \in whole : x <= y
      BY <1>4, <2>1, LeastNat
    <2> QED
      BY <2>2 DEF Min
  <1> QED
    BY <1>5 DEF InputFrames

-----------------------------------------------------------------------------
(* The inductive invariant                                                  *)

CaptureType ==
    /\ processor \in Processors /\ unresampled \in Frames
    /\ source \in 0 .. MaxSource /\ restarts \in 0 .. MaxRestarts
    /\ interpolated \in BOOLEAN /\ fellBack \in BOOLEAN /\ lost \in BOOLEAN
    /\ producerAlive \in BOOLEAN
    /\ queue \in Seq(Frames) /\ Len(queue) <= Capacity
    /\ refused \in Seq(Frames) /\ Len(refused) <= 1

Kept == [sequence : Nat, payload : Frames]
PacketType == [sequence : Nat, timestamp : Nat, payload : Frames, fec : Kept, copies : Nat]

SenderType ==
    /\ sender \in {"bind", "receive", "cut", "ended", "failed"}
    /\ pending \in Frames /\ taken \in Frames
    /\ carried \in 0 .. 999 /\ sequence \in Nat /\ timestamp \in Nat
    /\ previousFec \in Kept /\ Len(previousFec.payload) <= MaxFrames
    /\ packets \in Seq(PacketType)

\* Every packet, and what waits, is the audio taken at its timestamp, frame by frame.
PacketsInPlace ==
    \A i \in 1 .. Len(packets) :
        /\ Len(packets[i].payload) \in 1 .. MaxFrames
        /\ EndOf(packets[i]) <= Len(taken)
        /\ \A k \in 1 .. Len(packets[i].payload) :
              packets[i].payload[k] = taken[packets[i].timestamp + k]

InPlace ==
    /\ Len(taken) = timestamp + Len(pending)
    /\ \A k \in 1 .. Len(pending) : pending[k] = taken[timestamp + k]
    /\ PacketsInPlace

\* The packets are numbered on and continue one another.
Chained ==
    \A i \in 1 .. Len(packets) :
        /\ packets[i].sequence = i - 1
        /\ packets[i].timestamp = IF i = 1 THEN 0 ELSE EndOf(packets[i - 1])
        /\ packets[i].fec =
               IF i = 1 THEN NoFec ELSE [sequence |-> i - 2, payload |-> packets[i - 1].payload]
        /\ packets[i].copies = Copies \/ (i = Len(packets) /\ sender = "failed")

\* What the sender's variables say of the packets; of one whose sending has failed
\* they know nothing.
UpToDate ==
    /\ Len(packets) = sequence \/ (sender = "failed" /\ Len(packets) = sequence + 1)
    /\ timestamp = IF sequence = 0 THEN 0 ELSE EndOf(packets[sequence])
    /\ previousFec = IF sequence = 0 THEN NoFec
                      ELSE [sequence |-> sequence - 1, payload |-> packets[sequence].payload]

\* Neither the sender nor the resampler leaves what it could have passed on.
NothingWaits ==
    /\ sender \in {"bind", "receive"} => Len(pending) < MaxFrames
    /\ ~fellBack => Len(unresampled) < InputFrames

SenderInv == SenderType /\ InPlace /\ Chained /\ UpToDate
IInv == CaptureType /\ SenderInv /\ NothingWaits

-----------------------------------------------------------------------------
(* The capture                                                              *)

LEMMA Rates ==
    /\ SourceRate \in Nat \ {0} /\ SampleRate \in Nat \ {0}
    /\ Capacity \in Nat \ {0} /\ MaxSource \in Nat /\ Multiplier \in Nat
    /\ Copies \in Nat \ {0}
  <1>1. SampleRate # 0
    BY FormatAssumption, PacketAssumption
  <1> QED
    BY <1>1, SenderAssumption, FormatAssumption DEF Copies

LEMMA FramesFacts ==
    ASSUME NEW f \in Frames
    PROVE  /\ Len(f) \in Nat
           /\ \A i \in 1 .. Len(f) : f[i] \in 1 .. MaxSource
  BY LenProperties, ElementOfSeq DEF Frames

\* The beginning, and the rest, of a sequence of frames.
LEMMA PartIsFrames ==
    ASSUME NEW f \in Frames, NEW n \in 0 .. Len(f)
    PROVE  /\ SubSeq(f, 1, n) \in Frames /\ Len(SubSeq(f, 1, n)) = n
           /\ \A k \in 1 .. n : SubSeq(f, 1, n)[k] = f[k]
           /\ SubSeq(f, n + 1, Len(f)) \in Frames /\ Len(SubSeq(f, n + 1, Len(f))) = Len(f) - n
           /\ \A k \in 1 .. Len(f) - n : SubSeq(f, n + 1, Len(f))[k] = f[n + k]
  <1>1. PICK l \in Nat : l = Len(f)
    BY FramesFacts
  <1>2. /\ SubSeq(f, 1, n) \in Frames
        /\ Len(SubSeq(f, 1, n)) = IF 1 <= n THEN n - 1 + 1 ELSE 0
        /\ \A k \in 1 .. n - 1 + 1 : SubSeq(f, 1, n)[k] = f[1 + k - 1]
    <2>1. \A i \in 1 .. n : f[i] \in 1 .. MaxSource
      BY <1>1, FramesFacts
    <2> QED
      BY <1>1, <2>1, SubSeqProperties DEF Frames
  <1>3. /\ SubSeq(f, n + 1, l) \in Frames
        /\ Len(SubSeq(f, n + 1, l)) = IF n + 1 <= l THEN l - (n + 1) + 1 ELSE 0
        /\ \A k \in 1 .. l - (n + 1) + 1 : SubSeq(f, n + 1, l)[k] = f[n + 1 + k - 1]
    <2>1. \A i \in n + 1 .. l : f[i] \in 1 .. MaxSource
      BY <1>1, FramesFacts
    <2> QED
      BY <1>1, <2>1, SubSeqProperties DEF Frames
  <1> QED
    BY <1>1, <1>2, <1>3

\* A frame of the stream is computed from a frame that is there.
LEMMA FromIsThere ==
    ASSUME NEW r \in Nat \ {0}, NEW s \in Nat \ {0}, NEW l \in Nat,
           NEW k \in 1 .. (l * s) \div r
    PROVE  ((k - 1) * r) \div s + 1 \in 1 .. l
  <1>1. l * s \in Nat /\ (l * s) \div r \in Nat
    BY ProductIsNat, Quotient
  <1>2. k \in Nat /\ k * r <= l * s
    BY <1>1, FactorFits
  <1>3. (k - 1) * r \in Nat /\ (k - 1) * r < l * s
    <2>1. (k - 1) * r = k * r - r
      BY <1>2
    <2>2. k * r \in Nat /\ k * r >= r
      BY <1>2, ProductOfPositives
    <2> QED
      BY <1>1, <1>2, <2>1, <2>2
  <1>4. ((k - 1) * r) \div s \in 0 .. l - 1
    BY <1>3, QuotientBelow
  <1> QED
    BY <1>4

\* Resampling gives frames.
LEMMA ResampledIsFrames ==
    ASSUME NEW f \in Frames
    PROVE  Resampled(f) \in Frames /\ Linear(f) \in Frames
  <1> DEFINE n == (Len(f) * SampleRate) \div SourceRate
             from(k) == ((k - 1) * SourceRate) \div SampleRate + 1
  <1>1. PICK l \in Nat : l = Len(f)
    BY FramesFacts
  <1>2. n \in Nat
    BY <1>1, Rates, ProductIsNat, Quotient
  <1>3. ASSUME NEW k \in 1 .. n PROVE f[from(k)] \in 1 .. MaxSource
    <2>1. from(k) \in 1 .. l
      BY <1>1, Rates, FromIsThere
    <2> HIDE DEF from
    <2> QED
      BY <1>1, <2>1, FramesFacts
  <1>4. Resampled(f) = [k \in 1 .. n |-> f[from(k)]]
    BY DEF Resampled
  <1>5. Resampled(f) \in Frames
    <2> HIDE DEF n, from
    <2> QED
      BY <1>2, <1>3, <1>4 DEF Frames
  <1> QED
    BY <1>5 DEF Linear

\* push_latest_pcm keeps the queue within its capacity.
LEMMA PushedType ==
    ASSUME CaptureType, NEW chunk \in Frames, PushLatest(chunk)
    PROVE  /\ queue' \in Seq(Frames) /\ Len(queue') <= Capacity
           /\ refused' \in Seq(Frames) /\ Len(refused') <= 1
           /\ lost' \in BOOLEAN
  <1>1. PICK l \in Nat : l = Len(queue) /\ l <= Capacity /\ Capacity \in Nat
    BY LenProperties, Rates DEF CaptureType
  <1>2. CASE l < Capacity
    <2>1. queue' = Append(queue, chunk) /\ refused' = refused /\ lost' = lost
      BY <1>1, <1>2 DEF PushLatest
    <2>2. queue' \in Seq(Frames) /\ Len(queue') = l + 1
      BY <1>1, <2>1, AppendProperties DEF CaptureType
    <2> QED
      BY <1>1, <1>2, <2>1, <2>2 DEF CaptureType
  <1>3. CASE ~(l < Capacity)
    <2>1. queue' = queue /\ refused' = <<chunk>> /\ lost' = lost
      BY <1>1, <1>3 DEF PushLatest
    <2>2. <<chunk>> \in Seq(Frames) /\ Len(<<chunk>>) = 1
      OBVIOUS
    <2> QED
      BY <2>1, <2>2 DEF CaptureType
  <1> QED
    BY <1>2, <1>3

\* After the oldest chunk is given up there is room for the one refused.
LEMMA DropOldestType ==
    ASSUME CaptureType, DropOldest
    PROVE  CaptureType'
  <1> DEFINE room == IF queue = <<>> THEN <<>> ELSE Tail(queue)
  <1>1. PICK l \in Nat, r \in Nat : /\ l = Len(queue) /\ l <= Capacity /\ Capacity \in Nat \ {0}
                                  /\ r = Len(refused) /\ r <= 1
    BY LenProperties, Rates DEF CaptureType
  <1>2. room \in Seq(Frames) /\ Len(room) \in Nat /\ Len(room) + 1 <= Capacity
    <2>1. CASE queue = <<>>
      <3>1. room = <<>>
        BY <2>1
      <3> HIDE DEF room
      <3>2. room \in Seq(Frames) /\ Len(room) = 0
        BY <3>1
      <3> QED
        BY <1>1, <3>2
    <2>2. CASE queue # <<>>
      <3>1. room = Tail(queue) /\ Tail(queue) \in Seq(Frames) /\ Len(Tail(queue)) = l - 1
        BY <1>1, <2>2, HeadTailProperties DEF CaptureType
      <3>2. Len(Tail(queue)) \in Nat
        BY <3>1, LenProperties
      <3> QED
        BY <1>1, <3>1, <3>2
    <2> QED
      BY <2>1, <2>2
  <1>3. queue' = room \o refused
    BY DEF DropOldest
  <1> HIDE DEF room
  <1>4. queue' \in Seq(Frames) /\ Len(queue') = Len(room) + r
    BY <1>1, <1>2, <1>3, ConcatProperties DEF CaptureType
  <1>5. Len(queue') <= Capacity
    BY <1>1, <1>2, <1>4
  <1>6. refused' = <<>> /\ <<>> \in Seq(Frames) /\ Len(<<>>) = 0
    BY DEF DropOldest
  <1> QED
    BY <1>4, <1>5, <1>6 DEF DropOldest, CaptureType

\* What a resampler does with its input: of the whole blocks it has come to the rest waits.
LEMMA BlocksOf ==
    ASSUME NEW input \in Frames, NEW blocks \in Nat, blocks <= Len(input) \div InputFrames
    PROVE  /\ blocks * InputFrames \in 0 .. Len(input)
           /\ SubSeq(input, 1, blocks * InputFrames) \in Frames
           /\ SubSeq(input, blocks * InputFrames + 1, Len(input)) \in Frames
           /\ blocks = Len(input) \div InputFrames
              => Len(SubSeq(input, blocks * InputFrames + 1, Len(input))) < InputFrames
  <1>1. PICK l \in Nat : l = Len(input)
    BY FramesFacts
  <1>2. blocks * InputFrames \in Nat /\ blocks * InputFrames <= l
    <2>1. blocks * InputFrames \in Nat
      BY BlockExists, ProductIsNat
    <2> QED
      BY <1>1, <2>1, BlockExists, FactorFits
  <1>3. /\ SubSeq(input, 1, blocks * InputFrames) \in Frames
        /\ SubSeq(input, blocks * InputFrames + 1, l) \in Frames
        /\ Len(SubSeq(input, blocks * InputFrames + 1, l)) = l - blocks * InputFrames
    BY <1>1, <1>2, PartIsFrames
  <1>4. ASSUME blocks = l \div InputFrames
        PROVE  l - blocks * InputFrames < InputFrames
    BY <1>1, <1>2, <1>4, BlockExists, Quotient
  <1> QED
    BY <1>1, <1>2, <1>3, <1>4

LEMMA CaptureStep ==
    ASSUME CaptureType, NothingWaits, NEW n \in 1 .. MaxSource, Capture(n)
    PROVE  CaptureType' /\ (~fellBack' => Len(unresampled') < InputFrames)
  <1> DEFINE frames == [i \in 1 .. n |-> source + i]
             input == unresampled \o frames
  <1>1. source' \in 0 .. MaxSource /\ UNCHANGED <<processor, restarts, producerAlive>>
    BY Rates DEF Capture, CaptureType
  <1>2. frames \in Frames
    <2>1. \A i \in 1 .. n : source + i \in 1 .. MaxSource
      BY Rates DEF Capture, CaptureType
    <2>2. n \in Nat
      BY Rates
    <2> QED
      BY <2>1, <2>2 DEF Frames
  <1> HIDE DEF frames
  <1>3. input \in Frames
    BY <1>2, ConcatProperties DEF CaptureType, Frames
  <1> HIDE DEF input
  <1>4. ASSUME NEW chunk \in Frames, PushLatest(chunk), unresampled' \in Frames,
               interpolated' \in BOOLEAN, fellBack' \in BOOLEAN
        PROVE  CaptureType'
    BY <1>1, <1>4, PushedType DEF CaptureType
  <1>5. CASE /\ UNCHANGED <<unresampled, fellBack>>
             /\ \/ PushLatest(frames) /\ UNCHANGED interpolated
                \/ PushLatest(Linear(frames)) /\ interpolated' = TRUE
    BY <1>2, <1>4, <1>5, ResampledIsFrames DEF CaptureType, NothingWaits
  <1>6. CASE ResampleWhole(frames) /\ UNCHANGED <<interpolated, fellBack>>
    <2> DEFINE blocks == Len(input) \div InputFrames
    <2>1. blocks \in Nat
      BY <1>3, FramesFacts, BlockExists, Quotient
    <2>2. /\ unresampled' = SubSeq(input, blocks * InputFrames + 1, Len(input))
          /\ PushLatest(Resampled(SubSeq(input, 1, blocks * InputFrames)))
      BY <1>6 DEF ResampleWhole, input
    <2>3. /\ SubSeq(input, 1, blocks * InputFrames) \in Frames
          /\ unresampled' \in Frames /\ Len(unresampled') < InputFrames
      BY <1>3, <2>1, <2>2, BlocksOf
    <2> HIDE DEF blocks
    <2> QED
      BY <1>4, <1>6, <2>2, <2>3, ResampledIsFrames DEF CaptureType
  <1>7. CASE ResampleFails(frames) /\ fellBack' = TRUE /\ UNCHANGED interpolated
    <2>1. PICK block \in 1 .. Len(input) \div InputFrames :
              /\ unresampled' = SubSeq(input, block * InputFrames + 1, Len(input))
              /\ PushLatest(Linear(frames))
      BY <1>7 DEF ResampleFails, input
    <2>2. block \in Nat /\ block <= Len(input) \div InputFrames
      BY <1>3, FramesFacts, BlockExists, Quotient
    <2>3. unresampled' \in Frames
      BY <1>3, <2>1, <2>2, BlocksOf
    <2> QED
      BY <1>2, <1>4, <1>7, <2>1, <2>3, ResampledIsFrames DEF CaptureType
  <1>8. \/ /\ UNCHANGED <<unresampled, fellBack>>
           /\ \/ PushLatest(frames) /\ UNCHANGED interpolated
              \/ PushLatest(Linear(frames)) /\ interpolated' = TRUE
        \/ ResampleWhole(frames) /\ UNCHANGED <<interpolated, fellBack>>
        \/ ResampleFails(frames) /\ fellBack' = TRUE /\ UNCHANGED interpolated
    BY DEF Capture, frames
  <1> QED
    BY <1>5, <1>6, <1>7, <1>8

-----------------------------------------------------------------------------
(* The order of the audio                                                   *)

\* The number of source frames that have gone into chunks.
Passed == source - Len(unresampled)

In(s, n) == \E k \in 1 .. Len(s) : s[k] = n
OnItsWay(t, q, n) == In(t, n) \/ \E i \in 1 .. Len(q) : In(q[i], n)

\* What was taken, t, and what is queued, q, is in order and no later than m.
Ordered(t, q, m) ==
    /\ NonDecreasing(t) /\ \A k \in 1 .. Len(t) : t[k] <= m
    /\ \A i \in 1 .. Len(q) :
          /\ NonDecreasing(q[i]) /\ NotAfter(t, q[i])
          /\ \A k \in 1 .. Len(q[i]) : q[i][k] <= m
    /\ \A i, j \in 1 .. Len(q) : i < j => NotAfter(q[i], q[j])

\* A chunk has the audio of the source frames after m, up to number top; of what is
\* interpolated the last frame may only be in the one before it.
Carries(chunk, m, top, exact) ==
    /\ chunk \in Frames /\ NonDecreasing(chunk)
    /\ \A k \in 1 .. Len(chunk) : chunk[k] \in m + 1 .. top
    /\ SourceRate <= SampleRate =>
          \A n \in m + 1 .. top : In(chunk, n) \/ (~exact /\ In(chunk, n - 1))

\* What waits for the resampler are the last frames captured.
Waiting ==
    /\ processor # "fft" => unresampled = <<>>
    /\ ~fellBack => /\ Passed \in Nat
                    /\ \A k \in 1 .. Len(unresampled) : unresampled[k] = Passed + k

Complete ==
    ~lost /\ SourceRate <= SampleRate =>
        \A n \in 1 .. Passed :
            OnItsWay(taken, Line, n) \/ (interpolated /\ OnItsWay(taken, Line, n - 1))

OrderInv == Waiting /\ (~fellBack => Ordered(taken, Line, Passed) /\ Complete)

\* What a step does to the chunks in line.
LEMMA LineType ==
    ASSUME CaptureType
    PROVE  Line \in Seq(Frames) /\ (refused = <<>> => Line = queue)
  BY ConcatProperties, ConcatEmptySeq DEF CaptureType, Line

\* A chunk that is pushed goes to the end, whether the queue takes it or not.
LEMMA PushedLine ==
    ASSUME CaptureType, refused = <<>>, NEW chunk \in Frames, PushLatest(chunk)
    PROVE  Line' = Append(Line, chunk) /\ lost' = lost
  <1>1. queue \in Seq(Frames) /\ Line = queue /\ lost' = lost
    BY LineType DEF CaptureType, PushLatest
  <1>2. Line' = queue' \o refused'
    BY DEF Line
  <1>3. CASE Len(queue) < Capacity
    <2>1. queue' = Append(queue, chunk) /\ refused' = <<>>
      BY <1>3 DEF PushLatest
    <2>2. queue' \in Seq(Frames)
      BY <1>1, <2>1, AppendProperties
    <2> QED
      BY <1>1, <1>2, <2>1, <2>2, ConcatEmptySeq
  <1>4. CASE ~(Len(queue) < Capacity)
    <2>1. queue' = queue /\ refused' = <<chunk>>
      BY <1>4 DEF PushLatest
    <2> QED
      BY <1>1, <1>2, <2>1, AppendIsConcat
  <1> QED
    BY <1>3, <1>4

LEMMA TailOfConcat ==
    ASSUME NEW q \in Seq(Frames), q # <<>>, NEW r \in Seq(Frames)
    PROVE  /\ q \o r # <<>> /\ Head(q \o r) = Head(q)
           /\ Tail(q \o r) = Tail(q) \o r
  <1>1. PICK l \in Nat, m \in Nat : l = Len(q) /\ l >= 1 /\ m = Len(r)
    BY LenProperties, EmptySeq
  <1> DEFINE c == q \o r
             t == Tail(q)
  <1>2. /\ c \in Seq(Frames) /\ Len(c) = l + m
        /\ \A i \in 1 .. l + m : c[i] = IF i <= l THEN q[i] ELSE r[i - l]
    BY <1>1, ConcatProperties
  <1>3. /\ t \in Seq(Frames) /\ Len(t) = l - 1 /\ Head(q) = q[1]
        /\ \A i \in 1 .. l - 1 : t[i] = q[i + 1]
    BY <1>1, HeadTailProperties
  <1> HIDE DEF c, t
  <1>4. c # <<>>
    BY <1>1, <1>2, EmptySeq
  <1>5. /\ Tail(c) \in Seq(Frames) /\ Len(Tail(c)) = l + m - 1 /\ Head(c) = c[1]
        /\ \A i \in 1 .. l + m - 1 : Tail(c)[i] = c[i + 1]
    BY <1>1, <1>2, <1>4, HeadTailProperties
  <1>6. Head(c) = Head(q)
    <2>1. 1 \in 1 .. l + m /\ 1 <= l
      BY <1>1
    <2> QED
      BY <1>2, <1>3, <1>5, <2>1
  <1>7. /\ t \o r \in Seq(Frames) /\ Len(t \o r) = l - 1 + m
        /\ \A i \in 1 .. l - 1 + m : (t \o r)[i] = IF i <= l - 1 THEN t[i] ELSE r[i - (l - 1)]
    <2>1. PICK n \in Nat : n = l - 1
      BY <1>1
    <2>2. t \in Seq(Frames) /\ Len(t) = n
      BY <1>3, <2>1
    <2>3. /\ t \o r \in Seq(Frames) /\ Len(t \o r) = n + m
          /\ \A i \in 1 .. n + m : (t \o r)[i] = IF i <= n THEN t[i] ELSE r[i - n]
      BY <1>1, <2>2, ConcatProperties
    <2> QED
      BY <2>1, <2>3
  <1>8. ASSUME NEW i \in 1 .. l + m - 1 PROVE Tail(c)[i] = (t \o r)[i]
    <2>1. PICK j \in 1 .. l + m : j = i + 1
      BY <1>1
    <2>2. Tail(c)[i] = IF j <= l THEN q[j] ELSE r[j - l]
      BY <1>2, <1>5, <2>1
    <2>3. i \in 1 .. l - 1 + m /\ j - l = i - (l - 1)
      BY <1>1, <2>1
    <2>4. CASE j <= l
      <3>1. i \in 1 .. l - 1 /\ i <= l - 1
        BY <1>1, <2>1, <2>4
      <3> QED
        BY <1>3, <1>7, <2>1, <2>2, <2>3, <2>4, <3>1
    <2>5. CASE ~(j <= l)
      <3>1. ~(i <= l - 1)
        BY <1>1, <2>1, <2>5
      <3> QED
        BY <1>7, <2>2, <2>3, <2>5, <3>1
    <2> QED
      BY <2>4, <2>5
  <1>9. Len(Tail(c)) = Len(t \o r)
    BY <1>1, <1>5, <1>7
  <1>10. Tail(c) = t \o r
    <2>1. \A i \in 1 .. Len(Tail(c)) : Tail(c)[i] = (t \o r)[i]
      BY <1>5, <1>8
    <2> QED
      BY <1>5, <1>7, <1>9, <2>1, SeqEqual
  <1> QED
    BY <1>4, <1>6, <1>10 DEF c, t

LEMMA TakenLine ==
    ASSUME CaptureType, TakeChunk
    PROVE  Line # <<>> /\ Head(Line) = Head(queue) /\ Line' = Tail(Line)
  <1>1. /\ queue \in Seq(Frames) /\ queue # <<>> /\ refused \in Seq(Frames)
        /\ Line = queue \o refused /\ Line' = Tail(queue) \o refused
    BY DEF CaptureType, TakeChunk, captureVars, Line
  <1> QED
    BY <1>1, TailOfConcat

\* The oldest chunk in line is given up, unless the sender has taken all.
LEMMA DroppedLine ==
    ASSUME CaptureType, DropOldest
    PROVE  Line' = Line \/ (Line # <<>> /\ Line' = Tail(Line) /\ lost')
  <1>1. /\ queue \in Seq(Frames) /\ refused \in Seq(Frames)
        /\ Line = queue \o refused /\ Line' = queue' \o <<>>
    BY DEF CaptureType, DropOldest, Line
  <1>2. CASE queue = <<>>
    <2>1. queue' = <<>> \o refused
      BY <1>2 DEF DropOldest
    <2>2. queue' = refused /\ Line = refused
      BY <1>1, <1>2, <2>1, ConcatEmptySeq
    <2> QED
      BY <1>1, <2>2, ConcatEmptySeq
  <1>3. CASE queue # <<>>
    <2>1. queue' = Tail(queue) \o refused /\ lost'
      BY <1>3 DEF DropOldest
    <2>2. Line # <<>> /\ Tail(Line) = Tail(queue) \o refused
      BY <1>1, <1>3, TailOfConcat
    <2>3. Tail(queue) \in Seq(Frames)
      BY <1>1, <1>3, HeadTailProperties
    <2>4. queue' \in Seq(Frames)
      BY <1>1, <2>1, <2>3, ConcatProperties
    <2> QED
      BY <1>1, <2>1, <2>2, <2>4, ConcatEmptySeq
  <1> QED
    BY <1>2, <1>3

\* Frames as they were captured.
LEMMA CapturedCarries ==
    ASSUME NEW f \in Frames, NEW m \in Nat, \A k \in 1 .. Len(f) : f[k] = m + k
    PROVE  Carries(f, m, m + Len(f), TRUE)
  <1>1. PICK l \in Nat : l = Len(f)
    BY FramesFacts
  <1>2. NonDecreasing(f) /\ \A k \in 1 .. l : f[k] \in m + 1 .. m + l
    BY <1>1 DEF NonDecreasing
  <1>3. ASSUME NEW n \in m + 1 .. m + l PROVE In(f, n)
    <2>1. n - m \in 1 .. l /\ m + (n - m) = n
      BY <1>1
    <2> QED
      BY <1>1, <2>1 DEF In
  <1> QED
    BY <1>1, <1>2, <1>3 DEF Carries

\* Resampled frames: from a whole number of blocks all of them, else all but perhaps the last.
LEMMA ResampledCarries ==
    ASSUME NEW f \in Frames, NEW m \in Nat, \A k \in 1 .. Len(f) : f[k] = m + k,
           NEW exact \in BOOLEAN,
           IF exact THEN (Len(f) * SampleRate) % SourceRate = 0 ELSE Len(f) >= 2
    PROVE  Carries(Resampled(f), m, m + Len(f), exact)
  <1>1. PICK l \in Nat : l = Len(f)
    BY FramesFacts
  <1> DEFINE n == (l * SampleRate) \div SourceRate
             from(k) == ((k - 1) * SourceRate) \div SampleRate + 1
             chunk == Resampled(f)
  <1>2. n \in Nat
    BY Rates, ProductIsNat, Quotient
  <1>3. chunk \in Frames
    BY ResampledIsFrames
  <1>4. ASSUME NEW k \in 1 .. n PROVE from(k) \in 1 .. l
    BY <1>4, <1>1, Rates, FromIsThere
  <1>5. ASSUME NEW k \in 1 .. n, NEW j \in 1 .. n, k <= j PROVE from(k) <= from(j)
    <2>1. k - 1 \in Nat /\ j - 1 \in Nat /\ k - 1 <= j - 1
      BY <1>2, <1>5
    <2>2. /\ (k - 1) * SourceRate \in Nat /\ (j - 1) * SourceRate \in Nat
          /\ (k - 1) * SourceRate <= (j - 1) * SourceRate
      BY <2>1, Rates, ProductIsNat, ProductMonotone
    <2>3. ((k - 1) * SourceRate) \div SampleRate <= ((j - 1) * SourceRate) \div SampleRate
      BY <2>2, Rates, QuotientMonotone
    <2>4. /\ ((k - 1) * SourceRate) \div SampleRate \in Nat
          /\ ((j - 1) * SourceRate) \div SampleRate \in Nat
      BY <2>2, Rates, Quotient
    <2> QED
      BY <2>3, <2>4
  <1>6. ASSUME SourceRate <= SampleRate, NEW i \in 1 .. l, i < l \/ exact
        PROVE  \E k \in 1 .. n : from(k) = i
    <2>1. i < l \/ (l * SampleRate) % SourceRate = 0
      BY <1>1, <1>6
    <2> DEFINE k == ((i - 1) * SampleRate + SourceRate - 1) \div SourceRate + 1
    <2>2. k \in 1 .. n /\ from(k) = i
      <3>1. /\ SourceRate \in Nat \ {0} /\ SampleRate \in Nat \ {0}
            /\ SourceRate <= SampleRate /\ l \in Nat /\ i \in 1 .. l
        BY <1>1, <1>6, Rates
      <3> HIDE <1>1, <1>6
      <3> QED
        BY <2>1, <3>1, NoneLeftOut
    <2> HIDE DEF k
    <2> QED
      BY <2>2
  <1> HIDE DEF from
  <1>7. Len(chunk) = n /\ \A k \in 1 .. n : chunk[k] = m + from(k)
    <2>1. chunk = [k \in 1 .. n |-> f[from(k)]]
      BY <1>1 DEF Resampled, from
    <2> HIDE DEF chunk, n
    <2> QED
      BY <1>1, <1>2, <1>4, <2>1
  <1> HIDE DEF chunk, n
  <1>8. NonDecreasing(chunk) /\ \A k \in 1 .. n : chunk[k] \in m + 1 .. m + l
    <2>1. \A k \in 1 .. n : chunk[k] \in m + 1 .. m + l
      BY <1>1, <1>4, <1>7
    <2>2. ASSUME NEW k \in 1 .. n, NEW j \in 1 .. n, k <= j PROVE chunk[k] <= chunk[j]
      <3>1. from(k) \in Int /\ from(j) \in Int /\ from(k) <= from(j)
        BY <1>4, <1>5, <2>2
      <3> QED
        BY <1>7, <3>1
    <2> QED
      BY <1>7, <2>1, <2>2 DEF NonDecreasing
  <1>9. ASSUME SourceRate <= SampleRate, NEW i \in m + 1 .. m + l
        PROVE  In(chunk, i) \/ (~exact /\ In(chunk, i - 1))
    <2>1. ASSUME NEW j \in 1 .. l, j < l \/ exact PROVE In(chunk, m + j)
      BY <1>6, <1>7, <1>9, <2>1 DEF In
    <2>2. PICK j \in 1 .. l : i = m + j
      <3>1. i - m \in 1 .. l /\ i = m + (i - m)
        BY <1>1
      <3> QED
        BY <3>1
    <2>3. CASE j < l \/ exact
      BY <2>1, <2>2, <2>3
    <2>4. CASE j = l /\ ~exact
      <3>1. l - 1 \in 1 .. l /\ l - 1 < l /\ i - 1 = m + (l - 1)
        BY <1>1, <2>2, <2>4
      <3> QED
        BY <2>1, <2>4, <3>1
    <2> QED
      BY <1>1, <2>3, <2>4
  <1> QED
    BY <1>1, <1>3, <1>7, <1>8, <1>9 DEF Carries, chunk

LEMMA LinearCarries ==
    ASSUME NEW f \in Frames, NEW m \in Nat, \A k \in 1 .. Len(f) : f[k] = m + k
    PROVE  Carries(Linear(f), m, m + Len(f), FALSE)
  <1>1. CASE Len(f) < 2
    BY <1>1, CapturedCarries DEF Linear, Carries
  <1>2. CASE ~(Len(f) < 2)
    <2>1. Len(f) >= 2
      BY <1>2, FramesFacts
    <2> QED
      BY <1>2, <2>1, ResampledCarries DEF Linear
  <1> QED
    BY <1>1, <1>2

\* A chunk that carries what comes next may be put at the end of the queue.
LEMMA AppendOrdered ==
    ASSUME NEW t \in Frames, NEW q \in Seq(Frames), NEW m \in Nat, NEW top \in Nat, m <= top,
           NEW chunk, NEW exact \in BOOLEAN, Ordered(t, q, m), Carries(chunk, m, top, exact)
    PROVE  Ordered(t, Append(q, chunk), top)
  <1> DEFINE a == Append(q, chunk)
  <1>1. PICK l \in Nat : l = Len(q)
    BY LenProperties
  <1>2. /\ chunk \in Frames /\ NonDecreasing(chunk)
        /\ \A k \in 1 .. Len(chunk) : chunk[k] \in Nat /\ chunk[k] > m /\ chunk[k] <= top
    BY DEF Carries
  <1>3. Len(a) = l + 1 /\ a[l + 1] = chunk /\ \A i \in 1 .. l : a[i] = q[i]
    BY <1>1, <1>2, AppendProperties
  <1> HIDE DEF a
  <1>4. \A i \in 1 .. l : q[i] \in Frames /\ \A k \in 1 .. Len(q[i]) : q[i][k] \in 1 .. MaxSource
    BY <1>1, ElementOfSeq, FramesFacts
  <1>5. \A k \in 1 .. Len(t) : t[k] \in 1 .. MaxSource /\ t[k] <= m
    BY FramesFacts DEF Ordered
  <1>6. \A i \in 1 .. l : NotAfter(q[i], chunk)
    BY <1>1, <1>2, <1>4, Rates DEF Ordered, NotAfter
  <1>7. NotAfter(t, chunk)
    BY <1>2, <1>5, Rates DEF NotAfter
  <1>8. NonDecreasing(t) /\ \A k \in 1 .. Len(t) : t[k] <= top
    BY <1>5, Rates DEF Ordered
  <1>9. ASSUME NEW i \in 1 .. l + 1
        PROVE  /\ NonDecreasing(a[i]) /\ NotAfter(t, a[i])
               /\ \A k \in 1 .. Len(a[i]) : a[i][k] <= top
    <2>1. CASE i = l + 1
      BY <1>2, <1>3, <1>7, <2>1
    <2>2. CASE i \in 1 .. l
      <3>1. /\ NonDecreasing(q[i]) /\ NotAfter(t, q[i])
            /\ \A k \in 1 .. Len(q[i]) : q[i][k] <= m
        BY <1>1, <2>2 DEF Ordered
      <3>2. \A k \in 1 .. Len(q[i]) : q[i][k] <= top
        BY <1>4, <2>2, <3>1, Rates
      <3> QED
        BY <1>3, <2>2, <3>1, <3>2
    <2> QED
      BY <2>1, <2>2
  <1>10. ASSUME NEW i \in 1 .. l + 1, NEW j \in 1 .. l + 1, i < j
         PROVE  NotAfter(a[i], a[j])
    <2>1. i \in 1 .. l
      BY <1>10
    <2>2. CASE j = l + 1
      BY <1>3, <1>6, <2>1, <2>2
    <2>3. CASE j \in 1 .. l
      BY <1>1, <1>3, <1>10, <2>1, <2>3 DEF Ordered
    <2> QED
      BY <2>2, <2>3
  <1> QED
    BY <1>3, <1>8, <1>9, <1>10 DEF Ordered, a

\* So may the oldest chunk be given up.
LEMMA TailOrdered ==
    ASSUME NEW t, NEW q \in Seq(Frames), q # <<>>, NEW m, Ordered(t, q, m)
    PROVE  Ordered(t, Tail(q), m)
  <1>1. PICK l \in Nat : l = Len(q) /\ l >= 1
    BY LenProperties, EmptySeq
  <1>2. Len(Tail(q)) = l - 1 /\ \A i \in 1 .. l - 1 : Tail(q)[i] = q[i + 1]
    BY <1>1, HeadTailProperties
  <1>3. \A i \in 1 .. l - 1 : i + 1 \in 1 .. Len(q)
    BY <1>1
  <1> QED
    BY <1>1, <1>2, <1>3 DEF Ordered

\* A push keeps the order and loses nothing.
LEMMA PushKeepsOrder ==
    ASSUME CaptureType, refused = <<>>, taken \in Frames, taken' = taken,
           Ordered(taken, Line, Passed), Complete,
           Passed \in Nat, Passed' \in Nat, Passed <= Passed',
           NEW chunk, NEW exact \in BOOLEAN, Carries(chunk, Passed, Passed', exact),
           PushLatest(chunk),
           interpolated => interpolated', ~exact => interpolated'
    PROVE  Ordered(taken', Line', Passed') /\ Complete'
  <1>1. PICK l \in Nat : l = Len(Line)
    BY LenProperties, LineType
  <1>2. chunk \in Frames
    BY DEF Carries
  <1>3. Line' = Append(Line, chunk) /\ lost' = lost
    BY <1>2, PushedLine
  <1>4. Ordered(taken', Line', Passed')
    BY <1>3, LineType, AppendOrdered
  <1>5. Len(Line') = l + 1 /\ Line'[l + 1] = chunk /\ \A i \in 1 .. l : Line'[i] = Line[i]
    BY <1>1, <1>2, <1>3, LineType, AppendProperties
  <1>6. ASSUME NEW n, OnItsWay(taken, Line, n) PROVE OnItsWay(taken', Line', n)
    <2>1. CASE In(taken, n)
      BY <2>1 DEF OnItsWay
    <2>2. CASE \E i \in 1 .. l : In(Line[i], n)
      <3>1. PICK i \in 1 .. l : In(Line[i], n)
        BY <2>2
      <3>2. i \in 1 .. Len(Line') /\ In(Line'[i], n)
        BY <1>5, <3>1
      <3> QED
        BY <3>2 DEF OnItsWay
    <2> QED
      BY <1>1, <1>6, <2>1, <2>2 DEF OnItsWay
  <1>7. ASSUME NEW n, In(chunk, n) PROVE OnItsWay(taken', Line', n)
    <2>1. l + 1 \in 1 .. Len(Line') /\ In(Line'[l + 1], n)
      BY <1>5, <1>7
    <2> QED
      BY <2>1 DEF OnItsWay
  <1>8. ASSUME ~lost', SourceRate <= SampleRate, NEW n \in 1 .. Passed'
        PROVE  \/ OnItsWay(taken', Line', n)
               \/ interpolated' /\ OnItsWay(taken', Line', n - 1)
    <2>1. CASE n <= Passed
      <3>1. n \in 1 .. Passed
        BY <2>1
      <3>2. OnItsWay(taken, Line, n) \/ (interpolated /\ OnItsWay(taken, Line, n - 1))
        BY <1>3, <1>8, <3>1 DEF Complete
      <3> QED
        BY <1>6, <3>2
    <2>2. CASE n > Passed
      <3>1. n \in Passed + 1 .. Passed'
        BY <2>2
      <3>2. In(chunk, n) \/ (~exact /\ In(chunk, n - 1))
        BY <1>8, <3>1 DEF Carries
      <3> QED
        BY <1>7, <3>2
    <2> QED
      BY <2>1, <2>2
  <1>9. Complete'
    BY <1>8 DEF Complete, Passed
  <1> QED
    BY <1>4, <1>9

\* send_wasapi_bytes and send_silence push what comes next.
LEMMA CaptureKeepsOrder ==
    ASSUME CaptureType, taken \in Frames, OrderInv, NEW n \in 1 .. MaxSource, Capture(n)
    PROVE  OrderInv'
  <1> DEFINE frames == [i \in 1 .. n |-> source + i]
             input == unresampled \o frames
  <1>1. /\ source \in Nat /\ n \in Nat /\ source' = source + n
        /\ taken' = taken /\ processor' = processor
        /\ unresampled \in Frames /\ refused = <<>>
    BY Rates DEF Capture, CaptureType, senderVars
  <1>2. frames \in Frames /\ Len(frames) = n /\ \A k \in 1 .. n : frames[k] = source + k
    <2>1. \A i \in 1 .. n : source + i \in 1 .. MaxSource
      BY Rates DEF Capture, CaptureType
    <2> QED
      BY <1>1, <2>1 DEF Frames
  <1> HIDE DEF frames
  <1>3. PICK u \in Nat : u = Len(unresampled)
    BY <1>1, FramesFacts
  <1>4. /\ input \in Frames /\ Len(input) = u + n
        /\ \A k \in 1 .. u + n : input[k] = IF k <= u THEN unresampled[k] ELSE frames[k - u]
    BY <1>1, <1>2, <1>3, ConcatProperties DEF Frames
  <1> HIDE DEF input
  <1>5. Passed = source - u
    BY <1>3 DEF Passed
  <1>6. CASE /\ processor # "fft" /\ UNCHANGED <<unresampled, fellBack>>
             /\ \/ PushLatest(frames) /\ UNCHANGED interpolated
                \/ PushLatest(Linear(frames)) /\ interpolated' = TRUE
    <2>1. unresampled = <<>> /\ u = 0
      BY <1>3, <1>6 DEF OrderInv, Waiting
    <2>2. Passed = source /\ Passed' = source + n
      BY <1>1, <1>5, <1>6, <2>1 DEF Passed
    <2>3. Waiting'
      BY <1>1, <1>6, <2>1, <2>2 DEF Waiting
    <2>4. /\ Carries(frames, Passed, Passed', TRUE)
          /\ Carries(Linear(frames), Passed, Passed', FALSE)
      <3>1. \A k \in 1 .. Len(frames) : frames[k] = Passed + k
        BY <1>2, <2>2
      <3> QED
        BY <1>1, <1>2, <2>2, <3>1, CapturedCarries, LinearCarries
    <2>5. ASSUME ~fellBack' PROVE Ordered(taken', Line', Passed') /\ Complete'
      <3>1. Ordered(taken, Line, Passed) /\ Complete /\ Passed \in Nat /\ Passed' \in Nat
            /\ Passed <= Passed'
        BY <1>1, <1>6, <2>2, <2>5 DEF OrderInv
      <3>2. CASE PushLatest(frames) /\ UNCHANGED interpolated
        BY <1>1, <2>4, <3>1, <3>2, PushKeepsOrder
      <3>3. CASE PushLatest(Linear(frames)) /\ interpolated' = TRUE
        BY <1>1, <2>4, <3>1, <3>3, PushKeepsOrder
      <3> QED
        BY <1>6, <3>2, <3>3
    <2> QED
      BY <2>3, <2>5 DEF OrderInv
  <1>7. CASE processor = "fft" /\ ResampleWhole(frames) /\ UNCHANGED <<interpolated, fellBack>>
    <2> SUFFICES ASSUME ~fellBack
                 PROVE  Waiting' /\ Ordered(taken', Line', Passed') /\ Complete'
      BY <1>1, <1>7 DEF OrderInv, Waiting
    <2>1. /\ Passed \in Nat /\ \A k \in 1 .. u : unresampled[k] = Passed + k
          /\ Ordered(taken, Line, Passed) /\ Complete
      BY <1>3 DEF OrderInv, Waiting
    <2>2. \A k \in 1 .. u + n : input[k] = Passed + k
      <3> SUFFICES ASSUME NEW k \in 1 .. u + n PROVE input[k] = Passed + k
        OBVIOUS
      <3>1. CASE k <= u
        BY <1>4, <2>1, <3>1
      <3>2. CASE k > u
        <4>1. k - u \in 1 .. n /\ source + (k - u) = Passed + k
          BY <1>1, <1>3, <1>5, <3>2
        <4> QED
          BY <1>2, <1>4, <3>2, <4>1
      <3> QED
        BY <3>1, <3>2
    <2> DEFINE blocks == Len(input) \div InputFrames
               w == blocks * InputFrames
               whole == SubSeq(input, 1, w)
               rest == SubSeq(input, w + 1, Len(input))
    <2>3. blocks \in Nat /\ w \in Nat /\ w \in 0 .. Len(input)
      BY <1>4, FramesFacts, BlockExists, Quotient, BlocksOf
    <2>4. (w * SampleRate) % SourceRate = 0
      <3>1. PICK q \in Nat : InputFrames * SampleRate = q * SourceRate
        <4> DEFINE product == InputFrames * SampleRate
        <4>1. product \in Nat /\ product % SourceRate = 0
          BY BlockExists, Rates, ProductIsNat
        <4> HIDE DEF product
        <4>2. product = (product \div SourceRate) * SourceRate /\ product \div SourceRate \in Nat
          BY <4>1, Rates
        <4> QED
          BY <4>2 DEF product
      <3>2. w * SampleRate = blocks * (InputFrames * SampleRate)
        BY <2>3, BlockExists, Rates
      <3>3. blocks * (q * SourceRate) = (blocks * q) * SourceRate /\ blocks * q \in Nat
        BY <2>3, <3>1, Rates, ProductIsNat
      <3> QED
        BY <3>1, <3>2, <3>3, Rates, ProductDivides
    <2>5. /\ unresampled' = rest /\ PushLatest(Resampled(whole))
      BY <1>7 DEF ResampleWhole, input
    <2> HIDE DEF blocks, w
    <2>6. /\ whole \in Frames /\ Len(whole) = w
          /\ \A k \in 1 .. w : whole[k] = input[k]
          /\ rest \in Frames /\ Len(rest) = Len(input) - w
          /\ \A k \in 1 .. Len(input) - w : rest[k] = input[w + k]
      BY <1>4, <2>3, PartIsFrames
    <2> HIDE DEF whole, rest
    <2>7. Passed' = Passed + w
      <3>1. PICK r \in Nat : r = Len(unresampled') /\ r = (u + n) - w
        <4>1. Len(unresampled') = Len(input) - w
          BY <2>5, <2>6
        <4>2. (u + n) - w \in Nat
          BY <1>1, <1>3, <1>4, <2>3
        <4> QED
          BY <1>4, <4>1, <4>2
      <3>2. Passed' = (source + n) - r
        BY <1>1, <3>1 DEF Passed
      <3> QED
        BY <1>1, <1>3, <1>5, <2>3, <3>1, <3>2
    <2>8. Carries(Resampled(whole), Passed, Passed', TRUE)
      <3>1. \A k \in 1 .. Len(whole) : whole[k] = Passed + k
        BY <1>4, <2>2, <2>3, <2>6
      <3>2. (Len(whole) * SampleRate) % SourceRate = 0
        BY <2>4, <2>6
      <3> QED
        BY <2>1, <2>6, <2>7, <3>1, <3>2, ResampledCarries
    <2>9. Waiting'
      <3>1. Passed' \in Nat
        BY <2>1, <2>3, <2>7
      <3>2. ASSUME NEW k \in 1 .. Len(unresampled') PROVE unresampled'[k] = Passed' + k
        <4>1. k \in 1 .. u + n - w /\ unresampled'[k] = input[w + k]
          BY <1>4, <2>5, <2>6
        <4>2. PICK j \in 1 .. u + n : j = w + k
          BY <1>3, <1>1, <2>3, <4>1
        <4>3. input[j] = Passed + j
          BY <2>2
        <4> QED
          BY <2>1, <2>3, <2>7, <4>1, <4>2, <4>3
      <3> QED
        BY <1>1, <1>7, <3>1, <3>2 DEF Waiting
    <2>10. Passed' \in Nat /\ Passed <= Passed'
      BY <2>1, <2>3, <2>7
    <2> QED
      BY <1>1, <1>7, <2>1, <2>5, <2>8, <2>9, <2>10, PushKeepsOrder
  <1>8. CASE processor = "fft" /\ ResampleFails(frames) /\ fellBack' = TRUE
    BY <1>1, <1>8 DEF OrderInv, Waiting
  <1>9. \/ /\ processor # "fft" /\ UNCHANGED <<unresampled, fellBack>>
           /\ \/ PushLatest(frames) /\ UNCHANGED interpolated
              \/ PushLatest(Linear(frames)) /\ interpolated' = TRUE
        \/ processor = "fft" /\ ResampleWhole(frames) /\ UNCHANGED <<interpolated, fellBack>>
        \/ processor = "fft" /\ ResampleFails(frames) /\ fellBack' = TRUE
    BY DEF Capture, frames
  <1> QED
    BY <1>6, <1>7, <1>8, <1>9

\* The oldest chunk that is given up leaves the others in order.
LEMMA DropKeepsOrder ==
    ASSUME CaptureType, OrderInv, DropOldest
    PROVE  OrderInv'
  <1>1. /\ UNCHANGED <<processor, unresampled, source, interpolated, fellBack, taken>>
        /\ Passed' = Passed /\ (lost => lost')
    BY DEF DropOldest, senderVars, Passed
  <1>2. Waiting'
    BY <1>1 DEF OrderInv, Waiting
  <1>3. ASSUME ~fellBack' PROVE Ordered(taken', Line', Passed') /\ Complete'
    <2>1. Ordered(taken, Line, Passed) /\ Complete
      BY <1>1, <1>3 DEF OrderInv
    <2>2. CASE Line' = Line
      BY <1>1, <2>1, <2>2 DEF Complete
    <2>3. CASE Line # <<>> /\ Line' = Tail(Line) /\ lost'
      <3>1. Ordered(taken, Tail(Line), Passed)
        BY <2>1, <2>3, LineType, TailOrdered
      <3> QED
        BY <1>1, <2>3, <3>1 DEF Complete
    <2> QED
      BY <2>2, <2>3, DroppedLine
  <1> QED
    BY <1>2, <1>3 DEF OrderInv

\* A capture that starts anew: what waited for the old resampler is lost.
LEMMA RestartKeepsOrder ==
    ASSUME CaptureType, taken \in Frames, OrderInv, Restart
    PROVE  OrderInv'
  <1>1. /\ unresampled' = <<>> /\ lost' = (lost \/ unresampled # <<>>)
        /\ UNCHANGED <<source, interpolated, fellBack, taken>> /\ Line' = Line
    BY DEF Restart, senderVars, Line
  <1>2. source \in Nat /\ Passed' = source /\ unresampled \in Frames
    BY <1>1, Rates DEF CaptureType, Passed
  <1>3. Waiting'
    BY <1>1, <1>2 DEF Waiting
  <1>4. ASSUME ~fellBack' PROVE Ordered(taken', Line', Passed') /\ Complete'
    <2>1. Ordered(taken, Line, Passed) /\ Complete /\ Passed \in Nat
      BY <1>1, <1>4 DEF OrderInv, Waiting
    <2>2. Passed <= Passed'
      BY <1>2, <2>1, FramesFacts DEF Passed
    <2>3. Ordered(taken, Line, Passed')
      <3>1. \A i \in 1 .. Len(Line) : \A k \in 1 .. Len(Line[i]) : Line[i][k] \in 1 .. MaxSource
        BY LineType, ElementOfSeq, FramesFacts
      <3>2. \A k \in 1 .. Len(taken) : taken[k] \in 1 .. MaxSource
        BY FramesFacts
      <3>3. \A k \in 1 .. Len(taken) : taken[k] <= Passed'
        BY <1>2, <2>1, <2>2, <3>2, Rates DEF Ordered
      <3>4. \A i \in 1 .. Len(Line) : \A k \in 1 .. Len(Line[i]) : Line[i][k] <= Passed'
        BY <1>2, <2>1, <2>2, <3>1, Rates DEF Ordered
      <3> QED
        BY <2>1, <3>3, <3>4 DEF Ordered
    <2>4. Complete'
      <3> SUFFICES ASSUME ~lost', SourceRate <= SampleRate, NEW k \in 1 .. Passed'
                   PROVE  \/ OnItsWay(taken', Line', k)
                          \/ interpolated' /\ OnItsWay(taken', Line', k - 1)
        BY DEF Complete, Passed
      <3>1. ~lost /\ unresampled = <<>>
        BY <1>1
      <3>2. Passed' = Passed
        BY <1>2, <3>1 DEF Passed
      <3> QED
        BY <1>1, <2>1, <3>1, <3>2 DEF Complete
    <2> QED
      BY <1>1, <2>3, <2>4
  <1> QED
    BY <1>3, <1>4 DEF OrderInv

\* A chunk that is taken is the next.
LEMMA TakeKeepsOrder ==
    ASSUME CaptureType, taken \in Frames, OrderInv, TakeChunk
    PROVE  OrderInv'
  <1> DEFINE chunk == Head(Line)
  <1>1. /\ UNCHANGED captureVars /\ Line # <<>> /\ Line \in Seq(Frames)
        /\ Line' = Tail(Line) /\ taken' = taken \o chunk
    BY LineType, TakenLine DEF TakeChunk
  <1>2. PICK l \in Nat : l = Len(Line) /\ l >= 1
    BY <1>1, LenProperties, EmptySeq
  <1>3. /\ chunk \in Frames /\ chunk = Line[1]
        /\ Len(Line') = l - 1 /\ \A i \in 1 .. l - 1 : Line'[i] = Line[i + 1]
    BY <1>1, <1>2, HeadTailProperties, ElementOfSeq
  <1> HIDE DEF chunk
  <1>4. PICK t \in Nat, c \in Nat : t = Len(taken) /\ c = Len(chunk)
    BY <1>3, FramesFacts
  <1>5. /\ taken' \in Frames /\ Len(taken') = t + c
        /\ \A k \in 1 .. t + c : taken'[k] = IF k <= t THEN taken[k] ELSE chunk[k - t]
    BY <1>1, <1>3, <1>4, ConcatProperties DEF Frames
  <1>6. Passed' = Passed /\ UNCHANGED <<lost, interpolated, fellBack, processor, unresampled>>
    BY <1>1 DEF captureVars, Passed
  <1>7. Waiting'
    BY <1>6 DEF OrderInv, Waiting
  <1>8. \A k \in 1 .. t : k \in 1 .. t + c /\ taken'[k] = taken[k]
    BY <1>5
  <1>9. ASSUME NEW k \in 1 .. c PROVE t + k \in 1 .. t + c /\ taken'[t + k] = chunk[k]
    <2>1. PICK j \in 1 .. t + c : j = t + k
      OBVIOUS
    <2>2. ~(j <= t) /\ j - t = k
      BY <2>1
    <2>3. taken'[j] = chunk[k]
      BY <1>5, <2>2
    <2> QED
      BY <2>1, <2>3
  <1>10. ASSUME NEW k \in 1 .. t + c, k > t PROVE k - t \in 1 .. c /\ taken'[k] = chunk[k - t]
    BY <1>5, <1>10
  <1>11. ASSUME Ordered(taken, Line, Passed) PROVE Ordered(taken', Line', Passed')
    <2>1. 1 \in 1 .. l
      BY <1>2
    <2>2. /\ NonDecreasing(taken) /\ NonDecreasing(chunk) /\ NotAfter(taken, chunk)
          /\ \A k \in 1 .. t : taken[k] <= Passed
          /\ \A k \in 1 .. c : chunk[k] <= Passed
      BY <1>2, <1>3, <1>4, <1>11, <2>1 DEF Ordered
    <2>3. \A i \in 1 .. l - 1 : /\ NonDecreasing(Line'[i]) /\ NotAfter(taken, Line'[i])
                                /\ NotAfter(chunk, Line'[i])
                                /\ \A k \in 1 .. Len(Line'[i]) : Line'[i][k] <= Passed
      <3> SUFFICES ASSUME NEW i \in 1 .. l - 1
                   PROVE  /\ NonDecreasing(Line'[i]) /\ NotAfter(taken, Line'[i])
                          /\ NotAfter(chunk, Line'[i])
                          /\ \A k \in 1 .. Len(Line'[i]) : Line'[i][k] <= Passed
        OBVIOUS
      <3>1. i + 1 \in 1 .. l /\ 1 < i + 1 /\ Line'[i] = Line[i + 1]
        BY <1>3
      <3>2. NotAfter(chunk, Line'[i])
        BY <1>2, <1>3, <1>11, <2>1, <3>1 DEF Ordered
      <3> QED
        BY <1>2, <1>11, <3>1, <3>2 DEF Ordered
    <2>4. NonDecreasing(taken')
      <3> SUFFICES ASSUME NEW k \in 1 .. t + c, NEW j \in 1 .. t + c, k <= j
                   PROVE  taken'[k] <= taken'[j]
        BY <1>5 DEF NonDecreasing
      <3>1. CASE j <= t
        <4>1. k \in 1 .. t /\ j \in 1 .. t
          BY <3>1
        <4> QED
          BY <1>4, <1>8, <2>2, <4>1 DEF NonDecreasing
      <3>2. CASE k <= t /\ j > t
        <4>1. k \in 1 .. t
          BY <3>2
        <4> QED
          BY <1>4, <1>8, <1>10, <2>2, <3>2, <4>1 DEF NotAfter
      <3>3. CASE k > t
        <4>1. j > t /\ k - t <= j - t
          BY <3>3
        <4> QED
          BY <1>4, <1>10, <2>2, <3>3, <4>1 DEF NonDecreasing
      <3> QED
        BY <3>1, <3>2, <3>3
    <2>5. ASSUME NEW k \in 1 .. t + c
          PROVE  taken'[k] <= Passed /\ \A i \in 1 .. l - 1 : \A b \in 1 .. Len(Line'[i]) :
                                           taken'[k] <= Line'[i][b]
      <3>1. CASE k <= t
        <4>1. k \in 1 .. t /\ taken'[k] = taken[k]
          BY <1>8, <3>1
        <4> QED
          BY <1>4, <2>2, <2>3, <4>1 DEF NotAfter
      <3>2. CASE k > t
        <4>1. k - t \in 1 .. c /\ taken'[k] = chunk[k - t]
          BY <1>10, <3>2
        <4> QED
          BY <1>4, <2>2, <2>3, <4>1 DEF NotAfter
      <3> QED
        BY <3>1, <3>2
    <2>6. \A i \in 1 .. l - 1 : NotAfter(taken', Line'[i])
      BY <1>5, <2>5 DEF NotAfter
    <2>7. ASSUME NEW i \in 1 .. l - 1, NEW j \in 1 .. l - 1, i < j
          PROVE  NotAfter(Line'[i], Line'[j])
      <3>1. i + 1 \in 1 .. l /\ j + 1 \in 1 .. l /\ i + 1 < j + 1
        BY <2>7
      <3> QED
        BY <1>2, <1>3, <1>11, <3>1 DEF Ordered
    <2> QED
      BY <1>3, <1>5, <1>6, <2>3, <2>4, <2>5, <2>6, <2>7 DEF Ordered
  <1>12. ASSUME NEW n, OnItsWay(taken, Line, n) PROVE OnItsWay(taken', Line', n)
    <2>1. CASE In(taken, n)
      BY <1>4, <1>5, <1>8, <2>1 DEF In, OnItsWay
    <2>2. CASE In(chunk, n)
      BY <1>4, <1>5, <1>9, <2>2 DEF In, OnItsWay
    <2>3. ASSUME NEW i \in 2 .. l, In(Line[i], n) PROVE OnItsWay(taken', Line', n)
      <3>1. i - 1 \in 1 .. l - 1 /\ (i - 1) + 1 = i
        BY <1>2
      <3>2. Line'[i - 1] = Line[i]
        BY <1>3, <3>1
      <3> QED
        BY <1>3, <2>3, <3>1, <3>2 DEF OnItsWay
    <2>4. \A i \in 1 .. l : i = 1 \/ i \in 2 .. l
      BY <1>2
    <2> QED
      BY <1>2, <1>3, <1>12, <2>1, <2>2, <2>3, <2>4 DEF OnItsWay
  <1>13. ASSUME Complete PROVE Complete'
    BY <1>6, <1>12, <1>13 DEF Complete
  <1> QED
    BY <1>6, <1>7, <1>11, <1>13 DEF OrderInv

-----------------------------------------------------------------------------
(* The sender                                                               *)

LEMMA SenderLengths ==
    ASSUME SenderType
    PROVE  Len(pending) \in Nat /\ Len(taken) \in Nat /\ Len(packets) \in Nat
  BY FramesFacts, LenProperties DEF SenderType

LEMMA PacketFacts ==
    ASSUME SenderType, NEW i \in 1 .. Len(packets)
    PROVE  /\ packets[i] \in PacketType
           /\ packets[i].timestamp \in Nat /\ packets[i].payload \in Frames
           /\ Len(packets[i].payload) \in Nat
           /\ EndOf(packets[i]) = packets[i].timestamp + Len(packets[i].payload)
           /\ EndOf(packets[i]) \in Nat
  <1>1. packets[i] \in PacketType
    BY ElementOfSeq DEF SenderType
  <1>2. packets[i].timestamp \in Nat /\ packets[i].payload \in Frames
    BY <1>1 DEF PacketType
  <1>3. Len(packets[i].payload) \in Nat
    BY <1>2, FramesFacts
  <1> QED
    BY <1>1, <1>2, <1>3 DEF EndOf

\* A chunk that is taken goes to the end of what waits.
LEMMA TakeChunkKeeps ==
    ASSUME CaptureType, SenderInv, TakeChunk
    PROVE  SenderInv' /\ queue' \in Seq(Frames) /\ Len(queue') <= Capacity
  <1> USE DEF SenderInv
  <1>1. /\ Head(queue) \in Frames /\ Tail(queue) \in Seq(Frames)
        /\ Len(Tail(queue)) = Len(queue) - 1 /\ Len(queue) \in Nat
    BY HeadTailProperties, LenProperties DEF TakeChunk, CaptureType
  <1>2. queue' \in Seq(Frames) /\ Len(queue') <= Capacity
    BY <1>1, Rates DEF TakeChunk, CaptureType
  <1> DEFINE chunk == Head(queue)
  <1> HIDE DEF chunk
  <1>3. PICK l \in Nat, p \in Nat, t \in Nat : l = Len(chunk) /\ p = Len(pending) /\ t = Len(taken)
    BY <1>1, FramesFacts, SenderLengths DEF chunk
  <1>4. /\ pending' \in Frames /\ Len(pending') = p + l
        /\ \A k \in 1 .. p + l : pending'[k] = IF k <= p THEN pending[k] ELSE chunk[k - p]
    <2>1. pending' = pending \o chunk /\ pending \in Frames /\ chunk \in Frames
      BY <1>1 DEF TakeChunk, SenderType, chunk
    <2> QED
      BY <1>3, <2>1, ConcatProperties DEF Frames
  <1>5. /\ taken' \in Frames /\ Len(taken') = t + l
        /\ \A k \in 1 .. t + l : taken'[k] = IF k <= t THEN taken[k] ELSE chunk[k - t]
    <2>1. taken' = taken \o chunk /\ taken \in Frames /\ chunk \in Frames
      BY <1>1 DEF TakeChunk, SenderType, chunk
    <2> QED
      BY <1>3, <2>1, ConcatProperties DEF Frames
  <1>6. /\ sender' = "cut" /\ sender = "receive"
        /\ UNCHANGED <<carried, sequence, timestamp, previousFec, packets>>
    BY DEF TakeChunk
  <1>7. t = timestamp + p /\ timestamp \in Nat
    BY <1>3 DEF InPlace, SenderType
  <1>8. SenderType'
    BY <1>4, <1>5, <1>6 DEF SenderType
  <1>9. InPlace'
    <2>1. Len(taken') = timestamp' + Len(pending')
      BY <1>4, <1>5, <1>6, <1>7
    <2>2. ASSUME NEW k \in 1 .. p + l PROVE pending'[k] = taken'[timestamp' + k]
      <3>1. CASE k <= p
        <4>1. pending[k] = taken[timestamp + k]
          BY <1>3, <3>1 DEF InPlace
        <4>2. timestamp + k \in 1 .. t /\ k \in 1 .. p + l
          BY <1>7, <3>1
        <4>3. taken'[timestamp + k] = taken[timestamp + k]
          <5>1. PICK j \in 1 .. t : j = timestamp + k
            BY <4>2
          <5>2. taken'[j] = taken[j]
            BY <1>5, <5>1
          <5> QED
            BY <5>1, <5>2
        <4>4. pending'[k] = pending[k]
          BY <1>4, <3>1
        <4> QED
          BY <1>6, <4>1, <4>3, <4>4
      <3>2. CASE k > p
        <4>1. timestamp + k \in 1 .. t + l /\ ~(timestamp + k <= t) /\ timestamp + k - t = k - p
          BY <1>7, <3>2
        <4>2. taken'[timestamp + k] = chunk[k - p]
          <5>1. PICK j \in 1 .. t + l : j = timestamp + k
            BY <4>1
          <5>2. taken'[j] = chunk[j - t]
            BY <1>5, <4>1, <5>1
          <5>3. j - t = k - p
            BY <1>7, <5>1
          <5> QED
            BY <5>1, <5>2, <5>3
        <4>3. pending'[k] = chunk[k - p]
          BY <1>4, <3>2
        <4> QED
          BY <1>6, <4>1, <4>2, <4>3
      <3> QED
        BY <3>1, <3>2
    <2>3. ASSUME NEW i \in 1 .. Len(packets')
          PROVE  /\ Len(packets'[i].payload) \in 1 .. MaxFrames
                 /\ EndOf(packets'[i]) <= Len(taken')
                 /\ \A k \in 1 .. Len(packets'[i].payload) :
                       packets'[i].payload[k] = taken'[packets'[i].timestamp + k]
      <3>1. packets'[i] = packets[i] /\ i \in 1 .. Len(packets)
        BY <1>6
      <3>2. PICK n \in Nat, b \in Nat : /\ n = Len(packets[i].payload) /\ b = packets[i].timestamp
                                        /\ EndOf(packets[i]) = b + n
        BY <3>1, PacketFacts
      <3>3. /\ n \in 1 .. MaxFrames /\ b + n <= t
            /\ \A k \in 1 .. n : packets[i].payload[k] = taken[b + k]
        BY <1>3, <3>1, <3>2 DEF InPlace, PacketsInPlace
      <3>4. \A k \in 1 .. n : taken'[b + k] = taken[b + k]
        <4> SUFFICES ASSUME NEW k \in 1 .. n PROVE taken'[b + k] = taken[b + k]
          OBVIOUS
        <4>1. PICK j \in 1 .. t : j = b + k
          BY <3>3
        <4>2. taken'[j] = taken[j]
          BY <1>5, <4>1
        <4> QED
          BY <4>1, <4>2
      <3>5. b + n <= t + l
        BY <3>3
      <3> QED
        BY <1>5, <3>1, <3>2, <3>3, <3>4, <3>5
    <2> QED
      BY <1>4, <2>1, <2>2, <2>3 DEF InPlace, PacketsInPlace, EndOf
  <1>10. Chained' /\ UpToDate'
    BY <1>6 DEF Chained, UpToDate, EndOf
  <1> QED
    BY <1>2, <1>8, <1>9, <1>10

\* A packet that is cut from what waits has its place and its predecessor.
LEMMA CutPacket ==
    ASSUME SenderInv, sender = "cut", Len(pending) >= FrameSize, NEW copies \in Nat
    PROVE  /\ Len(packets) = sequence
           /\ Packet(copies) \in PacketType
           /\ Packet(copies).copies = copies /\ Packet(copies).sequence = sequence
           /\ Packet(copies).timestamp = timestamp /\ Packet(copies).fec = previousFec
           /\ Packet(copies).payload = SubSeq(pending, 1, FrameSize)
           /\ FrameSize \in 1 .. MaxFrames
           /\ Len(Packet(copies).payload) = FrameSize
           /\ EndOf(Packet(copies)) = timestamp + FrameSize
           /\ \A k \in 1 .. FrameSize : Packet(copies).payload[k] = taken[timestamp + k]
  <1> USE DEF SenderInv
  <1>1. Len(packets) = sequence
    BY DEF UpToDate
  <1>2. MaxFrames \in Nat \ {0} /\ FrameSize \in 1 .. MaxFrames
    BY FrameSizes DEF SenderType
  <1>3. FrameSize \in 0 .. Len(pending) /\ Len(pending) \in Nat
    BY <1>2, SenderLengths
  <1>4. /\ SubSeq(pending, 1, FrameSize) \in Frames
        /\ Len(SubSeq(pending, 1, FrameSize)) = FrameSize
        /\ \A k \in 1 .. FrameSize : SubSeq(pending, 1, FrameSize)[k] = pending[k]
    BY <1>3, PartIsFrames DEF SenderType
  <1>5. \A k \in 1 .. FrameSize : pending[k] = taken[timestamp + k]
    BY <1>2, <1>3 DEF InPlace
  <1>6. /\ Packet(copies).payload = SubSeq(pending, 1, FrameSize)
        /\ Packet(copies).copies = copies /\ Packet(copies).sequence = sequence
        /\ Packet(copies).timestamp = timestamp /\ Packet(copies).fec = previousFec
    BY DEF Packet
  <1>7. Packet(copies) \in PacketType
    BY <1>4 DEF Packet, PacketType, SenderType
  <1> QED
    BY <1>1, <1>2, <1>4, <1>5, <1>6, <1>7 DEF EndOf

\* A packet that is sent continues the ones before it, which stay as they are.
LEMMA AppendPacket ==
    ASSUME SenderInv, sender = "cut", Len(pending) >= FrameSize, NEW copies \in Nat,
           packets' = Append(packets, Packet(copies)), taken' = taken,
           copies = Copies \/ sender' = "failed"
    PROVE  /\ packets' \in Seq(PacketType) /\ Len(packets') = sequence + 1
           /\ packets'[sequence + 1] = Packet(copies)
           /\ \A i \in 1 .. sequence : packets'[i] = packets[i]
           /\ PacketsInPlace' /\ Chained'
  <1> USE DEF SenderInv
  <1> DEFINE p == Packet(copies)
  <1>1. /\ Len(packets) = sequence /\ p \in PacketType
        /\ p.copies = copies /\ p.sequence = sequence
        /\ p.timestamp = timestamp /\ p.fec = previousFec
        /\ FrameSize \in 1 .. MaxFrames
        /\ Len(p.payload) = FrameSize /\ EndOf(p) = timestamp + FrameSize
        /\ \A k \in 1 .. FrameSize : p.payload[k] = taken[timestamp + k]
    BY CutPacket
  <1> HIDE DEF p
  <1>2. /\ sequence \in Nat /\ timestamp \in Nat /\ MaxFrames \in Nat
        /\ Len(pending) \in Nat /\ Len(taken) \in Nat
    BY SenderLengths, FrameSizes DEF SenderType
  <1>3. /\ packets' \in Seq(PacketType) /\ Len(packets') = sequence + 1
        /\ packets'[sequence + 1] = p
        /\ \A i \in 1 .. sequence : packets'[i] = packets[i]
    <2>1. packets' = Append(packets, p) /\ packets \in Seq(PacketType)
      BY DEF p, SenderType
    <2> QED
      BY <1>1, <2>1, AppendProperties
  <1>4. PacketsInPlace'
    <2> SUFFICES ASSUME NEW i \in 1 .. Len(packets')
                 PROVE  /\ Len(packets'[i].payload) \in 1 .. MaxFrames
                        /\ EndOf(packets'[i]) <= Len(taken')
                        /\ \A k \in 1 .. Len(packets'[i].payload) :
                              packets'[i].payload[k] = taken'[packets'[i].timestamp + k]
      BY DEF PacketsInPlace, EndOf
    <2>1. CASE i = sequence + 1
      <3>1. EndOf(p) <= Len(taken)
        BY <1>1, <1>2 DEF InPlace
      <3> QED
        BY <1>1, <1>3, <2>1, <3>1
    <2>2. CASE i \in 1 .. sequence
      BY <1>1, <1>3, <2>2 DEF InPlace, PacketsInPlace
    <2> QED
      BY <1>2, <1>3, <2>1, <2>2
  <1>5. Chained'
    <2> SUFFICES ASSUME NEW i \in 1 .. Len(packets')
                 PROVE  /\ packets'[i].sequence = i - 1
                        /\ packets'[i].timestamp = IF i = 1 THEN 0 ELSE EndOf(packets'[i - 1])
                        /\ packets'[i].fec =
                               IF i = 1 THEN NoFec
                               ELSE [sequence |-> i - 2, payload |-> packets'[i - 1].payload]
                        /\ packets'[i].copies = Copies \/ (i = Len(packets') /\ sender' = "failed")
      BY DEF Chained, EndOf
    <2>1. i > 1 => packets'[i - 1] = packets[i - 1]
      BY <1>2, <1>3
    <2>2. CASE i = sequence + 1
      <3>1. packets'[i] = p
        BY <1>3, <2>2
      <3>2. /\ timestamp = IF i = 1 THEN 0 ELSE EndOf(packets[i - 1])
            /\ previousFec = IF i = 1 THEN NoFec
                              ELSE [sequence |-> i - 2, payload |-> packets[i - 1].payload]
        BY <1>2, <2>2 DEF UpToDate
      <3>3. p.copies = Copies \/ (i = Len(packets') /\ sender' = "failed")
        BY <1>1, <1>3, <2>2
      <3>4. p.sequence = i - 1
        BY <1>1, <1>2, <2>2
      <3> QED
        BY <1>1, <2>1, <3>1, <3>2, <3>3, <3>4
    <2>3. CASE i \in 1 .. sequence
      <3>1. packets'[i] = packets[i] /\ i \in 1 .. Len(packets)
        BY <1>1, <1>3, <2>3
      <3>2. /\ packets[i].sequence = i - 1
            /\ packets[i].timestamp = IF i = 1 THEN 0 ELSE EndOf(packets[i - 1])
            /\ packets[i].fec =
                   IF i = 1 THEN NoFec
                   ELSE [sequence |-> i - 2, payload |-> packets[i - 1].payload]
            /\ packets[i].copies = Copies
        BY <3>1 DEF Chained
      <3>3. CASE i = 1
        BY <3>1, <3>2, <3>3
      <3>4. CASE i > 1
        BY <2>1, <3>1, <3>2, <3>4
      <3> QED
        BY <1>2, <2>3, <3>3, <3>4
    <2> QED
      BY <1>2, <1>3, <2>2, <2>3
  <1> QED
    BY <1>3, <1>4, <1>5 DEF p

LEMMA SendFrameKeeps ==
    ASSUME SenderInv, SendFrame
    PROVE  SenderInv'
  <1> USE DEF SenderInv
  <1>1. /\ sender = "cut" /\ sender' = sender /\ taken' = taken /\ Len(pending) >= FrameSize
        /\ packets' = Append(packets, Packet(Copies))
        /\ pending' = SubSeq(pending, FrameSize + 1, Len(pending))
        /\ previousFec' = [sequence |-> sequence, payload |-> SubSeq(pending, 1, FrameSize)]
        /\ sequence' = sequence + 1 /\ timestamp' = timestamp + FrameSize
        /\ carried' = NextCarried
    BY DEF SendFrame, RestOf, KeepForFec, Advance
  <1>2. /\ packets' \in Seq(PacketType) /\ Len(packets') = sequence + 1
        /\ packets'[sequence + 1] = Packet(Copies)
        /\ PacketsInPlace' /\ Chained'
    BY <1>1, Rates, AppendPacket
  <1>3. /\ FrameSize \in 1 .. MaxFrames /\ MaxFrames \in Nat
        /\ EndOf(Packet(Copies)) = timestamp + FrameSize
        /\ Packet(Copies).payload = SubSeq(pending, 1, FrameSize)
        /\ NextCarried \in 0 .. 999
    BY <1>1, Rates, CutPacket, FrameSizes DEF SenderType
  <1>4. PICK p \in Nat, f \in Nat : p = Len(pending) /\ f = FrameSize /\ f \in 1 .. p
    BY <1>1, <1>3, SenderLengths
  <1>5. sequence \in Nat /\ timestamp \in Nat /\ Len(taken) = timestamp + p
    BY <1>4 DEF SenderType, InPlace
  <1>6. /\ SubSeq(pending, 1, f) \in Frames /\ Len(SubSeq(pending, 1, f)) = f
        /\ pending' \in Frames /\ Len(pending') = p - f
        /\ \A k \in 1 .. p - f : pending'[k] = pending[f + k]
    <2>1. pending' = SubSeq(pending, f + 1, Len(pending)) /\ f \in 0 .. Len(pending)
      BY <1>1, <1>4
    <2>2. pending \in Frames
      BY DEF SenderType
    <2> QED
      BY <1>4, <2>1, <2>2, PartIsFrames
  <1>7. SenderType'
    <2>1. previousFec' \in Kept /\ Len(previousFec'.payload) <= MaxFrames
      <3>1. previousFec' = [sequence |-> sequence, payload |-> SubSeq(pending, 1, f)]
        BY <1>1, <1>4
      <3>2. f <= MaxFrames
        BY <1>3, <1>4
      <3> QED
        BY <1>5, <1>6, <3>1, <3>2 DEF Kept
    <2>2. sequence' \in Nat /\ timestamp' \in Nat /\ carried' \in 0 .. 999
      BY <1>1, <1>3, <1>5
    <2> QED
      BY <1>1, <1>2, <1>6, <2>1, <2>2 DEF SenderType
  <1>8. InPlace'
    <2>1. Len(taken') = timestamp' + Len(pending')
      <3>1. timestamp' = timestamp + f /\ taken' = taken /\ Len(pending') = p - f
        BY <1>1, <1>4, <1>6
      <3> QED
        BY <1>4, <1>5, <3>1
    <2>2. ASSUME NEW k \in 1 .. p - f PROVE pending'[k] = taken'[timestamp' + k]
      <3>1. PICK j \in 1 .. p : j = f + k
        BY <1>4
      <3>2. pending[j] = taken[timestamp + j]
        BY <1>4, <3>1 DEF InPlace
      <3>3. timestamp + j = timestamp' + k
        BY <1>1, <1>4, <1>5, <3>1
      <3>4. pending'[k] = pending[j]
        BY <1>6, <3>1
      <3> QED
        BY <1>1, <3>2, <3>3, <3>4
    <2> QED
      BY <1>2, <1>6, <2>1, <2>2 DEF InPlace
  <1>9. UpToDate'
    <2>1. sequence' # 0 /\ sequence' - 1 = sequence
      BY <1>1, <1>5
    <2>2. packets'[sequence'] = Packet(Copies) /\ Len(packets') = sequence'
      BY <1>1, <1>2
    <2> QED
      BY <1>1, <1>3, <2>1, <2>2 DEF UpToDate, EndOf
  <1> QED
    BY <1>2, <1>7, <1>8, <1>9

\* A sender whose send has not failed may change its place without any packet.
LEMMA SenderStays ==
    ASSUME SenderInv, sender' = sender \/ sender # "failed",
           sender' \in {"bind", "receive", "cut", "ended", "failed"}, carried' \in 0 .. 999,
           UNCHANGED <<pending, sequence, timestamp, previousFec, taken, packets>>
    PROVE  SenderInv'
  <1> USE DEF SenderInv
  <1>1. SenderType'
    BY DEF SenderType
  <1>2. InPlace'
    BY DEF InPlace, PacketsInPlace, EndOf
  <1>3. Chained'
    BY DEF Chained, EndOf
  <1>4. UpToDate'
    BY DEF UpToDate, EndOf
  <1> QED
    BY <1>1, <1>2, <1>3, <1>4

LEMMA SendFailsKeeps ==
    ASSUME SenderInv, SendFails
    PROVE  SenderInv'
  <1>1. /\ sender = "cut" /\ sender' = "failed" /\ carried' = NextCarried
        /\ Len(pending) >= FrameSize
        /\ UNCHANGED <<pending, sequence, timestamp, previousFec, taken>>
    BY DEF SendFails
  <1>2. carried' \in 0 .. 999
    BY <1>1, FrameSizes DEF SenderInv, SenderType
  <1>3. PICK copies \in 0 .. Copies - 1 :
            packets' = IF copies = 0 THEN packets ELSE Append(packets, Packet(copies))
    BY DEF SendFails
  <1>4. CASE copies = 0
    BY <1>1, <1>2, <1>3, <1>4, SenderStays
  <1>5. CASE copies # 0
    <2>1. copies \in Nat /\ packets' = Append(packets, Packet(copies))
      BY <1>3, <1>5, Rates
    <2>2. /\ packets' \in Seq(PacketType) /\ Len(packets') = sequence + 1
          /\ \A i \in 1 .. sequence : packets'[i] = packets[i]
          /\ PacketsInPlace' /\ Chained'
      BY <1>1, <2>1, AppendPacket
    <2>3. SenderType'
      BY <1>1, <1>2, <2>2 DEF SenderInv, SenderType
    <2>4. InPlace'
      BY <1>1, <2>2 DEF SenderInv, InPlace
    <2>5. UpToDate'
      <3>1. sequence \in Nat /\ (sequence # 0 => packets'[sequence] = packets[sequence])
        BY <2>2 DEF SenderInv, SenderType
      <3> QED
        BY <1>1, <2>2, <3>1 DEF SenderInv, UpToDate, EndOf
    <2> QED
      BY <2>2, <2>3, <2>4, <2>5 DEF SenderInv
  <1> QED
    BY <1>4, <1>5

-----------------------------------------------------------------------------
(* The invariant                                                            *)

LEMMA InitIInv == Init => IInv
  <1> SUFFICES ASSUME Init PROVE IInv
    OBVIOUS
  <1>1. <<>> \in Frames /\ Len(<<>>) = 0
    BY DEF Frames
  <1>2. MaxFrames \in Nat \ {0}
    <2>1. SampleRate * FrameMs \in Nat /\ SampleRate * FrameMs >= 1000
      BY FormatAssumption, PacketAssumption
    <2> QED
      BY <2>1 DEF MaxFrames
  <1>3. CaptureType
    <2>1. 0 \in 0 .. MaxSource /\ 0 \in 0 .. MaxRestarts /\ 0 <= Capacity
      BY Rates, SenderAssumption
    <2>2. <<>> \in Seq(Frames) /\ Len(<<>>) = 0 /\ 0 <= 1
      OBVIOUS
    <2> QED
      BY <1>1, <2>1, <2>2 DEF Init, CaptureType
  <1>4. SenderType
    BY <1>1, <1>2 DEF Init, SenderType, Kept, NoFec
  <1>5. InPlace /\ Chained /\ UpToDate
    BY <1>1 DEF Init, InPlace, PacketsInPlace, Chained, UpToDate
  <1>6. NothingWaits
    BY <1>1, <1>2, BlockExists DEF Init, NothingWaits
  <1> QED
    BY <1>3, <1>4, <1>5, <1>6 DEF IInv, SenderInv

LEMMA NextIInv == IInv /\ [Next]_vars => IInv'
  <1> SUFFICES ASSUME IInv, [Next]_vars PROVE IInv'
    OBVIOUS
  <1> USE DEF IInv
  <1>1. /\ carried \in 0 .. 999 /\ sender \in {"bind", "receive", "cut", "ended", "failed"}
        /\ Len(pending) \in Nat
    BY SenderLengths DEF SenderInv, SenderType
  <1>2. MaxFrames \in Nat /\ FrameSize \in 1 .. MaxFrames /\ NextCarried \in 0 .. 999
    BY <1>1, FrameSizes
  <1>3. ASSUME NEW n \in 1 .. MaxSource, Capture(n) PROVE IInv'
    <2>1. UNCHANGED senderVars
      BY <1>3 DEF Capture
    <2>2. SenderInv'
      BY <1>1, <2>1, SenderStays DEF senderVars
    <2>3. CaptureType' /\ (~fellBack' => Len(unresampled') < InputFrames)
      BY <1>3, CaptureStep
    <2> QED
      BY <2>1, <2>2, <2>3 DEF NothingWaits, senderVars
  <1>4. CASE Restart
    <2>1. SenderInv'
      BY <1>1, <1>4, SenderStays DEF Restart, senderVars
    <2>2. unresampled' \in Frames /\ Len(unresampled') < InputFrames
      <3>1. unresampled' = <<>> /\ <<>> \in Frames /\ Len(<<>>) = 0
        BY <1>4 DEF Restart, Frames
      <3> QED
        BY <3>1, BlockExists
    <2>3. CaptureType'
      BY <1>4, <2>2, Rates, SenderAssumption DEF Restart, CaptureType
    <2> QED
      BY <1>4, <2>1, <2>2, <2>3 DEF NothingWaits, Restart, senderVars
  <1>5. CASE ProducerEnds
    <2>1. SenderInv'
      BY <1>1, <1>5, SenderStays DEF ProducerEnds, senderVars
    <2>2. CaptureType' /\ NothingWaits'
      BY <1>5 DEF ProducerEnds, captureVars, senderVars, CaptureType, NothingWaits
    <2> QED
      BY <2>1, <2>2
  <1>6. CASE Bind \/ NoMoreChunks
    <2>1. /\ sender \in {"bind", "receive"} /\ sender' \in {"receive", "ended", "failed"}
          /\ UNCHANGED <<captureVars, queue, producerAlive, pending, carried, sequence, timestamp,
                         previousFec, taken, packets>>
      BY <1>6 DEF Bind, NoMoreChunks
    <2>2. SenderInv'
      BY <1>1, <2>1, SenderStays
    <2>3. CaptureType' /\ NothingWaits'
      BY <2>1 DEF captureVars, CaptureType, NothingWaits
    <2> QED
      BY <2>2, <2>3
  <1>7. CASE TakeChunk
    <2>1. SenderInv' /\ queue' \in Seq(Frames) /\ Len(queue') <= Capacity
      BY <1>7, TakeChunkKeeps
    <2>2. CaptureType' /\ NothingWaits'
      BY <1>7, <2>1 DEF TakeChunk, captureVars, CaptureType, NothingWaits
    <2> QED
      BY <2>1, <2>2
  <1>8. CASE TooFew
    <2>1. SenderInv'
      BY <1>1, <1>2, <1>8, SenderStays DEF TooFew
    <2>2. Len(pending') < MaxFrames
      BY <1>1, <1>2, <1>8 DEF TooFew
    <2>3. CaptureType' /\ NothingWaits'
      BY <1>8, <2>2 DEF TooFew, captureVars, CaptureType, NothingWaits
    <2> QED
      BY <2>1, <2>3
  <1>9. CASE SendFrame \/ SendFails
    <2>1. SenderInv'
      BY <1>9, SendFrameKeeps, SendFailsKeeps
    <2>2. /\ UNCHANGED <<captureVars, queue, producerAlive>>
          /\ sender' \in {"cut", "failed"}
      BY <1>9 DEF SendFrame, SendFails
    <2>3. CaptureType' /\ NothingWaits'
      BY <2>2 DEF captureVars, CaptureType, NothingWaits
    <2> QED
      BY <2>1, <2>3
  <1>10. CASE UNCHANGED vars
    <2>1. SenderInv'
      BY <1>1, <1>10, SenderStays DEF vars, senderVars
    <2>2. CaptureType' /\ NothingWaits'
      BY <1>10 DEF vars, captureVars, senderVars, CaptureType, NothingWaits
    <2> QED
      BY <2>1, <2>2
  <1>11. CASE DropOldest
    <2>1. SenderInv'
      BY <1>1, <1>11, SenderStays DEF DropOldest, senderVars
    <2>2. NothingWaits'
      BY <1>11 DEF DropOldest, senderVars, NothingWaits
    <2> QED
      BY <1>11, <2>1, <2>2, DropOldestType
  <1> QED
    BY <1>3, <1>4, <1>5, <1>6, <1>7, <1>8, <1>9, <1>10, <1>11 DEF Next

THEOREM IInvHolds == Spec => []IInv
  <1> QED
    BY InitIInv, NextIInv, PTL DEF Spec

-----------------------------------------------------------------------------
(* The bytes of a packet                                                    *)

\* g[i] is n without its i lowest bytes.
Shifts(g, n, w) == g = [i \in 0 .. w |-> IF i = 0 THEN n ELSE g[i - 1] \div 256]

\* The recursive function in LittleEndian is a function: the numbers of bytes it is
\* defined for are all there are.
LEMMA ShiftsExist ==
    ASSUME NEW n \in Nat, NEW w \in Nat
    PROVE  \E g : Shifts(g, n, w)
  <1> DEFINE S == {k \in Nat : \E g : Shifts(g, n, k)}
  <1>1. 0 \in S
    <2> DEFINE g == [i \in 0 .. 0 |-> n]
    <2>1. Shifts(g, n, 0)
      BY DEF Shifts
    <2> QED
      BY <2>1
  <1>2. ASSUME NEW k \in S PROVE k + 1 \in S
    <2>1. PICK g : Shifts(g, n, k)
      OBVIOUS
    <2> DEFINE h == [i \in 0 .. k + 1 |-> IF i = 0 THEN n ELSE g[i - 1] \div 256]
    <2>2. \A i \in 0 .. k : h[i] = g[i]
      <3>1. \A i \in 0 .. k : g[i] = IF i = 0 THEN n ELSE g[i - 1] \div 256
        BY <2>1 DEF Shifts
      <3>2. \A i \in 0 .. k : i \in 0 .. k + 1
        OBVIOUS
      <3> QED
        BY <3>1, <3>2
    <2>3. \A i \in 0 .. k + 1 : i = 0 \/ i - 1 \in 0 .. k
      OBVIOUS
    <2>4. \A i \in 0 .. k + 1 : h[i] = IF i = 0 THEN n ELSE g[i - 1] \div 256
      OBVIOUS
    <2>5. h = [i \in 0 .. k + 1 |-> h[i]]
      OBVIOUS
    <2> HIDE DEF h
    <2>6. ASSUME NEW i \in 0 .. k + 1
          PROVE  h[i] = IF i = 0 THEN n ELSE h[i - 1] \div 256
      <3>1. i # 0 => h[i - 1] = g[i - 1]
        BY <2>2, <2>3
      <3> QED
        BY <2>4, <3>1
    <2>7. Shifts(h, n, k + 1)
      BY <2>5, <2>6 DEF Shifts
    <2> QED
      BY <2>7
  <1>3. S = Nat
    <2> HIDE DEF S
    <2>1. S \subseteq Nat
      BY DEF S
    <2> QED
      BY <1>1, <1>2, <2>1, NatSet
  <1> QED
    BY <1>3

\* What LittleEndian writes.
LEMMA WrittenBytes ==
    ASSUME NEW n \in Nat, NEW w \in Nat
    PROVE  \E g : Shifts(g, n, w) /\ LittleEndian(n, w) = [i \in 1 .. w |-> g[i - 1] % 256]
  <1> DEFINE g == CHOOSE g : Shifts(g, n, w)
  <1>1. Shifts(g, n, w)
    BY ShiftsExist
  <1>2. LittleEndian(n, w) = [i \in 1 .. w |-> g[i - 1] % 256]
    BY DEF LittleEndian, Shifts
  <1> QED
    BY <1>1, <1>2

\* One byte after the other.
LEMMA ShiftFacts ==
    ASSUME NEW n \in Nat, NEW w \in Nat, NEW g, Shifts(g, n, w)
    PROVE  /\ g[0] = n
           /\ \A i \in 1 .. w : g[i] = g[i - 1] \div 256
           /\ \A i \in 0 .. w : g[i] \in Nat
  <1>1. g[0] = n
    <2>1. 0 \in 0 .. w
      OBVIOUS
    <2> QED
      BY <2>1 DEF Shifts
  <1>2. ASSUME NEW i \in 1 .. w PROVE g[i] = g[i - 1] \div 256
    <2>1. i \in 0 .. w /\ i # 0
      OBVIOUS
    <2> QED
      BY <2>1 DEF Shifts
  <1> DEFINE S == {k \in Nat : k <= w => g[k] \in Nat}
  <1>3. 0 \in S
    BY <1>1
  <1>4. ASSUME NEW k \in S PROVE k + 1 \in S
    <2> SUFFICES ASSUME k + 1 <= w PROVE g[k + 1] \in Nat
      OBVIOUS
    <2>1. k \in Nat /\ k <= w /\ k + 1 \in 1 .. w /\ (k + 1) - 1 = k
      OBVIOUS
    <2>2. g[k + 1] = g[k] \div 256 /\ g[k] \in Nat
      BY <1>2, <2>1
    <2> QED
      BY <2>2
  <1>5. S = Nat
    <2> HIDE DEF S
    <2>1. S \subseteq Nat
      BY DEF S
    <2> QED
      BY <1>3, <1>4, <2>1, NatSet
  <1> QED
    BY <1>1, <1>2, <1>5

LEMMA WrittenType ==
    ASSUME NEW n \in Nat, NEW w \in Nat
    PROVE  LittleEndian(n, w) \in Seq(Nat) /\ Len(LittleEndian(n, w)) = w
  <1>1. PICK g : Shifts(g, n, w) /\ LittleEndian(n, w) = [i \in 1 .. w |-> g[i - 1] % 256]
    BY WrittenBytes
  <1>2. \A i \in 1 .. w : g[i - 1] % 256 \in Nat
    <2>1. \A i \in 1 .. w : i - 1 \in 0 .. w
      OBVIOUS
    <2>2. \A i \in 1 .. w : g[i - 1] \in Nat
      BY <1>1, <2>1, ShiftFacts
    <2> QED
      BY <2>2
  <1> QED
    BY <1>1, <1>2

\* w bytes hold n: no more is left of it.
Fits(n, w) == \A g : Shifts(g, n, w) => g[w] = 0

\* The receiver reads the number that was written, wherever it stands.  The value of
\* Unsigned at a place is what is left of the number there, from the last byte down.
LEMMA ReadBack ==
    ASSUME NEW n \in Nat, NEW w \in Nat, Fits(n, w), NEW data, NEW offset \in Nat,
           \A i \in 1 .. w : data[offset + i] = LittleEndian(n, w)[i]
    PROVE  Unsigned(data, offset, w) = n
  <1>1. PICK g : Shifts(g, n, w) /\ LittleEndian(n, w) = [i \in 1 .. w |-> g[i - 1] % 256]
    BY WrittenBytes
  <1>2. \A i \in 0 .. w : g[i] \in Nat
    BY <1>1, ShiftFacts
  <1>3. g[0] = n /\ g[w] = 0
    BY <1>1, ShiftFacts DEF Fits
  <1>4. \A i \in 1 .. w : data[offset + i] = g[i - 1] % 256
    BY <1>1
  <1>5. ASSUME NEW i \in 1 .. w PROVE g[i - 1] = data[offset + i] + 256 * g[i]
    <2>1. g[i] = g[i - 1] \div 256
      BY <1>1, ShiftFacts
    <2>2. i - 1 \in 0 .. w
      OBVIOUS
    <2> QED
      BY <1>2, <1>4, <2>1, <2>2
  <1> DEFINE Value(v) == v = [i \in 1 .. w + 1 |->
                                 IF i = w + 1 THEN 0 ELSE data[offset + i] + 256 * v[i + 1]]
             value == CHOOSE v : Value(v)
  <1>6. Value(value)
    <2> DEFINE v == [i \in 1 .. w + 1 |-> g[i - 1]]
    <2>1. ASSUME NEW i \in 1 .. w + 1
          PROVE  v[i] = IF i = w + 1 THEN 0 ELSE data[offset + i] + 256 * v[i + 1]
      <3>1. CASE i = w + 1
        BY <1>3, <3>1
      <3>2. CASE i # w + 1
        <4>1. i \in 1 .. w /\ i + 1 \in 1 .. w + 1 /\ (i + 1) - 1 = i
          BY <3>2
        <4> QED
          BY <1>5, <3>2, <4>1
      <3> QED
        BY <3>1, <3>2
    <2>2. Value(v)
      BY <2>1
    <2> HIDE DEF v, Value
    <2> QED
      BY <2>2
  <1>7. Unsigned(data, offset, w) = value[1]
    BY DEF Unsigned
  <1> HIDE DEF value
  <1>8. \A i \in 1 .. w + 1 :
            value[i] = IF i = w + 1 THEN 0 ELSE data[offset + i] + 256 * value[i + 1]
    BY <1>6
  <1> HIDE DEF Value
  <1> DEFINE S == {k \in Nat : k <= w => value[(w - k) + 1] = g[w - k]}
  <1>9. 0 \in S
    <2>1. w + 1 \in 1 .. w + 1 /\ (w - 0) + 1 = w + 1 /\ w - 0 = w
      OBVIOUS
    <2> QED
      BY <1>3, <1>8, <2>1
  <1>10. ASSUME NEW k \in S PROVE k + 1 \in S
    <2> SUFFICES ASSUME k + 1 <= w PROVE value[(w - (k + 1)) + 1] = g[w - (k + 1)]
      OBVIOUS
    <2>1. PICK i \in 1 .. w : i = w - k
      OBVIOUS
    <2>2. value[i + 1] = g[i]
      BY <2>1
    <2>3. value[i] = data[offset + i] + 256 * value[i + 1]
      BY <1>8, <2>1
    <2>4. value[i] = g[i - 1]
      BY <1>5, <2>2, <2>3
    <2>5. (w - (k + 1)) + 1 = i /\ w - (k + 1) = i - 1
      BY <2>1
    <2> QED
      BY <2>4, <2>5
  <1>11. S = Nat
    <2> HIDE DEF S
    <2>1. S \subseteq Nat
      BY DEF S
    <2> QED
      BY <1>9, <1>10, <2>1, NatSet
  <1>12. w <= w => value[(w - w) + 1] = g[w - w]
    <2>1. w \in S
      BY <1>11
    <2> QED
      BY <2>1
  <1>13. value[1] = g[0]
    <2>1. w <= w /\ (w - w) + 1 = 1 /\ w - w = 0
      OBVIOUS
    <2> QED
      BY <1>12, <2>1
  <1> QED
    BY <1>3, <1>7, <1>13

\* A byte off.
LEMMA Below ==
    ASSUME NEW n \in Nat, NEW m \in Nat, n < 256 * m
    PROVE  n \div 256 \in Nat /\ n \div 256 < m
  OBVIOUS

\* The numbers that two, four and eight bytes hold are below these.
Bytes2 == 256 * 256
Bytes4 == 256 * (256 * Bytes2)
Bytes8 == 256 * (256 * (256 * (256 * Bytes4)))

LEMMA Bounds ==
    /\ Bytes2 \in Nat /\ Bytes4 \in Nat /\ Bytes8 \in Nat
    /\ 0 < Bytes2 /\ Bytes2 < Bytes4 /\ 0 < Bytes8
  <1>1. Bytes2 \in Nat /\ 0 < Bytes2
    BY DEF Bytes2
  <1>2. Bytes4 \in Nat /\ Bytes2 < Bytes4
    BY <1>1 DEF Bytes4
  <1>3. 256 * Bytes4 \in Nat /\ 0 < 256 * Bytes4
    BY <1>1, <1>2
  <1>4. Bytes8 \in Nat /\ 0 < Bytes8
    BY <1>3 DEF Bytes8
  <1> QED
    BY <1>1, <1>2, <1>4

\* A number below its bound fits, by one division for each byte.
LEMMA FitsIn2 ==
    ASSUME NEW n \in Nat, n < Bytes2
    PROVE  Fits(n, 2)
  <1> SUFFICES ASSUME NEW g, Shifts(g, n, 2) PROVE g[2] = 0
    BY DEF Fits
  <1>1. g[0] = n /\ g[1] = g[0] \div 256 /\ g[2] = g[1] \div 256
    BY ShiftFacts
  <1>2. g[1] \in Nat /\ g[1] < 256
    BY <1>1, Below DEF Bytes2
  <1> QED
    BY <1>1, <1>2

LEMMA FitsIn4 ==
    ASSUME NEW n \in Nat, n < Bytes4
    PROVE  Fits(n, 4)
  <1> SUFFICES ASSUME NEW g, Shifts(g, n, 4) PROVE g[4] = 0
    BY DEF Fits
  <1>1. /\ g[0] = n /\ g[1] = g[0] \div 256 /\ g[2] = g[1] \div 256
        /\ g[3] = g[2] \div 256 /\ g[4] = g[3] \div 256
    BY ShiftFacts
  <1>2. g[1] \in Nat /\ g[1] < 256 * Bytes2
    BY <1>1, Below DEF Bytes2, Bytes4
  <1>3. g[2] \in Nat /\ g[2] < Bytes2
    BY <1>1, <1>2, Below DEF Bytes2
  <1>4. g[3] \in Nat /\ g[3] < 256
    BY <1>1, <1>3, Below DEF Bytes2
  <1> QED
    BY <1>1, <1>4

LEMMA FitsIn8 ==
    ASSUME NEW n \in Nat, n < Bytes8
    PROVE  Fits(n, 8)
  <1> SUFFICES ASSUME NEW g, Shifts(g, n, 8) PROVE g[8] = 0
    BY DEF Fits
  <1>1. /\ g[0] = n /\ g[1] = g[0] \div 256 /\ g[2] = g[1] \div 256
        /\ g[3] = g[2] \div 256 /\ g[4] = g[3] \div 256
    BY ShiftFacts
  <1>2. /\ g[5] = g[4] \div 256 /\ g[6] = g[5] \div 256
        /\ g[7] = g[6] \div 256 /\ g[8] = g[7] \div 256
    BY ShiftFacts
  <1>3. Bytes2 \in Nat /\ Bytes4 \in Nat
    BY DEF Bytes2, Bytes4
  <1>4. g[1] \in Nat /\ g[1] < 256 * (256 * (256 * Bytes4))
    BY <1>1, <1>3, Below DEF Bytes8
  <1>5. g[2] \in Nat /\ g[2] < 256 * (256 * Bytes4)
    BY <1>1, <1>3, <1>4, Below
  <1>6. g[3] \in Nat /\ g[3] < 256 * Bytes4
    BY <1>1, <1>3, <1>5, Below
  <1>7. g[4] \in Nat /\ g[4] < Bytes4
    BY <1>1, <1>3, <1>6, Below
  <1>8. g[5] \in Nat /\ g[5] < 256 * Bytes2
    BY <1>2, <1>3, <1>7, Below DEF Bytes4
  <1>9. g[6] \in Nat /\ g[6] < Bytes2
    BY <1>2, <1>3, <1>8, Below
  <1>10. g[7] \in Nat /\ g[7] < 256
    BY <1>2, <1>9, Below DEF Bytes2
  <1> QED
    BY <1>2, <1>10

\* The bytes of the PCM and their number, which the header gives in two ways.
LEMMA PcmLength ==
    ASSUME NEW payload \in Seq(Nat)
    PROVE  /\ PcmBytes(payload) \in Seq(Nat)
           /\ Len(PcmBytes(payload)) = Len(payload) * Channels * SampleBytes
           /\ Len(payload) * Channels * SampleBytes \in Nat
  <1> DEFINE width == Channels * SampleBytes
             n == Len(payload) * width
             byte(b) == LittleEndian(payload[((b - 1) \div width) + 1], SampleBytes)
                            [((b - 1) % SampleBytes) + 1]
  <1>1. PICK l \in Nat : l = Len(payload)
    BY LenProperties
  <1>2. width \in Nat \ {0} /\ Channels \in Nat /\ SampleBytes \in Nat \ {0}
    BY FormatAssumption DEF SampleBytes
  <1>3. n \in Nat /\ Len(payload) * Channels * SampleBytes = n
    <2>1. l * Channels * SampleBytes = l * width
      BY <1>1, <1>2
    <2> QED
      BY <1>1, <1>2, <2>1, ProductIsNat
  <1>4. PcmBytes(payload) = [b \in 1 .. n |-> byte(b)]
    BY <1>3 DEF PcmBytes
  <1>5. ASSUME NEW b \in 1 .. n PROVE byte(b) \in Nat
    <2>1. b - 1 \in Nat /\ b - 1 < l * width
      BY <1>1, <1>3
    <2>2. (b - 1) \div width \in 0 .. l - 1
      <3> HIDE DEF width, n
      <3> QED
        BY <1>2, <2>1, QuotientBelow
    <2>3. ((b - 1) \div width) + 1 \in 1 .. l
      BY <1>1, <2>2
    <2>4. payload[((b - 1) \div width) + 1] \in Nat
      <3> HIDE DEF width, n
      <3> QED
        BY <1>1, <2>3, ElementOfSeq
    <2>5. ((b - 1) % SampleBytes) + 1 \in 1 .. SampleBytes
      BY <2>1 DEF SampleBytes
    <2> DEFINE sample == payload[((b - 1) \div width) + 1]
               place == ((b - 1) % SampleBytes) + 1
    <2> HIDE DEF sample, place
    <2>6. /\ LittleEndian(sample, SampleBytes) \in Seq(Nat)
          /\ Len(LittleEndian(sample, SampleBytes)) = SampleBytes
      BY <1>2, <2>4, WrittenType DEF sample
    <2>7. LittleEndian(sample, SampleBytes)[place] \in Nat
      BY <1>2, <2>5, <2>6, ElementOfSeq DEF place
    <2> QED
      BY <2>7 DEF sample, place
  <1> HIDE DEF byte, n
  <1> QED
    BY <1>3, <1>4, <1>5

\* Some part of data, from an offset on.
Holds(data, offset, part) ==
    /\ part \in Seq(Nat) /\ offset + Len(part) <= Len(data)
    /\ \A i \in 1 .. Len(part) : data[offset + i] = part[i]

\* A part that is appended is held from where the data ended.
LEMMA Joined ==
    ASSUME NEW s \in Seq(Nat), NEW t \in Seq(Nat)
    PROVE  /\ s \o t \in Seq(Nat) /\ Len(s \o t) = Len(s) + Len(t)
           /\ Holds(s \o t, Len(s), t)
  <1>1. PICK l \in Nat, m \in Nat : l = Len(s) /\ m = Len(t)
    BY LenProperties
  <1>2. /\ s \o t \in Seq(Nat) /\ Len(s \o t) = l + m
        /\ \A i \in 1 .. l + m : (s \o t)[i] = IF i <= l THEN s[i] ELSE t[i - l]
    BY <1>1, ConcatProperties
  <1>3. ASSUME NEW i \in 1 .. m PROVE (s \o t)[l + i] = t[i]
    <2>1. PICK j \in 1 .. l + m : j = l + i
      OBVIOUS
    <2>2. ~(j <= l) /\ j - l = i
      BY <2>1
    <2> QED
      BY <1>2, <2>1, <2>2
  <1> QED
    BY <1>1, <1>2, <1>3 DEF Holds

\* What is appended leaves the parts before it in place.
LEMMA StillHolds ==
    ASSUME NEW s \in Seq(Nat), NEW t \in Seq(Nat), NEW offset \in Nat, NEW part,
           Holds(s, offset, part)
    PROVE  Holds(s \o t, offset, part)
  <1>1. PICK l \in Nat, m \in Nat, p \in Nat :
            l = Len(s) /\ m = Len(t) /\ p = Len(part) /\ offset + p <= l
    BY LenProperties DEF Holds
  <1>2. /\ Len(s \o t) = l + m
        /\ \A i \in 1 .. l + m : (s \o t)[i] = IF i <= l THEN s[i] ELSE t[i - l]
    BY <1>1, ConcatProperties
  <1>3. ASSUME NEW i \in 1 .. p PROVE (s \o t)[offset + i] = part[i]
    <2>1. offset + i \in 1 .. l + m /\ offset + i <= l
      BY <1>1
    <2> QED
      BY <1>1, <1>2, <2>1 DEF Holds
  <1> QED
    BY <1>1, <1>2, <1>3 DEF Holds

\* A part that is held is found between its offset and its end.
LEMMA HeldPart ==
    ASSUME NEW data \in Seq(Nat), NEW offset \in Nat, NEW part, Holds(data, offset, part)
    PROVE  SubSeq(data, offset + 1, offset + Len(part)) = part
  <1>1. PICK p \in Nat, l \in Nat : p = Len(part) /\ l = Len(data) /\ offset + p <= l
    BY LenProperties DEF Holds
  <1> DEFINE piece == SubSeq(data, offset + 1, offset + p)
  <1>2. \A i \in offset + 1 .. offset + p : data[i] \in Nat
    <2>1. \A i \in offset + 1 .. offset + p : i \in 1 .. l
      BY <1>1
    <2> QED
      BY <1>1, <2>1, ElementOfSeq
  <1>3. /\ piece \in Seq(Nat)
        /\ Len(piece) = IF offset + 1 <= offset + p THEN offset + p - (offset + 1) + 1 ELSE 0
        /\ \A i \in 1 .. offset + p - (offset + 1) + 1 : piece[i] = data[offset + 1 + i - 1]
    BY <1>1, <1>2, SubSeqProperties
  <1> HIDE DEF piece
  <1>4. Len(piece) = p
    BY <1>1, <1>3
  <1>5. \A i \in 1 .. p : piece[i] = part[i]
    <2>1. \A i \in 1 .. p : piece[i] = data[offset + i]
      BY <1>1, <1>3
    <2> QED
      BY <1>1, <2>1 DEF Holds
  <1>6. piece = part
    BY <1>1, <1>3, <1>4, <1>5, SeqEqual DEF Holds
  <1> QED
    BY <1>1, <1>6 DEF piece

\* A number that is held is read back.
LEMMA HeldNumber ==
    ASSUME NEW data \in Seq(Nat), NEW offset \in Nat, NEW n \in Nat, NEW w \in Nat, Fits(n, w),
           Holds(data, offset, LittleEndian(n, w))
    PROVE  Unsigned(data, offset, w) = n
  BY WrittenType, ReadBack DEF Holds

\* The header, field by field, at the receiver's offsets.
LEMMA HeaderIs ==
    ASSUME NEW n \in Nat, NEW t \in Nat, NEW payload \in Seq(Nat),
           NEW fec, fec.sequence \in Nat, fec.payload \in Seq(Nat)
    PROVE  LET h == Header(n, t, payload, fec)
           IN /\ h \in Seq(Nat) /\ Len(h) = HeaderBytes
              /\ Holds(h, 0, Magic)
              /\ Holds(h, 4, <<Version, HeaderBytes>>)
              /\ Holds(h, 8, LittleEndian(n, 8))
              /\ Holds(h, 32, LittleEndian(Len(payload) * Channels * SampleBytes, 4))
              /\ Holds(h, 36, LittleEndian(fec.sequence, 8))
              /\ Holds(h, 44, <<IF fec = NoFec THEN CodecNone ELSE CodecPcm, 0>>)
              /\ Holds(h, 46, LittleEndian(Len(PcmBytes(fec.payload)), 2))
  <1> DEFINE about == <<Version, HeaderBytes>>
             flags == LittleEndian(0, 2)
             number == LittleEndian(n, 8)
             time == LittleEndian(t, 8)
             sent == LittleEndian(0, 8)
             length == LittleEndian(Len(payload) * Channels * SampleBytes, 4)
             before == LittleEndian(fec.sequence, 8)
             codec == <<IF fec = NoFec THEN CodecNone ELSE CodecPcm, 0>>
             fecLength == LittleEndian(Len(PcmBytes(fec.payload)), 2)
             h1 == Magic \o about
             h2 == h1 \o flags
             h3 == h2 \o number
             h4 == h3 \o time
             h5 == h4 \o sent
             h6 == h5 \o length
             h7 == h6 \o before
             h8 == h7 \o codec
             h9 == h8 \o fecLength
  <1>1. /\ Magic \in Seq(Nat) /\ Len(Magic) = 4 /\ Holds(Magic, 0, Magic)
        /\ about \in Seq(Nat) /\ Len(about) = 2
        /\ codec \in Seq(Nat) /\ Len(codec) = 2
    <2>1. Magic \in Seq(Nat) /\ Len(Magic) = 4
      BY DEF Magic
    <2>2. about \in Seq(Nat) /\ Len(about) = 2
      BY DEF Version, HeaderBytes
    <2>3. codec \in Seq(Nat) /\ Len(codec) = 2
      <3>1. (IF fec = NoFec THEN CodecNone ELSE CodecPcm) \in Nat
        BY DEF CodecNone, CodecPcm
      <3> QED
        BY <3>1
    <2>4. Holds(Magic, 0, Magic)
      BY <2>1 DEF Holds
    <2> QED
      BY <2>1, <2>2, <2>3, <2>4
  <1>2. /\ flags \in Seq(Nat) /\ Len(flags) = 2
        /\ number \in Seq(Nat) /\ Len(number) = 8
        /\ time \in Seq(Nat) /\ Len(time) = 8
        /\ sent \in Seq(Nat) /\ Len(sent) = 8
        /\ length \in Seq(Nat) /\ Len(length) = 4
        /\ before \in Seq(Nat) /\ Len(before) = 8
        /\ fecLength \in Seq(Nat) /\ Len(fecLength) = 2
    <2>1. Len(payload) * Channels * SampleBytes \in Nat /\ Len(PcmBytes(fec.payload)) \in Nat
      BY PcmLength
    <2> QED
      BY <2>1, WrittenType
  <1>3. h9 = Header(n, t, payload, fec)
    BY DEF Header
  <1> HIDE DEF about, flags, number, time, sent, length, before, codec, fecLength
  <1>4. /\ h1 \in Seq(Nat) /\ Len(h1) = 6
        /\ Holds(h1, 0, Magic) /\ Holds(h1, 4, about)
    <2>1. /\ h1 \in Seq(Nat) /\ Len(h1) = Len(Magic) + Len(about)
          /\ Holds(h1, Len(Magic), about)
      BY <1>1, Joined
    <2>2. /\ Holds(h1, 0, Magic)
      BY <1>1, StillHolds
    <2> QED
      BY <1>1, <2>1, <2>2
  <1> HIDE DEF h1
  <1>5. /\ h2 \in Seq(Nat) /\ Len(h2) = 8
        /\ Holds(h2, 0, Magic) /\ Holds(h2, 4, about)
    <2>1. /\ h2 \in Seq(Nat) /\ Len(h2) = Len(h1) + Len(flags)
          /\ Holds(h2, Len(h1), flags)
      BY <1>2, <1>4, Joined
    <2>2. /\ Holds(h2, 0, Magic) /\ Holds(h2, 4, about)
      BY <1>2, <1>4, StillHolds
    <2> QED
      BY <1>2, <1>4, <2>1, <2>2
  <1> HIDE DEF h2
  <1>6. /\ h3 \in Seq(Nat) /\ Len(h3) = 16
        /\ Holds(h3, 0, Magic) /\ Holds(h3, 4, about) /\ Holds(h3, 8, number)
    <2>1. /\ h3 \in Seq(Nat) /\ Len(h3) = Len(h2) + Len(number)
          /\ Holds(h3, Len(h2), number)
      BY <1>2, <1>5, Joined
    <2>2. /\ Holds(h3, 0, Magic) /\ Holds(h3, 4, about)
      BY <1>2, <1>5, StillHolds
    <2> QED
      BY <1>2, <1>5, <2>1, <2>2
  <1> HIDE DEF h3
  <1>7. /\ h4 \in Seq(Nat) /\ Len(h4) = 24
        /\ Holds(h4, 0, Magic) /\ Holds(h4, 4, about) /\ Holds(h4, 8, number)
    <2>1. /\ h4 \in Seq(Nat) /\ Len(h4) = Len(h3) + Len(time)
          /\ Holds(h4, Len(h3), time)
      BY <1>2, <1>6, Joined
    <2>2. /\ Holds(h4, 0, Magic) /\ Holds(h4, 4, about) /\ Holds(h4, 8, number)
      BY <1>2, <1>6, StillHolds
    <2> QED
      BY <1>2, <1>6, <2>1, <2>2
  <1> HIDE DEF h4
  <1>8. /\ h5 \in Seq(Nat) /\ Len(h5) = 32
        /\ Holds(h5, 0, Magic) /\ Holds(h5, 4, about) /\ Holds(h5, 8, number)
    <2>1. /\ h5 \in Seq(Nat) /\ Len(h5) = Len(h4) + Len(sent)
          /\ Holds(h5, Len(h4), sent)
      BY <1>2, <1>7, Joined
    <2>2. /\ Holds(h5, 0, Magic) /\ Holds(h5, 4, about) /\ Holds(h5, 8, number)
      BY <1>2, <1>7, StillHolds
    <2> QED
      BY <1>2, <1>7, <2>1, <2>2
  <1> HIDE DEF h5
  <1>9. /\ h6 \in Seq(Nat) /\ Len(h6) = 36
        /\ Holds(h6, 0, Magic) /\ Holds(h6, 4, about) /\ Holds(h6, 8, number)
        /\ Holds(h6, 32, length)
    <2>1. /\ h6 \in Seq(Nat) /\ Len(h6) = Len(h5) + Len(length)
          /\ Holds(h6, Len(h5), length)
      BY <1>2, <1>8, Joined
    <2>2. /\ Holds(h6, 0, Magic) /\ Holds(h6, 4, about) /\ Holds(h6, 8, number)
      BY <1>2, <1>8, StillHolds
    <2> QED
      BY <1>2, <1>8, <2>1, <2>2
  <1> HIDE DEF h6
  <1>10. /\ h7 \in Seq(Nat) /\ Len(h7) = 44
         /\ Holds(h7, 0, Magic) /\ Holds(h7, 4, about) /\ Holds(h7, 8, number)
         /\ Holds(h7, 32, length) /\ Holds(h7, 36, before)
    <2>1. /\ h7 \in Seq(Nat) /\ Len(h7) = Len(h6) + Len(before)
          /\ Holds(h7, Len(h6), before)
      BY <1>2, <1>9, Joined
    <2>2. /\ Holds(h7, 0, Magic) /\ Holds(h7, 4, about) /\ Holds(h7, 8, number)
          /\ Holds(h7, 32, length)
      BY <1>2, <1>9, StillHolds
    <2> QED
      BY <1>2, <1>9, <2>1, <2>2
  <1> HIDE DEF h7
  <1>11. /\ h8 \in Seq(Nat) /\ Len(h8) = 46
         /\ Holds(h8, 0, Magic) /\ Holds(h8, 4, about) /\ Holds(h8, 8, number)
         /\ Holds(h8, 32, length) /\ Holds(h8, 36, before) /\ Holds(h8, 44, codec)
    <2>1. /\ h8 \in Seq(Nat) /\ Len(h8) = Len(h7) + Len(codec)
          /\ Holds(h8, Len(h7), codec)
      BY <1>1, <1>10, Joined
    <2>2. /\ Holds(h8, 0, Magic) /\ Holds(h8, 4, about) /\ Holds(h8, 8, number)
          /\ Holds(h8, 32, length) /\ Holds(h8, 36, before)
      BY <1>1, <1>10, StillHolds
    <2> QED
      BY <1>1, <1>10, <2>1, <2>2
  <1> HIDE DEF h8
  <1>12. /\ h9 \in Seq(Nat) /\ Len(h9) = 48
         /\ Holds(h9, 0, Magic) /\ Holds(h9, 4, about) /\ Holds(h9, 8, number)
         /\ Holds(h9, 32, length) /\ Holds(h9, 36, before) /\ Holds(h9, 44, codec)
         /\ Holds(h9, 46, fecLength)
    <2>1. /\ h9 \in Seq(Nat) /\ Len(h9) = Len(h8) + Len(fecLength)
          /\ Holds(h9, Len(h8), fecLength)
      BY <1>2, <1>11, Joined
    <2>2. /\ Holds(h9, 0, Magic) /\ Holds(h9, 4, about) /\ Holds(h9, 8, number)
          /\ Holds(h9, 32, length) /\ Holds(h9, 36, before) /\ Holds(h9, 44, codec)
      BY <1>2, <1>11, StillHolds
    <2> QED
      BY <1>2, <1>11, <2>1, <2>2
  <1> HIDE DEF h9
  <1> QED
    BY <1>3, <1>12 DEF about, number, length, before, codec, fecLength, HeaderBytes

\* The bytes of one frame, and of n.
LEMMA Width ==
    ASSUME NEW n \in Nat
    PROVE  n * Channels * SampleBytes = n * (Channels * SampleBytes)
  BY FormatAssumption DEF SampleBytes

\* A packet is read as it was meant, as long as its fields hold what is in them: none is
\* refused for its lengths, cut off by the buffer, or read with the FEC of another.
LEMMA ParsedAsMeant ==
    ASSUME NEW p, p.sequence \in Nat, p.timestamp \in Nat, p.payload \in Seq(Nat),
           p.fec.sequence \in Nat, p.fec.payload \in Seq(Nat),
           Len(p.payload) \in 1 .. MaxFrames, Len(p.fec.payload) <= MaxFrames,
           p.sequence < Bytes8, p.fec.sequence < Bytes8,
           MaxFrames * Channels * SampleBytes < Bytes2
    PROVE  Parse(Received(Datagram(p))) =
               [sequence |-> p.sequence, primary |-> PcmBytes(p.payload),
                fecSequence |-> p.fec.sequence, fec |-> PcmBytes(p.fec.payload)]
  <1> DEFINE header == Header(p.sequence, p.timestamp, p.payload, p.fec)
             pcm == PcmBytes(p.payload)
             fec == PcmBytes(p.fec.payload)
             d1 == header \o pcm
             d == d1 \o fec
             a == Len(p.payload) * Channels * SampleBytes
             b == Len(fec)
             codec == IF p.fec = NoFec THEN CodecNone ELSE CodecPcm
             number == LittleEndian(p.sequence, 8)
             before == LittleEndian(p.fec.sequence, 8)
             length == LittleEndian(a, 4)
             fecLength == LittleEndian(b, 2)
             about == <<Version, HeaderBytes>>
             mark == <<codec, 0>>
  <1>1. /\ pcm \in Seq(Nat) /\ Len(pcm) = a /\ a \in Nat
        /\ fec \in Seq(Nat) /\ b \in Nat
    BY PcmLength
  <1>2. /\ a \in Nat \ {0} /\ a < Bytes2 /\ b < Bytes2
        /\ 48 + a + b <= ReceiveBuffer /\ ReceiveBuffer \in Nat
    <2> DEFINE width == Channels * SampleBytes
               most == MaxFrames * width
    <2>1. PICK l \in Nat, f \in Nat : l = Len(p.payload) /\ f = Len(p.fec.payload)
      BY LenProperties
    <2>2. width \in Nat \ {0} /\ Channels \in Nat /\ SampleBytes \in Nat
      BY FormatAssumption DEF SampleBytes
    <2>3. MaxFrames \in Nat /\ l \in 1 .. MaxFrames /\ f <= MaxFrames
      <3>1. SampleRate * FrameMs \in Nat
        BY FormatAssumption, ProductIsNat
      <3>2. MaxFrames \in Nat
        BY <3>1 DEF MaxFrames
      <3> QED
        BY <2>1, <3>2
    <2>4. a = l * width /\ b = f * width
      <3>1. b = f * Channels * SampleBytes
        BY <2>1, PcmLength
      <3>2. l * Channels * SampleBytes = l * width /\ f * Channels * SampleBytes = f * width
        BY <2>1, Width
      <3> QED
        BY <2>1, <3>1, <3>2
    <2>5. MaxFrames * Channels * SampleBytes = most
      BY <2>2, <2>3 DEF SampleBytes
    <2>6. most < Bytes2 /\ most \in Nat
      <3> HIDE DEF width
      <3>1. most \in Nat
        BY <2>2, <2>3, ProductIsNat
      <3> QED
        BY <2>5, <3>1
    <2>7. ReceiveBuffer = 48 + 2 * most
      <3>1. 2 * MaxFrames * Channels * SampleBytes = 2 * most
        BY <2>2, <2>3 DEF SampleBytes
      <3> QED
        BY <3>1 DEF ReceiveBuffer, HeaderBytes
    <2> HIDE DEF a, b, width
    <2>8. a <= most /\ b <= most /\ a \in Nat \ {0} /\ b \in Nat
      <3>1. l * width <= MaxFrames * width
        BY <2>2, <2>3, ProductMonotone
      <3>2. f * width <= MaxFrames * width
        BY <2>2, <2>3, ProductMonotone
      <3>3. l * width \in Nat \ {0}
        BY <2>2, <2>3, ProductOfPositives
      <3>4. f * width \in Nat
        BY <2>2, <2>3, ProductIsNat
      <3> QED
        BY <2>4, <3>1, <3>2, <3>3, <3>4
    <2>9. Bytes2 \in Nat
      BY DEF Bytes2
    <2> HIDE DEF most
    <2> QED
      BY <2>6, <2>7, <2>8, <2>9
  <1>3. /\ header \in Seq(Nat) /\ Len(header) = 48
        /\ Holds(header, 0, Magic) /\ Holds(header, 4, about) /\ Holds(header, 8, number)
        /\ Holds(header, 32, length) /\ Holds(header, 36, before) /\ Holds(header, 44, mark)
        /\ Holds(header, 46, fecLength)
    <2>1. /\ header \in Seq(Nat) /\ Len(header) = HeaderBytes
          /\ Holds(header, 0, Magic) /\ Holds(header, 4, about) /\ Holds(header, 8, number)
          /\ Holds(header, 32, length) /\ Holds(header, 36, before) /\ Holds(header, 44, mark)
          /\ Holds(header, 46, fecLength)
      BY HeaderIs, Zenon
    <2> QED
      BY <2>1 DEF HeaderBytes
  <1>4. Datagram(p) = d
    BY DEF Datagram
  <1> HIDE DEF header, pcm, fec, a, b, number, before, length, fecLength, about, mark
  <1>5. /\ d1 \in Seq(Nat) /\ Len(d1) = 48 + a
        /\ Holds(d1, 0, Magic) /\ Holds(d1, 4, about) /\ Holds(d1, 8, number)
        /\ Holds(d1, 32, length) /\ Holds(d1, 36, before) /\ Holds(d1, 44, mark)
        /\ Holds(d1, 46, fecLength) /\ Holds(d1, 48, pcm)
    <2>1. d1 \in Seq(Nat) /\ Len(d1) = Len(header) + Len(pcm) /\ Holds(d1, Len(header), pcm)
      BY <1>1, <1>3, Joined
    <2>2. /\ Holds(d1, 0, Magic) /\ Holds(d1, 4, about) /\ Holds(d1, 8, number)
          /\ Holds(d1, 32, length) /\ Holds(d1, 36, before) /\ Holds(d1, 44, mark)
          /\ Holds(d1, 46, fecLength)
      BY <1>1, <1>3, StillHolds
    <2> QED
      BY <1>1, <1>3, <2>1, <2>2
  <1> HIDE DEF d1
  <1>6. /\ d \in Seq(Nat) /\ Len(d) = 48 + a + b
        /\ Holds(d, 0, Magic) /\ Holds(d, 4, about) /\ Holds(d, 8, number)
        /\ Holds(d, 32, length) /\ Holds(d, 36, before) /\ Holds(d, 44, mark)
        /\ Holds(d, 46, fecLength) /\ Holds(d, 48, pcm) /\ Holds(d, 48 + a, fec)
    <2>1. d \in Seq(Nat) /\ Len(d) = Len(d1) + Len(fec) /\ Holds(d, Len(d1), fec)
      BY <1>1, <1>5, Joined
    <2>2. /\ Holds(d, 0, Magic) /\ Holds(d, 4, about) /\ Holds(d, 8, number)
          /\ Holds(d, 32, length) /\ Holds(d, 36, before) /\ Holds(d, 44, mark)
          /\ Holds(d, 46, fecLength) /\ Holds(d, 48, pcm)
      BY <1>1, <1>5, StillHolds
    <2> QED
      BY <1>1, <1>5, <2>1, <2>2 DEF b
  <1> HIDE DEF d
  <1>7. Received(d) = d
    <2>1. ~(Len(d) < ReceiveBuffer) => ReceiveBuffer = Len(d)
      BY <1>1, <1>2, <1>6
    <2>2. SubSeq(d, 1, Len(d)) = d
      BY <1>6, SubSeqFull
    <2> QED
      BY <2>1, <2>2 DEF Received
  <1>8. /\ SubSeq(d, 1, 4) = Magic /\ d[5] = Version /\ d[6] = HeaderBytes /\ d[45] = codec
    <2>1. SubSeq(d, 0 + 1, 0 + Len(Magic)) = Magic
      BY <1>6, HeldPart
    <2>4. Len(Magic) = 4
      BY DEF Magic
    <2>2. d[4 + 1] = about[1] /\ d[4 + 2] = about[2]
      <3>1. Len(about) = 2
        BY DEF about
      <3> QED
        BY <1>6, <3>1 DEF Holds
    <2>3. d[44 + 1] = mark[1]
      <3>1. Len(mark) = 2
        BY DEF mark
      <3> QED
        BY <1>6, <3>1 DEF Holds
    <2> QED
      BY <2>1, <2>2, <2>3, <2>4 DEF about, mark
  <1>9. /\ Unsigned(d, 32, 4) = a /\ Unsigned(d, 46, 2) = b
        /\ Unsigned(d, 8, 8) = p.sequence /\ Unsigned(d, 36, 8) = p.fec.sequence
    <2>1. Fits(p.sequence, 8) /\ Fits(p.fec.sequence, 8) /\ Fits(b, 2)
      BY <1>1, <1>2, FitsIn2, FitsIn8
    <2>2. Fits(a, 4)
      <3>1. Bytes2 \in Nat /\ Bytes2 < Bytes4 /\ Bytes4 \in Nat
        BY DEF Bytes2, Bytes4
      <3> QED
        BY <1>2, <3>1, FitsIn4
    <2>3. Unsigned(d, 32, 4) = a
      BY <1>1, <1>6, <2>2, HeldNumber DEF length
    <2>4. Unsigned(d, 46, 2) = b
      BY <1>1, <1>6, <2>1, HeldNumber DEF fecLength
    <2>5. Unsigned(d, 8, 8) = p.sequence
      BY <1>6, <2>1, HeldNumber DEF number
    <2>6. Unsigned(d, 36, 8) = p.fec.sequence
      BY <1>6, <2>1, HeldNumber DEF before
    <2> QED
      BY <2>3, <2>4, <2>5, <2>6
  <1>10. /\ SubSeq(d, 48 + 1, 48 + a) = pcm
         /\ SubSeq(d, 48 + a + 1, 48 + a + b) = fec
    <2>1. SubSeq(d, 48 + 1, 48 + Len(pcm)) = pcm
      BY <1>6, HeldPart
    <2>2. 48 + a \in Nat
      BY <1>1
    <2>3. SubSeq(d, 48 + a + 1, 48 + a + Len(fec)) = fec
      BY <1>6, <2>2, HeldPart
    <2> QED
      BY <1>1, <2>1, <2>3 DEF b
  <1>11. p.fec = NoFec => b = 0
    <2> SUFFICES ASSUME p.fec = NoFec PROVE b = 0
      OBVIOUS
    <2>1. Len(p.fec.payload) = 0
      BY DEF NoFec
    <2>2. b = Len(p.fec.payload) * Channels * SampleBytes
      BY PcmLength DEF b, fec
    <2> QED
      BY <2>1, <2>2, FormatAssumption DEF SampleBytes
  <1>12. b = 0 => fec = <<>>
    BY <1>1, EmptySeq DEF b
  <1> QED
    <2>1. /\ ~(Len(d) <= HeaderBytes) /\ ~(Len(d) <= d[6]) /\ ~(d[6] < HeaderBytes)
          /\ ~(a <= 0) /\ ~(d[6] + a > Len(d)) /\ ~(d[6] + a + b > Len(d))
      BY <1>1, <1>2, <1>6, <1>8 DEF HeaderBytes
    <2> DEFINE hasFec == d[45] = CodecPcm /\ b > 0
    <2>2. Parse(d) = [sequence    |-> p.sequence,
                      primary     |-> SubSeq(d, d[6] + 1, d[6] + a),
                      fecSequence |-> p.fec.sequence,
                      fec         |-> IF hasFec THEN SubSeq(d, d[6] + a + 1, d[6] + a + b)
                                                ELSE <<>>]
      BY <1>8, <1>9, <2>1 DEF Parse
    <2>3. hasFec \/ fec = <<>>
      BY <1>1, <1>8, <1>11, <1>12 DEF codec
    <2>4. hasFec => b # 0
      BY <1>1
    <2>5. d[6] = 48
      BY <1>8 DEF HeaderBytes
    <2> QED
      BY <1>4, <1>7, <1>10, <2>2, <2>3, <2>5 DEF pcm, fec

-----------------------------------------------------------------------------
(* What it gives                                                            *)

LEMMA FramesAreNumbers ==
    ASSUME NEW f \in Frames
    PROVE  f \in Seq(Nat)
  <1>1. PICK l \in Nat : l = Len(f)
    BY FramesFacts
  <1>2. f = [k \in 1 .. l |-> f[k]] /\ \A k \in 1 .. l : f[k] \in Nat
    BY <1>1, FramesFacts DEF Frames
  <1> QED
    BY <1>2

\* Two sequences of frames are equal when they agree everywhere.
LEMMA PieceOf ==
    ASSUME NEW f \in Frames, NEW g \in Frames, NEW b \in Nat, b + Len(f) <= Len(g),
           \A k \in 1 .. Len(f) : f[k] = g[b + k]
    PROVE  f = SubSeq(g, b + 1, b + Len(f))
  <1>1. f \in Seq(Nat) /\ g \in Seq(Nat)
    BY FramesAreNumbers
  <1>2. Holds(g, b, f)
    BY <1>1 DEF Holds
  <1> QED
    BY <1>1, <1>2, HeldPart

\* Property StreamIntact of UdpSender: send_pcm_udp sends the audio it took, once and in
\* its order, each packet at the place its timestamp says.
THEOREM StreamIntactHolds == Spec => []StreamIntact
  <1>1. IInv => StreamIntact
    <2> SUFFICES ASSUME IInv PROVE StreamIntact
      OBVIOUS
    <2> USE DEF IInv, SenderInv
    <2>1. PICK p \in Nat, t \in Nat, n \in Nat :
              p = Len(pending) /\ t = Len(taken) /\ n = Len(packets)
      BY SenderLengths
    <2>2. ASSUME NEW i \in 1 .. Len(packets)
          PROVE  packets[i].payload = SubSeq(taken, packets[i].timestamp + 1, EndOf(packets[i]))
      <3>1. /\ packets[i].payload \in Frames /\ packets[i].timestamp \in Nat
            /\ EndOf(packets[i]) = packets[i].timestamp + Len(packets[i].payload)
        BY PacketFacts
      <3>2. /\ EndOf(packets[i]) <= Len(taken)
            /\ \A k \in 1 .. Len(packets[i].payload) :
                  packets[i].payload[k] = taken[packets[i].timestamp + k]
        BY DEF InPlace, PacketsInPlace
      <3>3. packets[i].payload = SubSeq(taken, packets[i].timestamp + 1,
                                         packets[i].timestamp + Len(packets[i].payload))
        <4> DEFINE f == packets[i].payload
                   b == packets[i].timestamp
        <4>1. /\ f \in Frames /\ taken \in Frames /\ b \in Nat /\ b + Len(f) <= Len(taken)
              /\ \A k \in 1 .. Len(f) : f[k] = taken[b + k]
          BY <3>1, <3>2 DEF SenderType
        <4> HIDE DEF f, b
        <4>2. f = SubSeq(taken, b + 1, b + Len(f))
          BY <4>1, PieceOf
        <4> QED
          BY <4>2 DEF f, b
      <3> QED
        BY <3>1, <3>3
    <2>3. pending = SubSeq(taken, timestamp + 1, Len(taken))
      <3>1. /\ pending \in Frames /\ taken \in Frames /\ timestamp \in Nat
            /\ Len(taken) = timestamp + Len(pending) /\ t = timestamp + p
            /\ \A k \in 1 .. Len(pending) : pending[k] = taken[timestamp + k]
        BY <2>1 DEF SenderType, InPlace
      <3>2. timestamp + Len(pending) <= Len(taken)
        BY <2>1, <3>1
      <3>3. pending = SubSeq(taken, timestamp + 1, timestamp + Len(pending))
        BY <3>1, <3>2, PieceOf
      <3> QED
        BY <3>1, <3>3
    <2>4. sender # "failed" => timestamp = SentUpTo
      <3> SUFFICES ASSUME sender # "failed" PROVE timestamp = SentUpTo
        OBVIOUS
      <3>1. n = sequence
        BY <2>1 DEF UpToDate
      <3>2. packets = <<>> <=> n = 0
        BY <2>1, EmptySeq DEF SenderType
      <3> QED
        BY <2>1, <3>1, <3>2 DEF UpToDate, SentUpTo
    <2> QED
      BY <2>2, <2>3, <2>4 DEF StreamIntact, Chained
  <1> QED
    BY <1>1, IInvHolds, PTL

\* Property PacketsChained of UdpSender, with the type of its state: the packets are
\* numbered without a gap and each carries its predecessor under its number.
THEOREM PacketsChainedHolds == Spec => []PacketsChained
  <1>1. IInv => PacketsChained
    <2> SUFFICES ASSUME IInv PROVE PacketsChained
      OBVIOUS
    <2> USE DEF IInv, SenderInv
    <2>1. TypeOK
      BY DEF TypeOK, CaptureType, SenderType, InPlace, PacketsInPlace
    <2> QED
      BY <2>1 DEF PacketsChained, Chained
  <1> QED
    BY <1>1, IInvHolds, PTL

\* Property DelayBounded of UdpSender: what waits is less than a packet and less than a
\* block of the resampler.
THEOREM DelayBoundedHolds == Spec => []DelayBounded
  <1>1. IInv => DelayBounded
    BY DEF IInv, NothingWaits, DelayBounded
  <1> QED
    BY <1>1, IInvHolds, PTL

\* What Pieces is made of, by index.
LEMMA PiecesAre ==
    ASSUME CaptureType, taken \in Frames, NEW l \in Nat, l = Len(Line)
    PROVE  /\ Len(Pieces) = l + 2
           /\ Pieces[1] = taken /\ Pieces[l + 2] = unresampled
           /\ \A i \in 1 .. l : Pieces[i + 1] = Line[i]
  <1> DEFINE front == <<taken>> \o Line
  <1>1. /\ <<taken>> \in Seq(Frames) /\ Len(<<taken>>) = 1 /\ <<taken>>[1] = taken
        /\ <<unresampled>> \in Seq(Frames) /\ Len(<<unresampled>>) = 1
        /\ <<unresampled>>[1] = unresampled /\ Line \in Seq(Frames)
    BY LineType DEF CaptureType
  <1>2. /\ front \in Seq(Frames) /\ Len(front) = 1 + l
        /\ \A i \in 1 .. 1 + l : front[i] = IF i <= 1 THEN <<taken>>[i] ELSE Line[i - 1]
    BY <1>1, ConcatProperties
  <1>3. front[1] = taken /\ \A i \in 1 .. l : front[i + 1] = Line[i]
    <2>1. ASSUME NEW i \in 1 .. l PROVE front[i + 1] = Line[i]
      <3>1. PICK j \in 1 .. 1 + l : j = i + 1 /\ ~(j <= 1) /\ j - 1 = i
        OBVIOUS
      <3> QED
        BY <1>2, <3>1
    <2> QED
      BY <1>1, <1>2, <2>1
  <1> HIDE DEF front
  <1>4. /\ Len(Pieces) = (1 + l) + 1
        /\ \A i \in 1 .. (1 + l) + 1 :
              Pieces[i] = IF i <= 1 + l THEN front[i] ELSE <<unresampled>>[i - (1 + l)]
    <2>1. Pieces = front \o <<unresampled>>
      BY DEF Pieces, front
    <2> QED
      BY <1>1, <1>2, <2>1, ConcatProperties
  <1>5. Pieces[l + 2] = unresampled
    <2>1. PICK j \in 1 .. (1 + l) + 1 : j = l + 2 /\ ~(j <= 1 + l) /\ j - (1 + l) = 1
      OBVIOUS
    <2> QED
      BY <1>1, <1>4, <2>1
  <1>6. Pieces[1] = taken
    <2>1. 1 \in 1 .. (1 + l) + 1 /\ 1 <= 1 + l
      OBVIOUS
    <2> QED
      BY <1>3, <1>4, <2>1
  <1>7. ASSUME NEW i \in 1 .. l PROVE Pieces[i + 1] = Line[i]
    <2>1. i + 1 \in 1 .. (1 + l) + 1 /\ i + 1 <= 1 + l
      OBVIOUS
    <2> QED
      BY <1>3, <1>4, <2>1
  <1> QED
    BY <1>4, <1>5, <1>6, <1>7

LEMMA InitOrderInv == Init => OrderInv
  <1> SUFFICES ASSUME Init PROVE OrderInv
    OBVIOUS
  <1>1. Passed = 0 /\ unresampled = <<>> /\ Len(unresampled) = 0
    <2>1. unresampled = <<>> /\ source = 0
      BY DEF Init
    <2>2. Len(unresampled) = 0
      BY <2>1
    <2>3. Passed = 0 - 0
      BY <2>1, <2>2 DEF Passed
    <2> QED
      BY <2>1, <2>2, <2>3
  <1>2. Waiting
    BY <1>1 DEF Waiting
  <1>3. taken = <<>> /\ Line = <<>> /\ Len(taken) = 0 /\ Len(Line) = 0
    BY DEF Init, Line
  <1>4. Ordered(taken, Line, Passed)
    BY <1>3 DEF Ordered, NonDecreasing
  <1>5. Complete
    BY <1>1 DEF Complete
  <1> QED
    BY <1>2, <1>4, <1>5 DEF OrderInv

LEMMA NextOrderInv == IInv /\ OrderInv /\ [Next]_vars => OrderInv'
  <1> SUFFICES ASSUME IInv, OrderInv, [Next]_vars PROVE OrderInv'
    OBVIOUS
  <1>1. CaptureType /\ taken \in Frames
    BY DEF IInv, SenderInv, SenderType
  <1>2. ASSUME NEW n \in 1 .. MaxSource, Capture(n) PROVE OrderInv'
    BY <1>1, <1>2, CaptureKeepsOrder
  <1>3. CASE Restart \/ DropOldest
    BY <1>1, <1>3, RestartKeepsOrder, DropKeepsOrder
  <1>4. CASE TakeChunk
    BY <1>1, <1>4, TakeKeepsOrder
  <1>5. CASE UNCHANGED <<captureVars, queue, taken>>
    BY <1>5 DEF captureVars, OrderInv, Waiting, Complete, Passed, Line
  <1>6. CASE \/ ProducerEnds \/ Bind \/ NoMoreChunks \/ TooFew \/ SendFrame \/ SendFails
             \/ UNCHANGED vars
    <2>1. UNCHANGED <<captureVars, queue, taken>>
      BY <1>6 DEF ProducerEnds, Bind, NoMoreChunks, TooFew, SendFrame, SendFails, vars, senderVars
    <2> QED
      BY <1>5, <2>1
  <1> QED
    BY <1>2, <1>3, <1>4, <1>6 DEF Next

\* Property CapturedOrder of UdpSender: the audio leaves in the order of its capture, and
\* all of it unless the full queue or a change of device took some.
THEOREM CapturedOrderHolds == Spec => []CapturedOrder
  <1>1. IInv /\ OrderInv => CapturedOrder
    <2> SUFFICES ASSUME IInv, OrderInv, ~fellBack
                 PROVE  /\ \A i \in 1 .. Len(Pieces) : NonDecreasing(Pieces[i])
                        /\ \A i, j \in 1 .. Len(Pieces) : i < j => NotAfter(Pieces[i], Pieces[j])
                        /\ ~lost /\ SourceRate <= SampleRate
                           => \A n \in 1 .. source : Heard(n) \/ (interpolated /\ Heard(n - 1))
      BY DEF CapturedOrder
    <2>1. /\ CaptureType /\ taken \in Frames /\ Line \in Seq(Frames)
          /\ unresampled \in Frames /\ source \in Nat
      BY Rates, LineType DEF IInv, SenderInv, SenderType, CaptureType
    <2>2. /\ Ordered(taken, Line, Passed) /\ Complete /\ Passed \in Nat
          /\ \A k \in 1 .. Len(unresampled) : unresampled[k] = Passed + k
      BY DEF OrderInv, Waiting
    <2>3. PICK l \in Nat, u \in Nat, t \in Nat :
              l = Len(Line) /\ u = Len(unresampled) /\ t = Len(taken)
      BY <2>1, LenProperties, FramesFacts
    <2>4. /\ Len(Pieces) = l + 2 /\ Pieces[1] = taken /\ Pieces[l + 2] = unresampled
          /\ \A i \in 1 .. l : Pieces[i + 1] = Line[i]
      BY <2>1, <2>3, PiecesAre
    <2>5. \A k \in 1 .. t : taken[k] \in Nat
      BY <2>1, <2>3, FramesFacts, Rates
    <2>6. \A i \in 1 .. l : \A k \in 1 .. Len(Line[i]) : Line[i][k] \in Nat
      <3>1. \A i \in 1 .. l : Line[i] \in Frames
        BY <2>1, <2>3, ElementOfSeq
      <3> QED
        BY <3>1, FramesFacts, Rates
    <2>7. ASSUME NEW i \in 1 .. l + 2
          PROVE  i = 1 \/ i = l + 2 \/ (i - 1 \in 1 .. l /\ Pieces[i] = Line[i - 1])
      <3>1. i = 1 \/ i = l + 2 \/ (i - 1 \in 1 .. l /\ (i - 1) + 1 = i)
        OBVIOUS
      <3> QED
        BY <2>4, <3>1
    <2>8. NonDecreasing(unresampled)
      BY <2>2, <2>3 DEF NonDecreasing
    <2>9. NotAfter(taken, unresampled) /\ \A i \in 1 .. l : NotAfter(Line[i], unresampled)
      <3>1. ASSUME NEW k \in 1 .. u PROVE unresampled[k] \in Nat /\ unresampled[k] > Passed
        BY <2>2, <2>3
      <3>2. \A k \in 1 .. t : taken[k] <= Passed
        BY <2>2, <2>3 DEF Ordered
      <3>3. \A i \in 1 .. l : \A k \in 1 .. Len(Line[i]) : Line[i][k] <= Passed
        BY <2>2, <2>3 DEF Ordered
      <3>4. NotAfter(taken, unresampled)
        BY <2>2, <2>3, <2>5, <3>1, <3>2 DEF NotAfter
      <3>5. \A i \in 1 .. l : NotAfter(Line[i], unresampled)
        BY <2>2, <2>3, <2>6, <3>1, <3>3 DEF NotAfter
      <3> QED
        BY <3>4, <3>5
    <2>10. ASSUME NEW i \in 1 .. l + 2 PROVE NonDecreasing(Pieces[i])
      BY <2>2, <2>3, <2>4, <2>7, <2>8 DEF Ordered
    <2>11. ASSUME NEW i \in 1 .. l + 2, NEW j \in 1 .. l + 2, i < j
           PROVE  NotAfter(Pieces[i], Pieces[j])
      <3>1. CASE j = l + 2
        <4>1. i = 1 \/ (i - 1 \in 1 .. l /\ Pieces[i] = Line[i - 1])
          BY <2>7, <2>11, <3>1
        <4> QED
          BY <2>4, <2>9, <3>1, <4>1
      <3>2. CASE j # l + 2
        <4>1. j - 1 \in 1 .. l /\ Pieces[j] = Line[j - 1]
          BY <2>7, <2>11, <3>2
        <4>2. CASE i = 1
          BY <2>2, <2>3, <2>4, <4>1, <4>2 DEF Ordered
        <4>3. CASE i # 1
          <5>1. i - 1 \in 1 .. l /\ Pieces[i] = Line[i - 1] /\ i - 1 < j - 1
            BY <2>7, <2>11, <4>3
          <5> QED
            BY <2>2, <2>3, <4>1, <5>1 DEF Ordered
        <4> QED
          BY <4>2, <4>3
      <3> QED
        BY <3>1, <3>2
    <2>12. ASSUME NEW n, OnItsWay(taken, Line, n) PROVE Heard(n)
      <3>1. CASE In(taken, n)
        <4>1. 1 \in 1 .. Len(Pieces) /\ In(Pieces[1], n)
          BY <2>4, <3>1
        <4> QED
          BY <4>1 DEF Heard, In
      <3>2. ASSUME NEW i \in 1 .. l, In(Line[i], n) PROVE Heard(n)
        <4>1. i + 1 \in 1 .. Len(Pieces) /\ In(Pieces[i + 1], n)
          BY <2>4, <3>2
        <4> QED
          BY <4>1 DEF Heard, In
      <3> QED
        BY <2>3, <2>12, <3>1, <3>2 DEF OnItsWay
    <2>13. ASSUME ~lost, SourceRate <= SampleRate, NEW n \in 1 .. source
           PROVE  Heard(n) \/ (interpolated /\ Heard(n - 1))
      <3>1. CASE n <= Passed
        <4>1. n \in 1 .. Passed
          BY <2>2, <3>1
        <4>2. OnItsWay(taken, Line, n) \/ (interpolated /\ OnItsWay(taken, Line, n - 1))
          BY <2>2, <2>13, <4>1 DEF Complete
        <4> QED
          BY <2>12, <4>2
      <3>2. CASE n > Passed
        <4>1. source = Passed + u
          BY <2>1, <2>2, <2>3 DEF Passed
        <4>2. PICK k \in 1 .. u : n = Passed + k
          <5>1. n - Passed \in 1 .. u /\ n = Passed + (n - Passed)
            BY <2>1, <2>2, <2>3, <3>2, <4>1
          <5> QED
            BY <5>1
        <4>3. l + 2 \in 1 .. Len(Pieces) /\ In(Pieces[l + 2], n)
          BY <2>2, <2>3, <2>4, <4>2 DEF In
        <4> QED
          BY <4>3 DEF Heard, In
      <3> QED
        BY <2>2, <3>1, <3>2
    <2> QED
      BY <2>4, <2>10, <2>11, <2>13
  <1> QED
    BY <1>1, InitOrderInv, NextOrderInv, IInvHolds, PTL DEF Spec

Meant(p) == [sequence |-> p.sequence, primary |-> PcmBytes(p.payload),
             fecSequence |-> p.fec.sequence, fec |-> PcmBytes(p.fec.payload)]

Read(p) == Parse(Received(Datagram(p)))

\* Every packet, not only the last.
LEMMA PacketUnderstood ==
    ASSUME IInv, MaxFrames * Channels * SampleBytes < Bytes2, Len(packets) <= Bytes8,
           NEW i \in 1 .. Len(packets)
    PROVE  Read(packets[i]) = Meant(packets[i])
  <1> USE DEF IInv, SenderInv
  <1>1. PICK n \in Nat : n = Len(packets) /\ i \in 1 .. n /\ n <= Bytes8
    BY SenderLengths
  <1> DEFINE p == packets[i]
  <1>2. /\ p \in PacketType /\ p.sequence \in Nat /\ p.timestamp \in Nat
        /\ p.payload \in Frames /\ p.fec.sequence \in Nat /\ p.fec.payload \in Frames
    BY PacketFacts DEF PacketType, Kept
  <1>3. p.payload \in Seq(Nat) /\ p.fec.payload \in Seq(Nat)
    BY <1>2, FramesAreNumbers
  <1>4. Len(p.payload) \in 1 .. MaxFrames
    BY DEF InPlace, PacketsInPlace
  <1>5. p.sequence < Bytes8
    <2>1. p.sequence = i - 1
      BY DEF Chained
    <2> QED
      BY <1>1, <2>1, Bounds
  <1>6. p.fec.sequence < Bytes8 /\ Len(p.fec.payload) <= MaxFrames
    <2>1. p.fec = IF i = 1 THEN NoFec
                  ELSE [sequence |-> i - 2, payload |-> packets[i - 1].payload]
      BY DEF Chained
    <2>2. CASE i = 1
      <3>1. p.fec.sequence = 0 /\ Len(p.fec.payload) = 0
        BY <2>1, <2>2 DEF NoFec
      <3>2. MaxFrames \in Nat
        BY FrameSizes DEF SenderType
      <3> QED
        BY <3>1, <3>2, Bounds
    <2>3. CASE i # 1
      <3>1. p.fec.sequence = i - 2 /\ p.fec.payload = packets[i - 1].payload
        BY <2>1, <2>3
      <3>2. i - 1 \in 1 .. Len(packets) /\ i - 2 < n
        BY <1>1, <2>3
      <3>3. Len(packets[i - 1].payload) <= MaxFrames
        BY <3>2 DEF InPlace, PacketsInPlace
      <3>4. i - 2 < Bytes8
        BY <1>1, <3>2, Bounds
      <3> QED
        BY <3>1, <3>3, <3>4
    <2> QED
      BY <2>2, <2>3
  <1>7. Parse(Received(Datagram(p))) =
            [sequence |-> p.sequence, primary |-> PcmBytes(p.payload),
             fecSequence |-> p.fec.sequence, fec |-> PcmBytes(p.fec.payload)]
    BY <1>2, <1>3, <1>4, <1>5, <1>6, ParsedAsMeant
  <1> QED
    BY <1>7 DEF Read, Meant

\* Property ReceiverUnderstands of UdpSender: what parsePacket of PcmAudioService.kt reads
\* from a packet is what send_pcm_udp put into it.  The PCM of the longest packet has to fit
\* the two bytes of its length (it is 1920 bytes of 65535), and eight bytes have to number
\* the packets.
THEOREM ReceiverUnderstandsHolds ==
    ASSUME MaxFrames * Channels * SampleBytes < Bytes2
    PROVE  Spec => [](Len(packets) <= Bytes8 => ReceiverUnderstands)
  <1>1. ASSUME IInv, Len(packets) <= Bytes8, packets # <<>> PROVE ReceiverUnderstands
    <2>1. Len(packets) \in 1 .. Len(packets)
      BY <1>1, SenderLengths, EmptySeq DEF IInv, SenderInv, SenderType
    <2> QED
      BY <1>1, <2>1, PacketUnderstood DEF ReceiverUnderstands, Read, Meant
  <1>2. IInv => (Len(packets) <= Bytes8 => ReceiverUnderstands)
    BY <1>1 DEF ReceiverUnderstands
  <1> QED
    BY <1>2, IInvHolds, PTL

\* A receiver that has the packet after the one it misses has all of it: under the number
\* it waits for, the very bytes it would have played.
LostRecovered ==
    \A i \in 1 .. Len(packets) : i + 1 \in 1 .. Len(packets) =>
        /\ Read(packets[i + 1]).fecSequence = Read(packets[i]).sequence
        /\ Read(packets[i + 1]).fec = Read(packets[i]).primary

\* From the buffers of send_pcm_udp to what parsePacket returns, the copy in a packet
\* stands for the packet before it: a lost packet can be made up for from the next.
THEOREM LostRecoveredHolds ==
    ASSUME MaxFrames * Channels * SampleBytes < Bytes2
    PROVE  Spec => [](Len(packets) <= Bytes8 => LostRecovered)
  <1>1. ASSUME IInv, Len(packets) <= Bytes8, NEW i \in 1 .. Len(packets),
               i + 1 \in 1 .. Len(packets)
        PROVE  /\ Read(packets[i + 1]).fecSequence = Read(packets[i]).sequence
               /\ Read(packets[i + 1]).fec = Read(packets[i]).primary
    <2>1. Read(packets[i]) = Meant(packets[i]) /\ Read(packets[i + 1]) = Meant(packets[i + 1])
      BY <1>1, PacketUnderstood
    <2>2. /\ packets[i].sequence = i - 1
          /\ packets[i + 1].fec = [sequence |-> i - 1, payload |-> packets[i].payload]
      <3>1. i + 1 # 1 /\ (i + 1) - 1 = i /\ (i + 1) - 2 = i - 1
        OBVIOUS
      <3>2. packets[i].sequence = i - 1
        BY <1>1 DEF IInv, SenderInv, Chained
      <3>3. packets[i + 1].fec =
                [sequence |-> (i + 1) - 2, payload |-> packets[(i + 1) - 1].payload]
        BY <1>1, <3>1 DEF IInv, SenderInv, Chained
      <3> QED
        BY <3>1, <3>2, <3>3
    <2> QED
      BY <2>1, <2>2 DEF Meant
  <1>2. IInv => (Len(packets) <= Bytes8 => LostRecovered)
    BY <1>1 DEF LostRecovered
  <1> QED
    BY <1>2, IInvHolds, PTL
=============================================================================
