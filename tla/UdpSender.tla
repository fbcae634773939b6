----------------------------- MODULE UdpSender -----------------------------
(***************************************************************************)
(* What becomes of the audio of one session on its way through the server,   *)
(* audio_capture.rs: CaptureProcessor brings what WASAPI captures to the     *)
(* rate of the stream and pushes it into the queue in chunks of any length;  *)
(* send_pcm_udp cuts the chunks into packets, each with a copy of the one    *)
(* before it.                                                              *)
(*                                                                         *)
(* A source frame is its number, and a frame of the stream carries the       *)
(* number of the source frame it is computed from.  Sample formats, channel  *)
(* mixing and interpolation are left out.  How the threads wait for each     *)
(* other, and how they end, is in PcmPipe.                                 *)
(***************************************************************************)
EXTENDS UdpPacket, FiniteSetsExt

CONSTANTS
    SourceRate,   \* sample rate of an output device that is not SampleRate
    Capacity,     \* PCM_QUEUE_CAPACITY
    Multiplier,   \* UDP_PACKET_SEND_MULTIPLIER
    MaxSource,    \* bound: source frames captured
    MaxRestarts   \* bound: device changes

ASSUME SenderAssumption ==
    /\ SourceRate \in Nat \ {0} /\ SourceRate # SampleRate
    /\ Capacity \in Nat \ {0} /\ Multiplier \in Nat
    /\ MaxSource \in Nat /\ MaxRestarts \in Nat

VARIABLES
    processor,      \* CaptureProcessor.resampler: "none" needed, "fft", or "linear" for want of one
    unresampled,    \* StreamResampler.pending
    source,         \* number of the last source frame captured
    restarts,       \* device changes so far
    interpolated,   \* history: frames have been resampled for want of a resampler
    fellBack,       \* history: resampling has failed in the middle of a stream
    lost,           \* history: audio was given up, by a full queue or a change of device
    refused,        \* push_latest_pcm: the chunk a full queue has handed back, if any
    queue,          \* PcmPipe.queue, of chunks
    producerAlive,  \* PcmPipe.producer_alive
    sender,         \* send_pcm_udp: where it is
    pending,        \* pending: frames not yet sent
    carried,        \* FrameSizer.carried_samples
    sequence, timestamp,
    previousFec,
    taken,          \* history: the frames taken from the queue
    packets         \* history: the packets sent, each with the number of its copies

captureVars == <<processor, unresampled, source, restarts, interpolated, fellBack, lost, refused>>
senderVars == <<sender, pending, carried, sequence, timestamp, previousFec, taken, packets>>
vars == <<captureVars, queue, producerAlive, senderVars>>

Processors == {"none", "fft", "linear"}

Init ==
    /\ processor \in Processors /\ unresampled = <<>>
    /\ source = 0 /\ restarts = 0 /\ interpolated = FALSE /\ fellBack = FALSE /\ lost = FALSE
    /\ refused = <<>> /\ queue = <<>> /\ producerAlive = TRUE
    /\ sender = "bind"
    /\ pending = <<>> /\ carried = 0
    /\ sequence = 0 /\ timestamp = 0 /\ previousFec = NoFec
    /\ taken = <<>> /\ packets = <<>>

-----------------------------------------------------------------------------
(* Capture                                                                  *)

\* What n of the stream's frames are computed from.
Resampled(frames) ==
    [k \in 1 .. (Len(frames) * SampleRate) \div SourceRate |->
        frames[((k - 1) * SourceRate) \div SampleRate + 1]]

\* resample_linear: too little to interpolate is passed on as it is.
Linear(frames) == IF Len(frames) < 2 THEN frames ELSE Resampled(frames)

\* input_frames_next of the external resampler: the length of a packet,
\* rounded up to what gives a whole number of output frames.
InputFrames ==
    LET whole == {n \in 1 .. SourceRate * MaxFrames :
                    n >= MaxFrames /\ (n * SampleRate) % SourceRate = 0}
    IN Min(whole)

\* push_latest_pcm: a full queue hands the chunk back.
PushLatest(chunk) ==
    /\ IF Len(queue) < Capacity THEN queue' = Append(queue, chunk) /\ UNCHANGED refused
                               ELSE refused' = <<chunk>> /\ UNCHANGED queue
    /\ UNCHANGED lost

\* Mutant of ResampleWhole: what is left over is the end of the new frames only.
ResampleWholeForgets(frames) ==
    LET input  == unresampled \o frames
        blocks == (Len(input) \div InputFrames) * InputFrames
    IN /\ unresampled' = SubSeq(input, Len(unresampled) + 1, Len(input))
       /\ PushLatest(Resampled(SubSeq(input, 1, blocks)))

\* Mutant of ResampleWhole: one block for each call.
ResampleOne(frames) ==
    LET input == unresampled \o frames
        block == IF Len(input) < InputFrames THEN 0 ELSE InputFrames
    IN /\ unresampled' = SubSeq(input, block + 1, Len(input))
       /\ PushLatest(Resampled(SubSeq(input, 1, block)))

\* StreamResampler.process: whole blocks; the rest waits for the next call.
\* The chunk is pushed even when it is empty.
ResampleWhole(frames) ==
    LET input  == unresampled \o frames
        blocks == (Len(input) \div InputFrames) * InputFrames
    IN /\ unresampled' = SubSeq(input, blocks + 1, Len(input))
       /\ PushLatest(Resampled(SubSeq(input, 1, blocks)))

\* process fails at one of its blocks: what it produced is lost, the frames
\* of this call are resampled linearly, and those it had not come to stay.
ResampleFails(frames) ==
    LET input == unresampled \o frames
    IN \E block \in 1 .. Len(input) \div InputFrames :
          /\ unresampled' = SubSeq(input, block * InputFrames + 1, Len(input))
          /\ PushLatest(Linear(frames))

\* send_wasapi_bytes and send_silence, of n source frames.
Capture(n) ==
    /\ producerAlive /\ refused = <<>> /\ source + n <= MaxSource
    /\ source' = source + n
    /\ LET frames == [i \in 1 .. n |-> source + i]
       IN \/ /\ processor = "none" /\ PushLatest(frames)
             /\ UNCHANGED <<unresampled, interpolated, fellBack>>
          \/ /\ processor = "linear" /\ PushLatest(Linear(frames)) /\ interpolated' = TRUE
             /\ UNCHANGED <<unresampled, fellBack>>
          \/ processor = "fft" /\ ResampleWhole(frames) /\ UNCHANGED <<interpolated, fellBack>>
          \/ /\ processor = "fft" /\ ResampleFails(frames) /\ fellBack' = TRUE
             /\ UNCHANGED interpolated
    /\ UNCHANGED <<processor, restarts, producerAlive, senderVars>>

\* The oldest chunk, of those the sender has left, is given up; nobody else fills
\* the queue, so the next push finds room.
DropOldest ==
    /\ refused # <<>>
    /\ queue' = (IF queue = <<>> THEN <<>> ELSE Tail(queue)) \o refused
    /\ lost' = (lost \/ queue # <<>>)
    /\ refused' = <<>>
    /\ UNCHANGED <<processor, unresampled, source, restarts, interpolated, fellBack,
                   producerAlive, senderVars>>

\* A capture on another device starts with a processor of its own.
Restart ==
    /\ producerAlive /\ refused = <<>> /\ restarts < MaxRestarts
    /\ restarts' = restarts + 1
    /\ processor' \in Processors /\ unresampled' = <<>>
    /\ lost' = (lost \/ unresampled # <<>>)
    /\ UNCHANGED <<source, interpolated, fellBack, refused, queue, producerAlive, senderVars>>

ProducerEnds ==
    /\ producerAlive /\ refused = <<>> /\ producerAlive' = FALSE
    /\ UNCHANGED <<captureVars, queue, senderVars>>

-----------------------------------------------------------------------------
(* The sender                                                               *)

Bind ==
    /\ sender = "bind"
    /\ sender' \in {"receive", "failed"}
    /\ UNCHANGED <<captureVars, queue, producerAlive, pending, carried, sequence, timestamp,
                   previousFec, taken, packets>>

\* recv_pcm_wait returns a chunk.
TakeChunk ==
    /\ sender = "receive" /\ queue # <<>>
    /\ queue' = Tail(queue)
    /\ pending' = pending \o Head(queue)
    /\ taken' = taken \o Head(queue)
    /\ sender' = "cut"
    /\ UNCHANGED <<captureVars, producerAlive, carried, sequence, timestamp, previousFec, packets>>

\* recv_pcm_wait returns None; frames too few for a packet are never sent.
NoMoreChunks ==
    /\ sender = "receive" /\ queue = <<>> /\ ~producerAlive
    /\ sender' = "ended"
    /\ UNCHANGED <<captureVars, queue, producerAlive, pending, carried, sequence, timestamp,
                   previousFec, taken, packets>>

\* FrameSizer.next_frame_samples; carried changes with every call.
FrameSize == (SampleRate * FrameMs + carried) \div 1000

NextCarried == (SampleRate * FrameMs + carried) % 1000

Copies == IF Multiplier = 0 THEN 1 ELSE Multiplier

TooFew ==
    /\ sender = "cut" /\ Len(pending) < FrameSize
    /\ carried' = NextCarried
    /\ sender' = "receive"
    /\ UNCHANGED <<captureVars, queue, producerAlive, pending, sequence, timestamp, previousFec,
                   taken, packets>>

\* Mutant of RestOf: an off-by-one in consume_prefix.
RestOfDropsOne(frames, count) == SubSeq(frames, count + 2, Len(frames))

\* consume_prefix
RestOf(frames, count) == SubSeq(frames, count + 1, Len(frames))

Packet(copies) ==
    [sequence |-> sequence, timestamp |-> timestamp, payload |-> SubSeq(pending, 1, FrameSize),
     fec |-> previousFec, copies |-> copies]

\* Mutant of KeepForFec: under the number of the packet that will carry it.
KeepForFecNext == previousFec' = [sequence |-> sequence + 1, payload |-> SubSeq(pending, 1, FrameSize)]

\* encode_pcm_s16le_stereo_fec and the sequence it belongs to.
KeepForFec == previousFec' = [sequence |-> sequence, payload |-> SubSeq(pending, 1, FrameSize)]

Advance == sequence' = sequence + 1 /\ timestamp' = timestamp + FrameSize

SendFrame ==
    /\ sender = "cut" /\ Len(pending) >= FrameSize
    /\ packets' = Append(packets, Packet(Copies))
    /\ pending' = RestOf(pending, FrameSize)
    /\ KeepForFec
    /\ Advance
    /\ carried' = NextCarried
    /\ UNCHANGED <<captureVars, queue, producerAlive, sender, taken>>

\* A send fails, after fewer copies; the thread ends there.
SendFails ==
    /\ sender = "cut" /\ Len(pending) >= FrameSize
    /\ \E copies \in 0 .. Copies - 1 :
          packets' = IF copies = 0 THEN packets ELSE Append(packets, Packet(copies))
    /\ sender' = "failed"
    /\ carried' = NextCarried
    /\ UNCHANGED <<captureVars, queue, producerAlive, pending, sequence, timestamp, previousFec, taken>>

Next ==
    \/ \E n \in 1 .. MaxSource : Capture(n)
    \/ DropOldest \/ Restart \/ ProducerEnds
    \/ Bind \/ TakeChunk \/ NoMoreChunks \/ TooFew \/ SendFrame \/ SendFails

Spec == Init /\ [][Next]_vars

-----------------------------------------------------------------------------
(* Properties                                                               *)

Frames == Seq(1 .. MaxSource)

\* The state has its type: among others, the queue never exceeds its capacity, and a
\* packet never exceeds the size its buffers have.
TypeOK ==
    /\ processor \in Processors /\ unresampled \in Frames
    /\ source \in 0 .. MaxSource /\ restarts \in 0 .. MaxRestarts
    /\ interpolated \in BOOLEAN /\ fellBack \in BOOLEAN /\ lost \in BOOLEAN
    /\ producerAlive \in BOOLEAN
    /\ queue \in Seq(Frames) /\ Len(queue) <= Capacity
    /\ refused \in Seq(Frames) /\ Len(refused) <= 1
    /\ sender \in {"bind", "receive", "cut", "ended", "failed"}
    /\ pending \in Frames /\ taken \in Frames
    /\ carried \in 0 .. 999 /\ sequence \in Nat /\ timestamp \in Nat
    /\ Len(previousFec.payload) <= MaxFrames
    /\ \A i \in 1 .. Len(packets) : Len(packets[i].payload) \in 1 .. MaxFrames

\* Where the audio of a packet ends in the stream, and where that of the last one does.
EndOf(p) == p.timestamp + Len(p.payload)
SentUpTo == IF packets = <<>> THEN 0 ELSE EndOf(packets[Len(packets)])

\* Whatever the lengths of the chunks and of the packets, what has been sent and
\* what waits is what was taken from the queue, once and in its order: a packet carries
\* the audio its timestamp says, and what waits begins where the last packet ended.  This
\* is the loop of send_pcm_udp with consume_prefix.
StreamIntact ==
    /\ \A i \in 1 .. Len(packets) :
        /\ packets[i].timestamp = IF i = 1 THEN 0 ELSE EndOf(packets[i - 1])
        /\ packets[i].payload = SubSeq(taken, packets[i].timestamp + 1, EndOf(packets[i]))
    /\ pending = SubSeq(taken, timestamp + 1, Len(taken))
    /\ sender # "failed" => timestamp = SentUpTo

\* What the receiver takes for granted of one packet after the other: they are numbered
\* without a gap, and every packet but the first carries exactly the audio of its
\* predecessor, under its number.  Only the last packet of a failed sender may lack copies.
PacketsChained ==
    /\ TypeOK
    /\ \A i \in 1 .. Len(packets) :
        /\ packets[i].sequence = i - 1
        /\ packets[i].fec =
               IF i = 1 THEN NoFec ELSE [sequence |-> i - 2, payload |-> packets[i - 1].payload]
        /\ packets[i].copies = Copies \/ (i = Len(packets) /\ sender = "failed")

\* The receiver reads from a packet's bytes, in a buffer of its own size, what the sender
\* meant: no packet is refused or cut off, and lengths, offsets and sequences agree.
ReceiverUnderstands ==
    packets # <<>> =>
        LET p == packets[Len(packets)]
        IN Parse(Received(Datagram(p))) =
               [sequence |-> p.sequence, primary |-> PcmBytes(p.payload),
                fecSequence |-> p.fec.sequence, fec |-> PcmBytes(p.fec.payload)]

\* The audio on its way, piece by piece: what was taken, what is queued or about to
\* be, what waits.
Line == queue \o refused
Pieces == <<taken>> \o Line \o <<unresampled>>

NonDecreasing(s) == \A k, l \in 1 .. Len(s) : k <= l => s[k] <= s[l]
NotAfter(s, t) == \A k \in 1 .. Len(s), l \in 1 .. Len(t) : s[k] <= t[l]
Heard(n) == \E i \in 1 .. Len(Pieces) : \E k \in 1 .. Len(Pieces[i]) : Pieces[i][k] = n

\* Audio leaves in the order of its capture, across chunks, resampling, a full queue
\* and a change of device; and all of it, when neither of the last two took any.  (An
\* interpolated frame has the number of the first of the two it is computed from.)
\* Only a resampling that fails midway, StreamResampler.process, repeats and loses audio.
CapturedOrder ==
    ~fellBack =>
        /\ \A i \in 1 .. Len(Pieces) : NonDecreasing(Pieces[i])
        /\ \A i, j \in 1 .. Len(Pieces) : i < j => NotAfter(Pieces[i], Pieces[j])
        /\ ~lost /\ SourceRate <= SampleRate
           => \A n \in 1 .. source : Heard(n) \/ (interpolated /\ Heard(n - 1))

\* A sender that waits has less than a packet to send, and a resampler less than a block
\* to resample: neither adds to the delay in the long run.
DelayBounded ==
    (sender = "receive" /\ ~fellBack) =>
        Len(pending) < MaxFrames /\ Len(unresampled) < InputFrames
=============================================================================
