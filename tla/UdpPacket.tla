----------------------------- MODULE UdpPacket -----------------------------
(***************************************************************************)
(* The bytes of one UDP audio packet: how the server lays out header, PCM    *)
(* and FEC copy, audio_capture.rs and audio_protocol.rs, and how the Android *)
(* receiver takes them apart, PcmAudioService.kt.  The two sides share no    *)
(* code: offsets and widths are written down twice.                        *)
(*                                                                         *)
(* An audio frame here is what one capture instant gives, one sample for     *)
(* each channel; its value is one number, the same on every channel.        *)
(***************************************************************************)
EXTENDS Naturals, Sequences

CONSTANTS
    SampleRate,   \* SAMPLE_RATE
    FrameMs,      \* FRAME_MS
    Channels      \* CHANNELS

ASSUME FormatAssumption == SampleRate \in Nat /\ FrameMs \in Nat /\ Channels \in Nat \ {0}
ASSUME PacketAssumption == SampleRate * FrameMs >= 1000

\* Audio frames in the longest packet, rounded up.
MaxFrames == (SampleRate * FrameMs + 999) \div 1000

Magic == <<76, 65, 80, 49>>   \* "LAP1"
Version == 1
HeaderBytes == 48
CodecNone == 0
CodecPcm == 1
SampleBytes == 2

NoFec == [sequence |-> 0, payload |-> <<>>]

-----------------------------------------------------------------------------
(* The server writes                                                        *)

LittleEndian(n, width) ==
    LET rest[i \in 0 .. width] == IF i = 0 THEN n ELSE rest[i - 1] \div 256
    IN [i \in 1 .. width |-> rest[i - 1] % 256]

\* pcm_i16_to_le: the bytes of one sample after the other.
PcmBytes(payload) ==
    [b \in 1 .. Len(payload) * Channels * SampleBytes |->
        LittleEndian(payload[((b - 1) \div (Channels * SampleBytes)) + 1], SampleBytes)
            [((b - 1) % SampleBytes) + 1]]

\* Mutant of Header: the length of the PCM in samples.
HeaderInSamples(sequence, timestamp, payload, fec) ==
    Magic \o <<Version, HeaderBytes>> \o LittleEndian(0, 2)
    \o LittleEndian(sequence, 8) \o LittleEndian(timestamp, 8) \o LittleEndian(0, 8)
    \o LittleEndian(Len(payload) * Channels, 4)
    \o LittleEndian(fec.sequence, 8)
    \o <<IF fec = NoFec THEN CodecNone ELSE CodecPcm, 0>>
    \o LittleEndian(Len(PcmBytes(fec.payload)), 2)

\* The time of sending, the third group of eight, is filled in for each copy
\* and read by nobody.
Header(sequence, timestamp, payload, fec) ==
    Magic \o <<Version, HeaderBytes>> \o LittleEndian(0, 2)
    \o LittleEndian(sequence, 8) \o LittleEndian(timestamp, 8) \o LittleEndian(0, 8)
    \o LittleEndian(Len(payload) * Channels * SampleBytes, 4)
    \o LittleEndian(fec.sequence, 8)
    \o <<IF fec = NoFec THEN CodecNone ELSE CodecPcm, 0>>
    \o LittleEndian(Len(PcmBytes(fec.payload)), 2)

Datagram(p) ==
    Header(p.sequence, p.timestamp, p.payload, p.fec) \o PcmBytes(p.payload) \o PcmBytes(p.fec.payload)

-----------------------------------------------------------------------------
(* The receiver reads                                                       *)

Null == [sequence |-> 0, primary |-> <<>>, fecSequence |-> 0, fec |-> <<>>]

\* The offsets are the receiver's, from 0.
Unsigned(data, offset, width) ==
    LET value[i \in 1 .. width + 1] ==
            IF i = width + 1 THEN 0 ELSE data[offset + i] + 256 * value[i + 1]
    IN value[1]

\* What DatagramSocket.receive leaves in a buffer for one packet with FEC.
ReceiveBuffer == HeaderBytes + 2 * MaxFrames * Channels * SampleBytes
Received(datagram) ==
    SubSeq(datagram, 1, IF Len(datagram) < ReceiveBuffer THEN Len(datagram) ELSE ReceiveBuffer)

\* Null stands for every packet the receiver refuses.
Parse(data) ==
    IF Len(data) <= HeaderBytes \/ SubSeq(data, 1, 4) # Magic \/ data[5] # Version THEN Null
    ELSE LET headerLength  == data[6]
             primaryLength == Unsigned(data, 32, 4)
             fecLength     == Unsigned(data, 46, 2)
             fecOffset     == headerLength + primaryLength
             hasFec        == data[45] = CodecPcm /\ fecLength > 0
         IN IF \/ headerLength < HeaderBytes \/ Len(data) <= headerLength \/ primaryLength <= 0
               \/ fecOffset > Len(data) \/ (hasFec /\ fecOffset + fecLength > Len(data))
            THEN Null
            ELSE [sequence    |-> Unsigned(data, 8, 8),
                  primary     |-> SubSeq(data, headerLength + 1, fecOffset),
                  fecSequence |-> Unsigned(data, 36, 8),
                  fec         |-> IF hasFec THEN SubSeq(data, fecOffset + 1, fecOffset + fecLength)
                                            ELSE <<>>]
=============================================================================
