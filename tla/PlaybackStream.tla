-------------------------- MODULE PlaybackStream --------------------------
(***************************************************************************)
(* One stream of the Android client: playStartedStream of                   *)
(* PcmAudioService.kt, from the START_UDP that was answered OK to its        *)
(* finally.  Two threads share the jitter buffer:                          *)
(*                                                                         *)
(*   receiver   receives UDP packets, drops duplicates, puts the rest       *)
(*   playback   fills to the watermark, then takes frame after frame in      *)
(*              sequence order, waits for a missing one, replaces it by the *)
(*              FEC copy the following packet carries, or counts it lost    *)
(*                                                                         *)
(* and the service's main thread may stop playback at any moment.           *)
(*                                                                         *)
(* The network is the set of packets 0..Last, packet s carrying the FEC copy *)
(* of s - 1: any of them may be received at any time, in any order, any      *)
(* number of times, or never.  A timed wait may end at any time.            *)
(*                                                                         *)
(* The auto buffer (AutoBufferController) may set the watermark to any       *)
(* positive member of Targets whenever a packet is accepted or lost.        *)
(***************************************************************************)
EXTENDS JitterBuffer

CONSTANTS
    Last,        \* the sender sends packets 0..Last
    Targets      \* watermarks, in frames: to start with, and to move to

ASSUME LastAssumption == Last \in Nat /\ 0 .. Last \subseteq Seqs
ASSUME TargetsAssumption == Targets # {} /\ Targets \subseteq 0 .. MaxFrames

VARIABLES
    running,          \* PcmAudioService.running
    socketOpen,       \* resources.receiver is not closed
    receiverRunning,
    receiverError,
    rpc, pkt,         \* receiver thread: where it is, the packet in hand
    ppc, waitFor,     \* playback thread: where it is, argument of waitForFrames
    expected,         \* expectedSequence, NoSeq for null
    target,           \* targetBufferFrames
    seen,             \* duplicateFilter
    played,           \* frames handed to the AudioTrack in whole
    cut,              \* frames of which writeFully wrote a part or nothing
    lost              \* frames counted as lost

threadVars == <<rpc, pkt, ppc, waitFor>>
serviceVars == <<running, socketOpen>>
streamVars == <<receiverRunning, receiverError, expected, target, seen, played, cut, lost>>
vars == <<jbVars, threadVars, serviceVars, streamVars>>

Packet(s) == [sequence |-> s, fecSequence |-> s - 1, fits |-> TRUE]

ReceiverDone == rpc = "done"
PlaybackDone == ppc = "done"

Init ==
    /\ JBInit
    /\ running = TRUE /\ socketOpen = TRUE
    /\ receiverRunning = TRUE /\ receiverError = FALSE
    /\ rpc = "loop" /\ pkt = NoSeq
    /\ ppc = "fill" /\ waitFor = 0
    /\ expected = NoSeq
    /\ target \in Targets
    /\ seen = {} /\ played = {} /\ cut = {} /\ lost = {}

-----------------------------------------------------------------------------
(* The receiver thread                                                      *)

RGoto(l) == rpc' = l /\ UNCHANGED <<ppc, waitFor>>

ReceiverLoop ==
    /\ rpc = "loop"
    /\ RGoto(IF running /\ receiverRunning THEN "receive" ELSE "stopping")
    /\ UNCHANGED <<jbVars, serviceVars, streamVars, pkt>>

ReceivePacket(s) ==
    /\ rpc = "receive" /\ socketOpen
    /\ pkt' = s
    /\ RGoto("filter")
    /\ UNCHANGED <<jbVars, serviceVars, streamVars>>

\* A datagram receivePcmPayload rejects.
ReceiveInvalid ==
    /\ rpc = "receive" /\ socketOpen
    /\ RGoto("loop")
    /\ UNCHANGED <<jbVars, serviceVars, streamVars, pkt>>

\* SocketTimeoutException: 3 s without a packet.
ReceiveTimeout ==
    /\ rpc = "receive" /\ socketOpen
    /\ receiverError' = (receiverError \/ (running /\ receiverRunning))
    /\ RGoto("stopping")
    /\ UNCHANGED <<jbVars, serviceVars, receiverRunning, expected, target, seen, played, cut, lost, pkt>>

\* Any other exception of receive, a closed socket's first of all.
ReceiveException ==
    /\ rpc = "receive" /\ ~socketOpen
    /\ RGoto(IF running /\ receiverRunning THEN "loop" ELSE "stopping")
    /\ UNCHANGED <<jbVars, serviceVars, streamVars, pkt>>

\* updateAutoBufferTarget, with autoBuffer on or off.
UpdateTarget == target' \in {target} \cup (Targets \ {0})

\* isDuplicate(sequence), and the auto buffer's update when it is not.  The
\* filter's HashSet is not synchronized: an insertion that overlaps the other
\* thread's markHandled may be lost.
FilterPacket ==
    /\ rpc = "filter"
    /\ IF pkt \in seen
       THEN RGoto("loop") /\ UNCHANGED <<seen, target>>
       ELSE /\ RGoto("put")
            /\ \/ seen' = seen \cup {pkt}
               \/ ppc = "mark" /\ seen' = seen
            /\ UpdateTarget
    /\ UNCHANGED <<jbVars, serviceVars, receiverRunning, receiverError, expected, played, cut, lost, pkt>>

PutPacket ==
    /\ rpc = "put"
    /\ \/ Put(Packet(pkt))
       \/ ~Accepts(Packet(pkt)) /\ UNCHANGED jbVars
    /\ pkt' = NoSeq
    /\ RGoto("loop")
    /\ UNCHANGED <<serviceVars, streamVars>>

\* Mutant of ReceiverStops: the receiver ends without stopping the buffer.
ReceiverStopsSilently ==
    /\ rpc = "stopping"
    /\ RGoto("done")
    /\ UNCHANGED <<jbVars, serviceVars, streamVars, pkt>>

ReceiverStops ==
    /\ rpc = "stopping"
    /\ Stop
    /\ RGoto("done")
    /\ UNCHANGED <<serviceVars, streamVars, pkt>>

Receiver ==
    \/ ReceiverLoop
    \/ \E s \in 0 .. Last : ReceivePacket(s)
    \/ ReceiveInvalid
    \/ ReceiveTimeout
    \/ ReceiveException
    \/ FilterPacket
    \/ PutPacket
    \/ ReceiverStops

-----------------------------------------------------------------------------
(* The playback thread                                                      *)

PGoto(l) == ppc' = l /\ UNCHANGED <<rpc, pkt>>

\* throwReceiverErrorIfNeeded, else go on.
ThrowOr(l) == PGoto(IF receiverError THEN "finally" ELSE l)

\* The head of the filling loop; with a watermark of 0 there is no loop, one
\* frame is awaited.
Fill ==
    /\ ppc = "fill"
    /\ IF target > 0 /\ ~running THEN PGoto("top") /\ UNCHANGED waitFor
       ELSE PGoto("fillWait") /\ waitFor' = IF target > 0 THEN target ELSE 1
    /\ UNCHANGED <<jbVars, serviceVars, streamVars>>

\* waitForFrames(waitFor), polled every 20 ms and notified by put and stop.
AwaitFrames ==
    /\ ppc \in {"fillWait", "idleWait"}
    /\ stopped \/ bufferedFrames >= waitFor
    /\ PGoto(IF ppc = "fillWait" THEN "fillCheck" ELSE "idleCheck")
    /\ UNCHANGED <<jbVars, serviceVars, streamVars, waitFor>>

FillCheck ==
    /\ ppc = "fillCheck"
    /\ ThrowOr(IF bufferedFrames >= target THEN "top" ELSE "fill")
    /\ UNCHANGED <<jbVars, serviceVars, streamVars, waitFor>>

\* The head of the play loop: firstSequence() ?: wait for one frame.
Top ==
    /\ ppc = "top"
    /\ IF ~running THEN PGoto("finally") /\ UNCHANGED <<expected, waitFor>>
       ELSE IF FirstSequence = NoSeq
       THEN ThrowOr("idleWait") /\ waitFor' = 1 /\ UNCHANGED expected
       ELSE /\ PGoto("take")
            /\ expected' = IF expected = NoSeq THEN FirstSequence ELSE expected
            /\ UNCHANGED waitFor
    /\ UNCHANGED <<jbVars, serviceVars, receiverRunning, receiverError, target, seen, played, cut, lost>>

IdleCheck ==
    /\ ppc = "idleCheck"
    /\ ThrowOr("top")
    /\ UNCHANGED <<jbVars, serviceVars, streamVars, waitFor>>

\* take(sequence), before and again after the wait for it.
TakeExpected ==
    /\ ppc \in {"take", "retake"}
    /\ \/ TakeFound(expected) /\ PGoto("check")
       \/ TakeMissing(expected) /\ PGoto(IF ppc = "take" THEN "await" ELSE "check")
    /\ UNCHANGED <<serviceVars, streamVars, waitFor>>

\* waitForSequenceOrFec(sequence, timeout): true if either is there when it
\* returns, false at the deadline or when the buffer was stopped.
AwaitSequence ==
    /\ ppc = "await"
    /\ PGoto(IF Contains(expected) \/ HasFec(expected) THEN "retake" ELSE "check")
    /\ UNCHANGED <<jbVars, serviceVars, streamVars, waitFor>>

Check ==
    /\ ppc = "check"
    /\ ThrowOr(IF Holding THEN "write" ELSE "fec")
    /\ UNCHANGED <<jbVars, serviceVars, streamVars, waitFor>>

TryFec ==
    /\ ppc = "fec"
    /\ \/ FecFor(expected) /\ PGoto("writeFec")
       \/ ~HasFec(expected) /\ UNCHANGED jbVars /\ PGoto("lost")
    /\ UNCHANGED <<serviceVars, streamVars, waitFor>>

\* Mutant of Missing: missingFrameCount without its comparison.
MissingUnchecked == IF FirstSequence # NoSeq THEN FirstSequence - expected ELSE 1

\* Neither the packet nor its FEC copy came in time: go on at the first
\* sequence available, or one further if that is not ahead.
Missing ==
    IF FirstSequence # NoSeq /\ FirstSequence > expected THEN FirstSequence - expected ELSE 1

\* Mutant of CountLost: the loss is counted, the expected sequence stays.
CountLostStays ==
    /\ ppc = "lost"
    /\ lost' = lost \cup (expected .. expected + Missing - 1)
    /\ UpdateTarget
    /\ PGoto("top")
    /\ UNCHANGED <<jbVars, serviceVars, receiverRunning, receiverError, expected, seen, played, cut, waitFor>>

CountLost ==
    /\ ppc = "lost"
    /\ lost' = lost \cup (expected .. expected + Missing - 1)
    /\ expected' = expected + Missing
    /\ UpdateTarget
    /\ PGoto("top")
    /\ UNCHANGED <<jbVars, serviceVars, receiverRunning, receiverError, seen, played, cut, waitFor>>

\* writeFully: what is written is what the arrays of the held slot contain
\* while the write runs, outside the lock.
HeldPayload == IF held.fecOnly THEN slots[held.slot].fecSequence ELSE slots[held.slot].sequence

Write ==
    /\ ppc \in {"write", "writeFec"}
    /\ played' = played \cup {HeldPayload}
    /\ PGoto(IF ppc = "write" THEN "release" ELSE "releaseFec")
    /\ UNCHANGED <<jbVars, serviceVars, receiverRunning, receiverError, expected, target, seen,
                   cut, lost, waitFor>>

\* writeFully stops short, at any point of the frame: running was cleared, or
\* track.write returned 0 or less.  It returns nothing, so its caller goes on as
\* after a whole frame.  A dead track may do so for every frame.
WriteCut ==
    /\ ppc \in {"write", "writeFec"}
    /\ cut' = cut \cup {HeldPayload}
    /\ PGoto(IF ppc = "write" THEN "release" ELSE "releaseFec")
    /\ UNCHANGED <<jbVars, serviceVars, receiverRunning, receiverError, expected, target, seen,
                   played, lost, waitFor>>

\* A write to a track that stopPlayback has released throws; the primary
\* frame is released on the way, the FEC frame is not.
WriteThrows ==
    /\ ppc \in {"write", "writeFec"} /\ ~socketOpen
    /\ IF ppc = "write" THEN Release ELSE UNCHANGED jbVars
    /\ PGoto("finally")
    /\ UNCHANGED <<serviceVars, streamVars, waitFor>>

ReleasePlayed ==
    /\ ppc = "release"
    /\ Release
    /\ expected' = expected + 1
    /\ PGoto("top")
    /\ UNCHANGED <<serviceVars, receiverRunning, receiverError, target, seen, played, cut, lost, waitFor>>

\* Mutant of ReleaseFec: the frame rebuilt from FEC is not given back.
ReleaseFecNot ==
    /\ ppc = "releaseFec"
    /\ PGoto("mark")
    /\ UNCHANGED <<jbVars, serviceVars, streamVars, waitFor>>

ReleaseFec ==
    /\ ppc = "releaseFec"
    /\ Release
    /\ PGoto("mark")
    /\ UNCHANGED <<serviceVars, streamVars, waitFor>>

\* duplicateFilter.markHandled(sequence), racing isDuplicate as above.
MarkHandled ==
    /\ ppc = "mark"
    /\ \/ seen' = seen \cup {expected}
       \/ rpc = "filter" /\ seen' = seen
    /\ expected' = expected + 1
    /\ PGoto("top")
    /\ UNCHANGED <<jbVars, serviceVars, receiverRunning, receiverError, target, played, cut, lost, waitFor>>

Finally ==
    /\ ppc = "finally"
    /\ receiverRunning' = FALSE
    /\ PGoto("finallyStop")
    /\ UNCHANGED <<jbVars, serviceVars, receiverError, expected, target, seen, played, cut, lost, waitFor>>

\* jitterBuffer.stop() and the close of the socket; the join of the receiver
\* gives up after 1 s, so it is no guard.
FinallyStop ==
    /\ ppc = "finallyStop"
    /\ Stop
    /\ socketOpen' = FALSE
    /\ PGoto("done")
    /\ UNCHANGED <<running, streamVars, waitFor>>

Playback ==
    \/ Fill \/ AwaitFrames \/ FillCheck
    \/ Top \/ IdleCheck
    \/ TakeExpected \/ AwaitSequence \/ Check
    \/ TryFec \/ CountLost
    \/ Write \/ WriteCut \/ WriteThrows
    \/ ReleasePlayed \/ ReleaseFec \/ MarkHandled
    \/ Finally \/ FinallyStop

-----------------------------------------------------------------------------
(* stopPlayback, on the service's main thread                               *)

StopRunning ==
    /\ running
    /\ running' = FALSE
    /\ UNCHANGED <<jbVars, threadVars, streamVars, socketOpen>>

CloseResources ==
    /\ ~running /\ socketOpen
    /\ socketOpen' = FALSE
    /\ UNCHANGED <<jbVars, threadVars, streamVars, running>>

StopPlayback == StopRunning \/ CloseResources

\* Nothing is left to do once both threads have ended.
Finished == ReceiverDone /\ PlaybackDone /\ UNCHANGED vars

Next == Receiver \/ Playback \/ StopPlayback \/ Finished

\* The threads run; a timed wait, and the 3 s of the socket, do expire; and
\* stopPlayback, once begun, goes on to close.  The user need not stop.
Fairness ==
    /\ WF_vars(Receiver)
    /\ WF_vars(Playback)
    /\ WF_vars(CloseResources)

Spec == Init /\ [][Next]_vars /\ Fairness

-----------------------------------------------------------------------------
(* Properties                                                               *)

\* The playback thread keeps to what the buffer's methods need and do not test: on
\* every path through the play loop, it asks for a frame only while it holds none,
\* and for a sequence only once it has one; and it releases no frame twice.  So
\* what holds of JitterBuffer's specification holds here.
ImplementsBuffer == JBSpec

\* A packet in the buffer whose turn is still to come, of which the slot still
\* holds it afterwards.
Ahead(i) ==
    /\ slots[i].valid /\ ~slots[i].inUse
    /\ expected # NoSeq /\ slots[i].sequence >= expected
Kept(i) == slots'[i].valid /\ slots'[i].sequence = slots[i].sequence

\* Whatever the playback thread asks for, skips, counts as lost or releases, it
\* never discards a packet whose turn is still to come: take's dropBefore runs
\* with a sequence that was read from the buffer, or moved on, several steps
\* earlier, while the receiver puts packets.  Such a packet stays until the stop,
\* unless the receiver puts another one into its slot: put does not compare the
\* two, and so a packet that is late by a whole ring takes the place of one that
\* is still to be played.
AheadIsKept ==
    [][~stopped' => \A i \in Slots :
            Ahead(i) => Kept(i) \/ (rpc = "put" /\ i = SlotIndex(pkt))]_vars

\* The sequence the playback has still to account for: a frame counts as played,
\* or cut, before its slot is released.
Cursor == IF ppc \in {"release", "releaseFec", "mark"} THEN expected + 1 ELSE expected

Abstract == INSTANCE Playout WITH
    cursor <- Cursor, ended <- ppc \in {"finally", "finallyStop", "done"}

\* Every sequence is handed to the track, in whole or cut short, or counted lost:
\* one of the three, once and in order, however packets are lost, repeated,
\* delayed and reordered and whoever stops when.
ImplementsPlayout == Abstract!Spec

\* Stopping playback, from any state of the two threads, ends both; and so does a
\* server that falls silent, for the playback thread learns of it wherever it waits.
StreamEnds == ~running \/ receiverError ~> ReceiverDone /\ PlaybackDone

\* Once playing, no packet waits in the buffer for ever: it is taken, or passed
\* over, or replaced, however the other packets fare.  The play loop has three
\* ways round (idle, lost, late packet) that all must make progress.
NeverStuck == \A s \in 0 .. Last : Contains(s) /\ ppc = "top" ~> ~Contains(s)
=============================================================================
