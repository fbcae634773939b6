--------------------------- MODULE JitterBuffer ---------------------------
(***************************************************************************)
(* The jitter buffer of the Android client, class JitterBuffer of          *)
(* PcmAudioService.kt: a ring of MaxFrames slots, packet s living in slot   *)
(* s % MaxFrames.  Every method is @Synchronized, so every method is one    *)
(* atomic action.  The receiver thread calls put; the playback thread calls *)
(* take, fecFor and release, and writes the frame it holds to the           *)
(* AudioTrack between take/fecFor and release, OUTSIDE the lock: a frame    *)
(* handed out must not change under the writer.                            *)
(*                                                                         *)
(* This module gives the buffer its most general client: any packet may be  *)
(* put, any sequence may be asked for, by one consumer that asks only while *)
(* it holds nothing and releases only what it holds.  The methods do not     *)
(* test for that: it is what they need of their caller, said in JBNext.      *)
(* PlaybackStream composes the methods with the threads that really call     *)
(* them, and is checked to keep to it: it implements this Spec.             *)
(*                                                                         *)
(* Data: a payload is identified by the sequence of the packet that carries *)
(* it, so slot.sequence stands for sequence and data, slot.fecSequence for  *)
(* fecSequence and fecData.                                                *)
(***************************************************************************)
EXTENDS Integers, FiniteSets

CONSTANTS
    MaxFrames,    \* number of slots
    Seqs          \* sequence numbers packets and requests may carry

ASSUME MaxFramesAssumption == MaxFrames \in Nat \ {0}
ASSUME SeqsAssumption == Seqs \subseteq Nat

VARIABLES
    slots,           \* the ring: slot index -> JitterSlot
    bufferedFrames,  \* the counter the watermarks are computed from
    stopped,
    held             \* the JitterFrame the consumer has and has not released

jbVars == <<slots, bufferedFrames, stopped, held>>

Slots == 0 .. MaxFrames - 1
NoSeq == -1                    \* "var sequence: Long = -1" and "no FEC"

\* A packet as receivePcmPayload returns it: fits = its payload and FEC are
\* no longer than the arrays of a slot.
Packets == [sequence : Seqs, fecSequence : Seqs \cup {NoSeq}, fits : BOOLEAN]

JitterSlot == [sequence : Seqs \cup {NoSeq}, fecSequence : Seqs \cup {NoSeq},
               fecValid : BOOLEAN, valid : BOOLEAN, inUse : BOOLEAN]

EmptySlot == [sequence |-> NoSeq, fecSequence |-> NoSeq,
              fecValid |-> FALSE, valid |-> FALSE, inUse |-> FALSE]

\* The frame the consumer holds; slot NoSeq: none.  "sequence" is the
\* payload the consumer was promised, which only the properties read.
JitterFrame == [slot : Slots \cup {NoSeq}, sequence : Seqs \cup {NoSeq},
                fecOnly : BOOLEAN]
NoFrame == [slot |-> NoSeq, sequence |-> NoSeq, fecOnly |-> FALSE]
Holding == held.slot # NoSeq

SlotIndex(s) == s % MaxFrames

-----------------------------------------------------------------------------
(* Queries                                                                  *)

Contains(s) ==
    LET slot == slots[SlotIndex(s)]
    IN  slot.valid /\ ~slot.inUse /\ slot.sequence = s

HasFecAt(i, s) ==
    slots[i].valid /\ ~slots[i].inUse /\ slots[i].fecValid /\ slots[i].fecSequence = s

HasFec(s) == \E i \in Slots : HasFecAt(i, s)

Available == {slots[i].sequence : i \in {j \in Slots : slots[j].valid /\ ~slots[j].inUse}}

\* firstSequence(): the lowest sequence that can be taken, NoSeq for null.
FirstSequence ==
    IF Available = {} THEN NoSeq
    ELSE CHOOSE s \in Available : \A t \in Available : s <= t

-----------------------------------------------------------------------------
(* Operations                                                               *)

JBInit ==
    /\ slots = [i \in Slots |-> EmptySlot]
    /\ bufferedFrames = 0
    /\ stopped = FALSE
    /\ held = NoFrame

AcceptsStopped(p) ==
    p.fits /\ LET slot == slots[SlotIndex(p.sequence)]
              IN  ~(slot.valid /\ slot.sequence = p.sequence) /\ ~slot.inUse

\* The early returns of put: what makes it return true.
Accepts(p) ==
    /\ ~stopped
    /\ p.fits
    /\ LET slot == slots[SlotIndex(p.sequence)]
       IN  /\ ~(slot.valid /\ slot.sequence = p.sequence)
           /\ ~slot.inUse

Filled(slot, p) ==
    [slot EXCEPT !.sequence = p.sequence,
                 !.valid = TRUE,
                 !.fecValid = p.fecSequence # NoSeq,
                 !.fecSequence = IF p.fecSequence # NoSeq THEN p.fecSequence ELSE @]

\* Mutant of Put: the counter grows on an overwrite too.
PutCountsOverwrite(p) ==
    /\ Accepts(p)
    /\ slots' = [slots EXCEPT ![SlotIndex(p.sequence)] = Filled(@, p)]
    /\ bufferedFrames' = bufferedFrames + 1
    /\ UNCHANGED <<stopped, held>>

Put(p) ==
    LET i == SlotIndex(p.sequence)
    IN  /\ Accepts(p)
        /\ slots' = [slots EXCEPT ![i] = Filled(@, p)]
        /\ bufferedFrames' = IF slots[i].valid THEN bufferedFrames ELSE bufferedFrames + 1
        /\ UNCHANGED <<stopped, held>>

\* Mutant of Stale: dropBefore with <= for <.
StaleToo(s) == {i \in Slots : slots[i].valid /\ ~slots[i].inUse /\ slots[i].sequence <= s}

\* dropBefore(s), the first thing take does.
Stale(s) == {i \in Slots : slots[i].valid /\ ~slots[i].inUse /\ slots[i].sequence < s}

Dropped(s) == [i \in Slots |-> IF i \in Stale(s) THEN [slots[i] EXCEPT !.valid = FALSE]
                                                ELSE slots[i]]

\* take returns a frame if, after the drop, the slot of s is valid and holds s.
\* It does not look at inUse.
TakeFound(s) ==
    LET i == SlotIndex(s)
    IN  /\ Dropped(s)[i].valid /\ Dropped(s)[i].sequence = s
        /\ slots' = [Dropped(s) EXCEPT ![i].inUse = TRUE]
        /\ bufferedFrames' = bufferedFrames - Cardinality(Stale(s)) - 1
        /\ held' = [slot |-> i, sequence |-> s, fecOnly |-> FALSE]
        /\ UNCHANGED stopped

TakeMissing(s) ==
    LET i == SlotIndex(s)
    IN  /\ ~(Dropped(s)[i].valid /\ Dropped(s)[i].sequence = s)
        /\ slots' = Dropped(s)
        /\ bufferedFrames' = bufferedFrames - Cardinality(Stale(s))
        /\ UNCHANGED <<stopped, held>>

Take(s) == TakeFound(s) \/ TakeMissing(s)

\* fecFor(s), when it finds a slot: the first one in the array's order.
FecFor(s) ==
    /\ \E i \in Slots :
        /\ HasFecAt(i, s)
        /\ \A j \in 0 .. i - 1 : ~HasFecAt(j, s)
        /\ slots' = [slots EXCEPT ![i].inUse = TRUE]
        /\ held' = [slot |-> i, sequence |-> s, fecOnly |-> TRUE]
    /\ UNCHANGED <<bufferedFrames, stopped>>

\* Mutant of Release: the FEC case forgets inUse.
ReleaseLeaksInUse ==
    /\ slots' = [slots EXCEPT ![held.slot] =
                    IF held.fecOnly THEN @
                    ELSE [@ EXCEPT !.inUse = FALSE, !.valid = FALSE, !.fecValid = FALSE]]
    /\ held' = NoFrame
    /\ UNCHANGED <<bufferedFrames, stopped>>

\* release(frame): the frame is the one the caller was given last.
Release ==
    /\ slots' = [slots EXCEPT ![held.slot] =
                    IF held.fecOnly
                    THEN [@ EXCEPT !.inUse = FALSE]
                    ELSE [@ EXCEPT !.inUse = FALSE, !.valid = FALSE, !.fecValid = FALSE]]
    /\ held' = NoFrame
    /\ UNCHANGED <<bufferedFrames, stopped>>

\* stop(): by the receiver thread when it ends and by playStartedStream's
\* finally; clears inUse even of the frame being written.
Stop ==
    /\ stopped' = TRUE
    /\ slots' = [i \in Slots |-> [slots[i] EXCEPT !.valid = FALSE, !.inUse = FALSE]]
    /\ bufferedFrames' = 0
    /\ UNCHANGED held

JBNext ==
    \/ \E p \in Packets : Put(p)
    \/ \E s \in Seqs : ~Holding /\ Take(s)
    \/ \E s \in Seqs : ~Holding /\ FecFor(s)
    \/ Holding /\ Release
    \/ Stop

JBSpec == JBInit /\ [][JBNext]_jbVars

-----------------------------------------------------------------------------
(* Properties                                                               *)

\* Type invariant of the buffer's fields.
TypeOK ==
    /\ slots \in [Slots -> JitterSlot]
    /\ bufferedFrames \in Int
    /\ stopped \in BOOLEAN
    /\ held \in JitterFrame

\* Slots whose packet is still counted: valid, and not taken for playback.
\* (A slot held for its FEC copy only is still counted.)
TakenAt(i) == Holding /\ ~held.fecOnly /\ held.slot = i
Counted == {i \in Slots : slots[i].valid /\ ~TakenAt(i)}

\* bufferedFrames, kept by increments and decrements in five methods, is the
\* number of packets waiting: the watermark that starts playback, the packet
\* timeout and the auto buffer all read it.
CountExact == bufferedFrames = Cardinality(Counted)

\* The frame being written to the AudioTrack outside the lock is not
\* overwritten by a packet that lands in the same slot, nor dropped by
\* dropBefore: its bytes stay those of the sequence it was taken for.
HeldIntact ==
    Holding =>
        LET slot == slots[held.slot]
        IN  /\ IF held.fecOnly THEN slot.fecSequence = held.sequence
                               ELSE slot.sequence = held.sequence
            /\ ~stopped => slot.inUse /\ slot.valid /\ (held.fecOnly => slot.fecValid)

\* Only the held slot is marked in use.
OnlyHeldInUse == \A i \in Slots : slots[i].inUse => held.slot = i

\* The mark of take and fecFor protects what it should, and nothing else: no frame
\* changes while it is played, and no leaked mark blocks a slot of the ring for
\* the rest of the session.
MarkRight == HeldIntact /\ OnlyHeldInUse

\* Once stopped, nothing is buffered and nothing can be: the playback thread
\* cannot take a frame of a dead session.
StoppedEmpty == stopped => bufferedFrames = 0 /\ \A i \in Slots : ~slots[i].valid
=============================================================================
