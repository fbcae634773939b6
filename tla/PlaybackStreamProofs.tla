------------------------ MODULE PlaybackStreamProofs -----------------------
(***************************************************************************)
(* Proofs about the jitter buffer and about the two threads that play one    *)
(* stream from it.                                                         *)
(*                                                                         *)
(* For every number of slots and every set of sequence numbers, what put,    *)
(* take, fecFor, release and stop keep true of the ring, whatever the order  *)
(* they are called in (JitterBuffer).  For any watermarks and any number of  *)
(* packets, the two threads call the buffer as its specification allows, and *)
(* implement the abstract playout (PlaybackStream): every sequence number is *)
(* played, cut short or counted as lost, exactly once; and no packet whose   *)
(* turn is still to come is discarded by the playback thread.  Sequence numbers are the        *)
(* natural numbers there: waits that time out move the expected sequence on  *)
(* without a bound.                                                        *)
(***************************************************************************)
EXTENDS PlaybackStream, FiniteSetTheorems, WellFoundedInduction, TLAPS

-----------------------------------------------------------------------------
(* The jitter buffer: its inductive invariant                               *)

\* The inductive invariant: CountExact needs HeldIntact (the slot of a frame
\* held for playback is in use, so put never counts it again), HeldIntact
\* needs OnlyHeldInUse and StoppedEmpty.
IInv ==
    /\ TypeOK
    /\ CountExact
    /\ HeldIntact
    /\ OnlyHeldInUse
    /\ StoppedEmpty

-----------------------------------------------------------------------------

\* The home slot of a packet is a slot of the ring.
LEMMA SlotIndexType == \A s \in Seqs : SlotIndex(s) \in Slots
  BY MaxFramesAssumption, SeqsAssumption DEF SlotIndex, Slots

\* The index that stands for "no slot" is not a slot.
LEMMA SlotNotNoSeq == NoSeq \notin Slots
  BY MaxFramesAssumption DEF NoSeq, Slots

\* Every set of slots is finite: counting them makes sense.
LEMMA SlotSetsFinite ==
    ASSUME NEW S \in SUBSET Slots
    PROVE  IsFiniteSet(S) /\ Cardinality(S) \in Nat
  <1>1. IsFiniteSet(Slots)
    BY FS_Interval, MaxFramesAssumption DEF Slots
  <1>2. IsFiniteSet(S)
    BY <1>1, FS_Subset
  <1> QED
    BY <1>2, FS_CardinalityType

\* An empty slot, and a slot filled by put, is a slot.
LEMMA FilledType ==
    ASSUME NEW slot \in JitterSlot, NEW p \in Packets
    PROVE  /\ Filled(slot, p) \in JitterSlot
           /\ Filled(slot, p).valid
           /\ Filled(slot, p).sequence = p.sequence
           /\ Filled(slot, p).inUse = slot.inUse
  BY DEF Filled, JitterSlot, Packets

-----------------------------------------------------------------------------

THEOREM InitIInv == JBInit => IInv
  <1> SUFFICES ASSUME JBInit PROVE IInv
    OBVIOUS
  <1>0. EmptySlot \in JitterSlot /\ NoFrame \in JitterFrame
    BY DEF EmptySlot, JitterSlot, JitterFrame, NoFrame, NoSeq
  <1>a. slots \in [Slots -> JitterSlot]
    BY <1>0 DEF JBInit
  <1>b. bufferedFrames \in Int
    BY DEF JBInit
  <1>c. stopped \in BOOLEAN
    BY DEF JBInit
  <1>d. held \in JitterFrame
    BY <1>0 DEF JBInit
  <1>1. TypeOK
    BY <1>a, <1>b, <1>c, <1>d DEF TypeOK
  <1>2. \A i \in Slots : ~slots[i].valid /\ ~slots[i].inUse
    BY DEF JBInit, EmptySlot
  <1>3. Counted = {}
    BY <1>2 DEF Counted
  <1>4. CountExact
    BY <1>3, FS_EmptySet DEF CountExact, JBInit
  <1> QED
    BY <1>1, <1>2, <1>4 DEF IInv, HeldIntact, OnlyHeldInUse, StoppedEmpty, JBInit, Holding, NoFrame

-----------------------------------------------------------------------------
(* One lemma per operation: it preserves the inductive invariant.           *)

LEMMA PutIInv ==
    ASSUME IInv, NEW p \in Packets, Put(p)
    PROVE  IInv'
  <1> DEFINE i == SlotIndex(p.sequence)
  <1> USE DEF IInv
  <1>1. i \in Slots
    BY SlotIndexType DEF Packets
  <1>2. /\ ~stopped /\ ~slots[i].inUse
        /\ slots' = [slots EXCEPT ![i] = Filled(slots[i], p)]
        /\ bufferedFrames' = IF slots[i].valid THEN bufferedFrames ELSE bufferedFrames + 1
        /\ stopped' = stopped /\ held' = held
    BY DEF Put, Accepts
  <1>3. Filled(slots[i], p) \in JitterSlot /\ Filled(slots[i], p).valid
        /\ Filled(slots[i], p).inUse = slots[i].inUse
    BY <1>1, FilledType DEF TypeOK
  <1>4. TypeOK'
    BY <1>1, <1>2, <1>3 DEF TypeOK
  <1>5. \A j \in Slots : slots'[j] = IF j = i THEN Filled(slots[i], p) ELSE slots[j]
    BY <1>1, <1>2 DEF TypeOK
  <1>6. held.slot # i
    BY <1>1, <1>2, SlotNotNoSeq DEF HeldIntact, Holding
  <1>7. HeldIntact'
    <2>1. Holding' <=> Holding
      BY <1>2 DEF Holding
    <2>2. Holding => held.slot \in Slots
      BY DEF Holding, TypeOK, JitterFrame
    <2> QED
      BY <2>1, <2>2, <1>2, <1>5, <1>6 DEF HeldIntact
  <1>8. Counted' = Counted \cup {i}
    BY <1>1, <1>2, <1>3, <1>5, <1>6 DEF Counted, TakenAt, Holding
  <1>9. i \in Counted <=> slots[i].valid
    BY <1>1, <1>6 DEF Counted, TakenAt
  <1>10. CountExact'
    <2>1. IsFiniteSet(Counted) /\ Cardinality(Counted) \in Nat
      BY SlotSetsFinite DEF Counted
    <2>2. Cardinality(Counted \cup {i})
            = IF i \in Counted THEN Cardinality(Counted) ELSE Cardinality(Counted) + 1
      BY <2>1, FS_AddElement
    <2> QED
      BY <1>2, <1>8, <1>9, <2>1, <2>2 DEF CountExact
  <1>11. OnlyHeldInUse'
    BY <1>2, <1>3, <1>5 DEF OnlyHeldInUse
  <1>12. StoppedEmpty'
    BY <1>2 DEF StoppedEmpty
  <1> QED
    BY <1>4, <1>7, <1>10, <1>11, <1>12

LEMMA TakeIInv ==
    ASSUME IInv, NEW s \in Seqs, ~Holding, Take(s)
    PROVE  IInv'
  <1> DEFINE i == SlotIndex(s)
  <1> USE DEF IInv
  <1>1. i \in Slots
    BY SlotIndexType
  <1>2. ~Holding /\ stopped' = stopped
    BY DEF Take, TakeFound, TakeMissing
  <1>3. Dropped(s) \in [Slots -> JitterSlot]
    <2>1. \A j \in Slots : [slots[j] EXCEPT !.valid = FALSE] \in JitterSlot
      BY DEF TypeOK, JitterSlot
    <2> QED
      BY <2>1 DEF Dropped, TypeOK
  <1>4. \A j \in Slots : /\ Dropped(s)[j].inUse = slots[j].inUse
                         /\ Dropped(s)[j].sequence = slots[j].sequence
                         /\ Dropped(s)[j].valid = (slots[j].valid /\ j \notin Stale(s))
    BY DEF Dropped, Stale, TypeOK, JitterSlot
  <1>5. IsFiniteSet(Counted) /\ Cardinality(Counted) \in Nat
        /\ IsFiniteSet(Stale(s)) /\ Cardinality(Stale(s)) \in Nat
    BY SlotSetsFinite DEF Counted, Stale
  <1>6. Stale(s) \subseteq Counted
    BY <1>2 DEF Stale, Counted, TakenAt
  <1>7. Cardinality(Counted \ Stale(s)) = Cardinality(Counted) - Cardinality(Stale(s))
        /\ IsFiniteSet(Counted \ Stale(s))
    <2>1. Counted \cap Stale(s) = Stale(s)
      BY <1>6
    <2> QED
      BY <2>1, <1>5, FS_Difference
  <1>8. CASE TakeFound(s)
    <2>0. /\ Dropped(s)[i].valid /\ Dropped(s)[i].sequence = s
          /\ slots' = [Dropped(s) EXCEPT ![i].inUse = TRUE]
          /\ bufferedFrames' = bufferedFrames - Cardinality(Stale(s)) - 1
          /\ held' = [slot |-> i, sequence |-> s, fecOnly |-> FALSE]
      BY <1>8 DEF TakeFound
    <2>1. /\ slots[i].valid /\ slots[i].sequence = s
          /\ slots' = [Dropped(s) EXCEPT ![i].inUse = TRUE]
          /\ bufferedFrames' = bufferedFrames - Cardinality(Stale(s)) - 1
          /\ held' = [slot |-> i, sequence |-> s, fecOnly |-> FALSE]
      BY <1>1, <1>4, <2>0
    <2>2. i \notin Stale(s)
      BY <1>1, <1>4, <2>0
    <2>3. \A j \in Slots : /\ slots'[j].sequence = slots[j].sequence
                           /\ slots'[j].valid = (slots[j].valid /\ j \notin Stale(s))
                           /\ slots'[j].inUse = IF j = i THEN TRUE ELSE slots[j].inUse
      <3>1. \A j \in Slots : slots'[j] = IF j = i THEN [Dropped(s)[j] EXCEPT !.inUse = TRUE]
                                                  ELSE Dropped(s)[j]
        BY <1>1, <1>3, <2>1
      <3>2. \A j \in Slots : /\ slots'[j].sequence = Dropped(s)[j].sequence
                             /\ slots'[j].valid = Dropped(s)[j].valid
                             /\ slots'[j].inUse = IF j = i THEN TRUE ELSE Dropped(s)[j].inUse
        BY <1>3, <3>1 DEF JitterSlot
      <3> QED
        BY <1>4, <3>2
    <2>4. Holding' /\ held'.slot = i /\ held'.sequence = s /\ ~held'.fecOnly
      BY <2>1, <1>1, SlotNotNoSeq DEF Holding
    <2>5. TypeOK'
      <3>1. slots' \in [Slots -> JitterSlot]
        <4>1. [Dropped(s)[i] EXCEPT !.inUse = TRUE] \in JitterSlot
          BY <1>1, <1>3 DEF JitterSlot
        <4> QED
          BY <1>1, <1>3, <2>1, <4>1
      <3>2. held' \in JitterFrame
        BY <1>1, <2>1 DEF JitterFrame
      <3>3. bufferedFrames' \in Int
        BY <2>1, <1>5 DEF TypeOK
      <3> QED
        BY <1>2, <3>1, <3>2, <3>3 DEF TypeOK
    <2>6. Counted' = (Counted \ Stale(s)) \ {i}
      BY <1>2, <2>3, <2>4 DEF Counted, TakenAt
    <2>7. i \in Counted \ Stale(s)
      BY <1>1, <1>2, <2>1, <2>2 DEF Counted, TakenAt
    <2>8. CountExact'
      <3>1. Cardinality((Counted \ Stale(s)) \ {i}) = Cardinality(Counted \ Stale(s)) - 1
        BY <1>7, <2>7, FS_RemoveElement
      <3> QED
        BY <2>1, <2>6, <3>1, <1>5, <1>7 DEF CountExact
    <2>9. HeldIntact'
      <3>1. slots'[i].sequence = s /\ slots'[i].inUse /\ slots'[i].valid
        BY <1>1, <2>1, <2>2, <2>3
      <3> QED
        BY <2>4, <3>1 DEF HeldIntact
    <2>10. OnlyHeldInUse'
      <3>1. \A j \in Slots : ~slots[j].inUse
        BY <1>2, SlotNotNoSeq DEF OnlyHeldInUse, Holding
      <3>2. \A j \in Slots : slots'[j].inUse => j = i
        BY <2>3, <3>1
      <3> QED
        BY <2>4, <3>2 DEF OnlyHeldInUse
    <2>11. StoppedEmpty'
      BY <1>1, <1>2, <2>1 DEF StoppedEmpty
    <2> QED
      BY <2>5, <2>8, <2>9, <2>10, <2>11
  <1>9. CASE TakeMissing(s)
    <2>1. /\ slots' = Dropped(s) /\ held' = held
          /\ bufferedFrames' = bufferedFrames - Cardinality(Stale(s))
      BY <1>9 DEF TakeMissing
    <2>2. TypeOK'
      BY <1>2, <1>3, <1>5, <2>1 DEF TypeOK
    <2>3. ~Holding'
      BY <1>2, <2>1 DEF Holding
    <2>4. Counted' = Counted \ Stale(s)
      BY <1>2, <1>4, <2>1, <2>3 DEF Counted, TakenAt
    <2>5. CountExact'
      BY <1>5, <1>7, <2>1, <2>4 DEF CountExact
    <2>6. HeldIntact'
      BY <2>3 DEF HeldIntact
    <2>7. OnlyHeldInUse'
      BY <1>4, <2>1 DEF OnlyHeldInUse
    <2>8. StoppedEmpty'
      <3>1. stopped => Counted = {} /\ Stale(s) = {}
        BY DEF StoppedEmpty, Counted, Stale
      <3>2. stopped => Counted' = {}
        BY <2>4, <3>1
      <3>3. stopped' => bufferedFrames' = 0
        BY <1>2, <2>5, <3>2, FS_EmptySet DEF CountExact
      <3> QED
        BY <1>2, <1>4, <2>1, <3>3 DEF StoppedEmpty
    <2> QED
      BY <2>2, <2>5, <2>6, <2>7, <2>8
  <1> QED
    BY <1>8, <1>9 DEF Take

LEMMA FecForIInv ==
    ASSUME IInv, NEW s \in Seqs, ~Holding, FecFor(s)
    PROVE  IInv'
  <1> USE DEF IInv
  <1>1. PICK i \in Slots : /\ HasFecAt(i, s)
                           /\ slots' = [slots EXCEPT ![i].inUse = TRUE]
                           /\ held' = [slot |-> i, sequence |-> s, fecOnly |-> TRUE]
    BY DEF FecFor
  <1>2. ~Holding /\ stopped' = stopped /\ bufferedFrames' = bufferedFrames
    BY DEF FecFor
  <1>3. /\ slots[i].valid /\ slots[i].fecValid /\ slots[i].fecSequence = s
    BY <1>1 DEF HasFecAt
  <1>4. \A j \in Slots : /\ slots'[j].valid = slots[j].valid
                         /\ slots'[j].fecValid = slots[j].fecValid
                         /\ slots'[j].fecSequence = slots[j].fecSequence
                         /\ slots'[j].inUse = IF j = i THEN TRUE ELSE slots[j].inUse
    BY <1>1 DEF TypeOK, JitterSlot
  <1>5. Holding' /\ held'.slot = i /\ held'.sequence = s /\ held'.fecOnly
    BY <1>1, SlotNotNoSeq DEF Holding
  <1>6. TypeOK'
    <2>1. slots' \in [Slots -> JitterSlot]
      BY <1>1 DEF TypeOK, JitterSlot
    <2>2. held' \in JitterFrame
      BY <1>1 DEF JitterFrame
    <2> QED
      BY <1>2, <2>1, <2>2 DEF TypeOK
  <1>7. Counted' = Counted
    BY <1>2, <1>4, <1>5 DEF Counted, TakenAt
  <1>8. HeldIntact'
    BY <1>3, <1>4, <1>5 DEF HeldIntact
  <1>9. OnlyHeldInUse'
    <2>1. \A j \in Slots : ~slots[j].inUse
      BY <1>2, SlotNotNoSeq DEF OnlyHeldInUse, Holding
    <2>2. \A j \in Slots : slots'[j].inUse => j = i
      BY <1>4, <2>1
    <2> QED
      BY <1>5, <2>2 DEF OnlyHeldInUse
  <1> QED
    BY <1>2, <1>4, <1>6, <1>7, <1>8, <1>9 DEF CountExact, StoppedEmpty

LEMMA ReleaseIInv ==
    ASSUME IInv, Holding, Release
    PROVE  IInv'
  <1> USE DEF IInv
  <1> DEFINE i == held.slot
  <1>1. i \in Slots
    BY DEF Release, Holding, TypeOK, JitterFrame
  <1>2. stopped' = stopped /\ bufferedFrames' = bufferedFrames /\ held' = NoFrame
    BY DEF Release
  <1>3. \A j \in Slots :
          /\ slots'[j].valid = (slots[j].valid /\ (j = i => held.fecOnly))
          /\ slots'[j].inUse = (slots[j].inUse /\ j # i)
    BY <1>1 DEF Release, TypeOK, JitterSlot
  <1>4. ~Holding'
    BY <1>2 DEF Holding, NoFrame
  <1>5. TypeOK'
    <2>1. slots' \in [Slots -> JitterSlot]
      <3>1. /\ [slots[i] EXCEPT !.inUse = FALSE] \in JitterSlot
            /\ [slots[i] EXCEPT !.inUse = FALSE, !.valid = FALSE, !.fecValid = FALSE]
                  \in JitterSlot
        BY <1>1 DEF TypeOK, JitterSlot
      <3> QED
        BY <1>1, <3>1 DEF Release, TypeOK
    <2>2. held' \in JitterFrame
      BY <1>2 DEF NoFrame, JitterFrame, NoSeq
    <2> QED
      BY <1>2, <2>1, <2>2 DEF TypeOK
  <1>6. Counted' = Counted
    BY <1>3, <1>4 DEF Counted, TakenAt, Release
  <1>7. OnlyHeldInUse'
    BY <1>3, <1>2 DEF OnlyHeldInUse
  <1> QED
    BY <1>2, <1>3, <1>4, <1>5, <1>6, <1>7 DEF CountExact, StoppedEmpty, HeldIntact

LEMMA StopIInv ==
    ASSUME IInv, Stop
    PROVE  IInv'
  <1> USE DEF IInv
  <1>1. stopped' /\ bufferedFrames' = 0 /\ held' = held
    BY DEF Stop
  <1>2. \A j \in Slots : /\ ~slots'[j].valid /\ ~slots'[j].inUse
                         /\ slots'[j].sequence = slots[j].sequence
                         /\ slots'[j].fecSequence = slots[j].fecSequence
    BY DEF Stop, TypeOK, JitterSlot
  <1>3. TypeOK'
    <2>1. \A j \in Slots : [slots[j] EXCEPT !.valid = FALSE, !.inUse = FALSE] \in JitterSlot
      BY DEF TypeOK, JitterSlot
    <2>2. slots' \in [Slots -> JitterSlot]
      BY <2>1 DEF Stop
    <2>3. stopped' \in BOOLEAN
      BY DEF Stop
    <2> QED
      BY <1>1, <2>2, <2>3 DEF TypeOK
  <1>4. Counted' = {}
    BY <1>2 DEF Counted
  <1>5. CountExact'
    BY <1>1, <1>4, FS_EmptySet DEF CountExact
  <1>6. HeldIntact'
    <2>1. Holding => held.slot \in Slots
      BY DEF Holding, TypeOK, JitterFrame
    <2> QED
      BY <1>1, <1>2, <2>1 DEF HeldIntact, Holding
  <1> QED
    BY <1>1, <1>2, <1>3, <1>5, <1>6 DEF OnlyHeldInUse, StoppedEmpty

-----------------------------------------------------------------------------

\* Every step of the buffer preserves the inductive invariant.
THEOREM NextIInv == IInv /\ [JBNext]_jbVars => IInv'
  <1> SUFFICES ASSUME IInv, [JBNext]_jbVars PROVE IInv'
    OBVIOUS
  <1>1. ASSUME NEW p \in Packets, Put(p) PROVE IInv'
    BY <1>1, PutIInv
  <1>2. ASSUME NEW s \in Seqs, ~Holding, Take(s) PROVE IInv'
    BY <1>2, TakeIInv
  <1>3. ASSUME NEW s \in Seqs, ~Holding, FecFor(s) PROVE IInv'
    BY <1>3, FecForIInv
  <1>4. CASE Holding /\ Release
    BY <1>4, ReleaseIInv
  <1>5. CASE Stop
    BY <1>5, StopIInv
  <1>6. CASE UNCHANGED jbVars
    BY <1>6 DEF jbVars, IInv, TypeOK, CountExact, Counted, TakenAt, HeldIntact, Holding,
                OnlyHeldInUse, StoppedEmpty
  <1> QED
    BY <1>1, <1>2, <1>3, <1>4, <1>5, <1>6 DEF JBNext

\* The inductive invariant holds throughout, for every ring size.
THEOREM IInvHolds == JBSpec => []IInv
  <1>1. JBInit => IInv
    BY InitIInv
  <1>2. IInv /\ [JBNext]_jbVars => IInv'
    BY NextIInv
  <1> QED
    BY <1>1, <1>2, PTL DEF JBSpec

\* The fields of the buffer keep their types.
THEOREM TypeCorrect == JBSpec => []TypeOK
  BY IInvHolds, PTL DEF IInv

\* The frame the playback thread writes outside the lock is never overwritten
\* nor dropped, and no slot stays marked in use after its frame is released.
THEOREM HeldFrameSafe == JBSpec => []MarkRight
  BY IInvHolds, PTL DEF IInv, MarkRight

\* The counter every watermark reads is the number of packets waiting.
THEOREM CounterExact == JBSpec => []CountExact
  BY IInvHolds, PTL DEF IInv

\* A stopped buffer stays empty: nothing of a dead session can be played.
THEOREM StoppedStaysEmpty == JBSpec => []StoppedEmpty
  BY IInvHolds, PTL DEF IInv

-----------------------------------------------------------------------------
(* The stream: its inductive invariant                                      *)

ReceiverPlaces == {"loop", "receive", "filter", "put", "stopping", "done"}

\* The playback thread between two sequences, on one, playing it, ended.
Between == {"fill", "fillWait", "fillCheck", "top", "idleWait", "idleCheck"}
Asking == {"take", "await", "retake", "check", "fec", "lost"}
Playing == {"write", "release", "writeFec", "releaseFec", "mark"}
Ended == {"finally", "finallyStop", "done"}

Places ==
    /\ rpc \in ReceiverPlaces
    /\ rpc \in {"filter", "put"} => pkt \in 0 .. Last
    /\ ppc \in Between \cup Asking \cup Playing \cup Ended

\* There is a sequence to ask for as soon as the play loop asks.
SequenceKnown ==
    /\ expected \in Nat \cup {NoSeq}
    /\ ppc \in Asking \cup Playing => expected \in Nat

\* What the thread holds is the frame of the expected sequence, and it asks for
\* another only when it holds none; what it releases it holds.
HeldIsExpected ==
    /\ ppc \in (Between \cup Asking \cup {"mark"}) \ {"check"} => ~Holding
    /\ ppc \in {"write", "writeFec", "release", "releaseFec"} => Holding
    /\ ppc \in Asking \cup Playing /\ Holding => held.sequence = expected

ValidNumbered == \A i \in Slots : slots[i].valid => slots[i].sequence \in Seqs

StreamInv == IInv /\ ValidNumbered /\ Places /\ SequenceKnown /\ HeldIsExpected

-----------------------------------------------------------------------------
(* The buffer's queries                                                     *)

\* A set of numbers has a least one.
LEMMA LeastNat ==
    ASSUME NEW T, T \subseteq Nat, T # {}
    PROVE  \E x \in T : \A y \in T : x <= y
  <1> DEFINE R == OpToRel(<, Nat)
  <1>1. PICK x \in T : \A y \in T : <<y, x>> \notin R
    <2>1. IsWellFoundedOn(R, Nat)
      BY NatLessThanWellFounded
    <2> HIDE DEF R
    <2> QED
      BY <2>1, WFMin
  <1>2. \A y \in T : ~(y < x)
    BY <1>1 DEF OpToRel
  <1> QED
    BY <1>2

\* firstSequence() is null or the number of a packet.
LEMMA FirstIsNumber ==
    ASSUME ValidNumbered
    PROVE  FirstSequence = NoSeq \/ FirstSequence \in Seqs
  <1>1. Available \subseteq Seqs
    BY DEF Available, ValidNumbered
  <1>2. CASE Available = {}
    BY <1>2 DEF FirstSequence
  <1>3. CASE Available # {}
    <2>1. \E s \in Available : \A t \in Available : s <= t
      BY <1>1, <1>3, LeastNat, SeqsAssumption
    <2>2. FirstSequence = CHOOSE s \in Available : \A t \in Available : s <= t
      BY <1>3 DEF FirstSequence
    <2> QED
      BY <1>1, <2>1, <2>2
  <1> QED
    BY <1>2, <1>3

\* What is valid has come in a packet.
LEMMA ValidNumberedKept ==
    ASSUME IInv, ValidNumbered, [JBNext]_jbVars
    PROVE  ValidNumbered'
  <1> USE DEF ValidNumbered
  <1>0. slots \in [Slots -> JitterSlot]
    BY DEF IInv, TypeOK
  <1>1. ASSUME NEW p \in Packets, Put(p) PROVE ValidNumbered'
    <2>1. p.sequence \in Seqs /\ SlotIndex(p.sequence) \in Slots
      BY SlotIndexType DEF Packets
    <2>2. \A i \in Slots :
             slots'[i] = IF i = SlotIndex(p.sequence) THEN Filled(slots[i], p) ELSE slots[i]
      BY <1>0, <1>1, <2>1 DEF Put
    <2>3. \A i \in Slots : Filled(slots[i], p).sequence = p.sequence
      BY <1>0, FilledType
    <2> QED
      BY <2>1, <2>2, <2>3
  <1>2. ASSUME NEW s \in Seqs, Take(s) PROVE ValidNumbered'
    <2>1. \A i \in Slots : /\ Dropped(s)[i].sequence = slots[i].sequence
                           /\ Dropped(s)[i].valid => slots[i].valid
      BY <1>0 DEF Dropped, JitterSlot
    <2>2. CASE TakeMissing(s)
      BY <2>1, <2>2 DEF TakeMissing
    <2>3. CASE TakeFound(s)
      <3>1. \A i \in Slots : /\ slots'[i].sequence = Dropped(s)[i].sequence
                             /\ slots'[i].valid = Dropped(s)[i].valid
        <4>1. Dropped(s) \in [Slots -> JitterSlot]
          BY <1>0 DEF Dropped, JitterSlot
        <4> QED
          BY <2>3, <4>1 DEF TakeFound, JitterSlot
      <3> QED
        BY <2>1, <3>1
    <2> QED
      BY <1>2, <2>2, <2>3 DEF Take
  <1>3. ASSUME NEW s \in Seqs, FecFor(s) PROVE ValidNumbered'
    <2>1. PICK i \in Slots : slots' = [slots EXCEPT ![i].inUse = TRUE]
      BY <1>3 DEF FecFor
    <2> QED
      BY <1>0, <2>1 DEF JitterSlot
  <1>4. CASE Release
    <2>1. \A i \in Slots : /\ slots'[i].sequence = slots[i].sequence
                           /\ slots'[i].valid => slots[i].valid
      BY <1>0, <1>4 DEF Release, JitterSlot
    <2> QED
      BY <2>1
  <1>5. CASE Stop
    BY <1>0, <1>5 DEF Stop, JitterSlot
  <1>6. CASE UNCHANGED jbVars
    BY <1>6 DEF jbVars
  <1> QED
    BY <1>1, <1>2, <1>3, <1>4, <1>5, <1>6 DEF JBNext

-----------------------------------------------------------------------------
(* The threads and the buffer                                               *)

\* The steps of the two threads that leave the buffer alone.
ReceiverAlone ==
    \/ ReceiverLoop \/ (\E s \in 0 .. Last : ReceivePacket(s)) \/ ReceiveInvalid
    \/ ReceiveTimeout \/ ReceiveException \/ FilterPacket
PlaybackAlone ==
    \/ Fill \/ AwaitFrames \/ FillCheck \/ Top \/ IdleCheck \/ AwaitSequence \/ Check
    \/ CountLost \/ Write \/ WriteCut \/ MarkHandled \/ Finally

LEMMA LeaveBufferAlone ==
    /\ ReceiverAlone => UNCHANGED jbVars
    /\ PlaybackAlone => UNCHANGED jbVars
    /\ StopPlayback => UNCHANGED jbVars
  <1>1. ReceiverAlone => UNCHANGED jbVars
    BY DEF ReceiverAlone, ReceiverLoop, ReceivePacket, ReceiveInvalid, ReceiveTimeout,
           ReceiveException, FilterPacket
  <1>2. PlaybackAlone => UNCHANGED jbVars
    BY DEF PlaybackAlone, Fill, AwaitFrames, FillCheck, Top, IdleCheck, AwaitSequence, Check,
           CountLost, Write, WriteCut, MarkHandled, Finally
  <1>3. StopPlayback => UNCHANGED jbVars
    BY DEF StopPlayback, StopRunning, CloseResources
  <1> QED
    BY <1>1, <1>2, <1>3

LEMMA StepKinds ==
    [Next]_vars => \/ ReceiverAlone \/ PutPacket \/ ReceiverStops
                   \/ PlaybackAlone \/ TakeExpected \/ TryFec \/ WriteThrows
                   \/ ReleasePlayed \/ ReleaseFec \/ FinallyStop
                   \/ StopPlayback \/ UNCHANGED vars
  BY DEF Next, Receiver, Playback, ReceiverAlone, PlaybackAlone, Finished

\* Whatever the threads do to the buffer, its most general client may do.
LEMMA StreamUsesBuffer ==
    ASSUME Seqs = Nat, StreamInv, [Next]_vars
    PROVE  [JBNext]_jbVars
  <1> USE DEF StreamInv
  <1>1. CASE PutPacket
    <2>1. Packet(pkt) \in Packets
      <3>1. pkt \in Nat /\ pkt - 1 \in Nat \cup {NoSeq}
        BY <1>1, LastAssumption DEF PutPacket, Places, NoSeq
      <3> QED
        BY <3>1 DEF Packet, Packets
    <2> QED
      BY <1>1, <2>1 DEF PutPacket, JBNext
  <1>2. CASE ReceiverStops \/ FinallyStop
    BY <1>2 DEF ReceiverStops, FinallyStop, JBNext
  <1>3. CASE TakeExpected
    <2>1. expected \in Seqs /\ Take(expected) /\ ~Holding
      BY <1>3 DEF TakeExpected, SequenceKnown, HeldIsExpected, Asking, Take
    <2> QED
      BY <2>1 DEF JBNext
  <1>4. CASE TryFec
    <2>1. expected \in Seqs /\ (FecFor(expected) \/ UNCHANGED jbVars) /\ ~Holding
      BY <1>4 DEF TryFec, SequenceKnown, HeldIsExpected, Asking
    <2> QED
      BY <2>1 DEF JBNext
  <1>5. CASE WriteThrows \/ ReleasePlayed \/ ReleaseFec
    BY <1>5 DEF WriteThrows, ReleasePlayed, ReleaseFec, JBNext, HeldIsExpected
  <1>6. CASE ReceiverAlone \/ PlaybackAlone \/ StopPlayback \/ UNCHANGED vars
    BY <1>6, LeaveBufferAlone DEF vars
  <1> QED
    BY <1>1, <1>2, <1>3, <1>4, <1>5, <1>6, StepKinds

\* A held frame has the payload it was taken for: it is what Write plays.
LEMMA HeldPayloadRight ==
    ASSUME StreamInv, ppc \in {"write", "writeFec"}
    PROVE  HeldPayload = expected /\ expected \in Nat
  <1>1. Holding /\ held.sequence = expected /\ expected \in Nat
    BY DEF StreamInv, HeldIsExpected, SequenceKnown, Playing
  <1> QED
    BY <1>1 DEF StreamInv, IInv, HeldIntact, HeldPayload

-----------------------------------------------------------------------------
(* The invariant                                                            *)

LEMMA StreamInitially == Init => StreamInv
  <1> SUFFICES ASSUME Init PROVE StreamInv
    OBVIOUS
  <1>1. IInv
    BY InitIInv DEF Init
  <1>2. ValidNumbered
    BY DEF Init, JBInit, EmptySlot, ValidNumbered
  <1>3. Places /\ SequenceKnown
    BY DEF Init, Places, SequenceKnown, ReceiverPlaces, Between, Asking, Playing, NoSeq
  <1>4. HeldIsExpected
    BY DEF Init, JBInit, HeldIsExpected, Holding, NoFrame, Asking, Playing
  <1> QED
    BY <1>1, <1>2, <1>3, <1>4 DEF StreamInv

\* The receiver touches neither the playback thread nor what it holds.
LEMMA ReceiverStep ==
    ASSUME ReceiverAlone \/ PutPacket \/ ReceiverStops
    PROVE  UNCHANGED <<ppc, expected, held, played, cut, lost>>
  BY DEF ReceiverAlone, ReceiverLoop, ReceivePacket, ReceiveInvalid, ReceiveTimeout,
         ReceiveException, FilterPacket, PutPacket, Put, ReceiverStops, Stop, RGoto,
         streamVars, jbVars

LEMMA ReceiverPlacesKept ==
    ASSUME Places, ReceiverAlone \/ PutPacket \/ ReceiverStops
    PROVE  rpc' \in ReceiverPlaces /\ (rpc' \in {"filter", "put"} => pkt' \in 0 .. Last)
  <1>1. ASSUME NEW s \in 0 .. Last, ReceivePacket(s)
        PROVE  rpc' = "filter" /\ pkt' \in 0 .. Last
    BY <1>1 DEF ReceivePacket, RGoto
  <1>2. CASE FilterPacket
    BY <1>2 DEF FilterPacket, RGoto, Places, ReceiverPlaces
  <1>3. CASE ReceiverLoop \/ ReceiveInvalid \/ ReceiveTimeout \/ ReceiveException
    BY <1>3
       DEF ReceiverLoop, ReceiveInvalid, ReceiveTimeout, ReceiveException, RGoto, ReceiverPlaces
  <1>4. CASE PutPacket \/ ReceiverStops
    BY <1>4 DEF PutPacket, ReceiverStops, RGoto, ReceiverPlaces
  <1> QED
    BY <1>1, <1>2, <1>3, <1>4 DEF ReceiverAlone, ReceiverPlaces

\* The playback thread touches neither the receiver nor its packet.
LEMMA PlaybackLeavesReceiver ==
    ASSUME \/ PlaybackAlone \/ TakeExpected \/ TryFec \/ WriteThrows \/ ReleasePlayed
           \/ ReleaseFec \/ FinallyStop \/ StopPlayback \/ UNCHANGED vars
    PROVE  UNCHANGED <<rpc, pkt>>
  BY DEF PlaybackAlone, Fill, AwaitFrames, FillCheck, Top, IdleCheck, AwaitSequence, Check,
         CountLost, Write, WriteCut, MarkHandled, Finally, TakeExpected, TryFec, WriteThrows,
         ReleasePlayed, ReleaseFec, FinallyStop, StopPlayback, StopRunning, CloseResources,
         PGoto, ThrowOr, threadVars, vars

\* One step of the playback thread, after which it is at an end or has its
\* sequence, and holds what it should.
PlaybackRight ==
    /\ ppc' \in Between \cup Asking \cup Playing \cup Ended
    /\ SequenceKnown' /\ HeldIsExpected'

LEMMA PlaybackStep ==
    ASSUME Seqs = Nat, StreamInv,
           \/ PlaybackAlone \/ TakeExpected \/ TryFec \/ WriteThrows \/ ReleasePlayed
           \/ ReleaseFec \/ FinallyStop
    PROVE  PlaybackRight
  <1> USE DEF PlaybackRight, SequenceKnown, HeldIsExpected, Between, Asking, Playing, Ended
  <1>0. SequenceKnown /\ HeldIsExpected /\ ValidNumbered
    BY DEF StreamInv
  <1>1. CASE Fill \/ AwaitFrames \/ FillCheck \/ IdleCheck \/ AwaitSequence \/ Check \/ Finally
    <2>1. UNCHANGED <<expected, held>> /\ (Holding' <=> Holding)
      BY <1>1 DEF Fill, AwaitFrames, FillCheck, IdleCheck, AwaitSequence, Check, Finally,
                  streamVars, jbVars, Holding
    <2>2. CASE Check
      BY <1>0, <2>1, <2>2 DEF Check, ThrowOr, PGoto
    <2>3. CASE AwaitSequence
      BY <1>0, <2>1, <2>3 DEF AwaitSequence, PGoto
    <2>4. CASE Fill \/ AwaitFrames \/ FillCheck \/ IdleCheck \/ Finally
      BY <1>0, <2>1, <2>4 DEF Fill, AwaitFrames, FillCheck, IdleCheck, Finally, ThrowOr, PGoto
    <2> QED
      BY <1>1, <2>2, <2>3, <2>4
  <1>2. CASE Top
    <2>1. held' = held /\ (Holding' <=> Holding)
      BY <1>2 DEF Top, jbVars, Holding
    <2>2. FirstSequence # NoSeq => FirstSequence \in Nat
      BY <1>0, FirstIsNumber
    <2>3. \/ ppc' \in {"finally", "idleWait"} /\ expected' = expected
          \/ ppc' = "take" /\ expected' \in Nat
      <3>1. CASE ~running
        BY <1>2, <3>1 DEF Top, PGoto
      <3>2. CASE running /\ FirstSequence = NoSeq
        BY <1>2, <3>2 DEF Top, PGoto, ThrowOr
      <3>3. CASE running /\ FirstSequence # NoSeq
        <4>1. ppc' = "take" /\ expected' = IF expected = NoSeq THEN FirstSequence ELSE expected
          BY <1>2, <3>3 DEF Top, PGoto
        <4> QED
          BY <1>0, <2>2, <3>3, <4>1
      <3> QED
        BY <3>1, <3>2, <3>3
    <2> QED
      BY <1>0, <1>2, <2>1, <2>3 DEF Top
  <1>3. CASE CountLost
    <2>1. held' = held /\ (Holding' <=> Holding) /\ ppc = "lost" /\ ppc' = "top"
      BY <1>3 DEF CountLost, jbVars, Holding, PGoto
    <2>2. expected' \in Nat
      BY <1>0, <1>3, FirstIsNumber DEF CountLost, Missing
    <2> QED
      BY <1>0, <2>1, <2>2
  <1>4. CASE Write \/ WriteCut
    BY <1>0, <1>4 DEF Write, WriteCut, PGoto, jbVars, Holding
  <1>5. CASE MarkHandled
    <2>1. /\ held' = held /\ (Holding' <=> Holding)
          /\ ppc = "mark" /\ ppc' = "top" /\ expected' = expected + 1
      BY <1>5 DEF MarkHandled, jbVars, Holding, PGoto
    <2> QED
      BY <1>0, <2>1
  <1>6. CASE TakeExpected
    <2>1. expected \in Nat /\ expected' = expected
      BY <1>0, <1>6 DEF TakeExpected, streamVars
    <2>2. CASE TakeFound(expected)
      <3>1. ppc' = "check" /\ held'.sequence = expected
        BY <1>6, <2>2 DEF TakeExpected, TakeFound, TakeMissing, PGoto
      <3> QED
        BY <2>1, <3>1
    <2>3. CASE TakeMissing(expected)
      <3>1. ppc' \in {"await", "check"} /\ held' = held /\ ~Holding /\ ~Holding'
        BY <1>0, <1>6, <2>3 DEF TakeExpected, TakeFound, TakeMissing, PGoto, Holding
      <3> QED
        BY <2>1, <3>1
    <2> QED
      BY <1>6, <2>2, <2>3 DEF TakeExpected
  <1>7. CASE TryFec
    <2>1. expected \in Nat /\ expected' = expected
      BY <1>0, <1>7 DEF TryFec, streamVars
    <2>2. CASE FecFor(expected) /\ PGoto("writeFec")
      <3>1. ppc' = "writeFec" /\ held'.sequence = expected /\ Holding'
        BY <2>2, SlotNotNoSeq DEF FecFor, PGoto, Holding
      <3> QED
        BY <2>1, <3>1
    <2>3. CASE UNCHANGED jbVars /\ PGoto("lost")
      BY <1>0, <1>7, <2>1, <2>3 DEF TryFec, PGoto, jbVars, Holding
    <2> QED
      BY <1>7, <2>2, <2>3 DEF TryFec
  <1>8. CASE WriteThrows \/ FinallyStop
    <2>1. ppc' \in Ended /\ expected' = expected
      BY <1>8 DEF WriteThrows, FinallyStop, PGoto, streamVars
    <2> QED
      BY <1>0, <2>1
  <1>9. CASE ReleasePlayed \/ ReleaseFec
    <2>1. ~Holding'
      BY <1>9 DEF ReleasePlayed, ReleaseFec, Release, Holding, NoFrame
    <2>2. expected \in Nat
      BY <1>0, <1>9 DEF ReleasePlayed, ReleaseFec
    <2>3. \/ ppc' = "top" /\ expected' = expected + 1
          \/ ppc' = "mark" /\ expected' = expected
      BY <1>9 DEF ReleasePlayed, ReleaseFec, PGoto, streamVars
    <2> QED
      BY <2>1, <2>2, <2>3
  <1> QED
    BY <1>1, <1>2, <1>3, <1>4, <1>5, <1>6, <1>7, <1>8, <1>9 DEF PlaybackAlone

LEMMA StreamKeeps ==
    ASSUME Seqs = Nat, StreamInv, [Next]_vars
    PROVE  StreamInv'
  <1>1. IInv' /\ ValidNumbered'
    BY StreamUsesBuffer, NextIInv, ValidNumberedKept DEF StreamInv
  <1>2. CASE ReceiverAlone \/ PutPacket \/ ReceiverStops
    <2>1. Places'
      BY <1>2, ReceiverStep, ReceiverPlacesKept DEF Places, StreamInv
    <2>2. SequenceKnown' /\ HeldIsExpected'
      BY <1>2, ReceiverStep DEF StreamInv, SequenceKnown, HeldIsExpected, Holding
    <2> QED
      BY <1>1, <2>1, <2>2 DEF StreamInv
  <1>3. CASE \/ PlaybackAlone \/ TakeExpected \/ TryFec \/ WriteThrows \/ ReleasePlayed
             \/ ReleaseFec \/ FinallyStop
    <2>1. PlaybackRight
      BY <1>3, PlaybackStep
    <2>2. Places'
      BY <1>3, <2>1, PlaybackLeavesReceiver DEF Places, StreamInv, PlaybackRight
    <2> QED
      BY <1>1, <2>1, <2>2 DEF StreamInv, PlaybackRight
  <1>4. CASE StopPlayback \/ UNCHANGED vars
    <2>1. UNCHANGED <<rpc, pkt, ppc, expected, held>>
      BY <1>4 DEF StopPlayback, StopRunning, CloseResources, vars, jbVars, threadVars, streamVars
    <2> QED
      BY <1>1, <2>1 DEF StreamInv, Places, SequenceKnown, HeldIsExpected, Holding
  <1> QED
    BY <1>2, <1>3, <1>4, StepKinds

LEMMA StreamInvariant ==
    ASSUME Seqs = Nat
    PROVE  Spec => []StreamInv
  <1>1. Init => StreamInv
    BY StreamInitially
  <1>2. StreamInv /\ [Next]_vars => StreamInv'
    BY StreamKeeps
  <1> QED
    BY <1>1, <1>2, PTL DEF Spec

\* The two threads use the buffer as its specification allows: the playback asks
\* only while it holds nothing, and releases only what it holds.  So all that
\* holds of the buffer under its most general client holds of the stream.
THEOREM StreamImplementsBuffer ==
    ASSUME Seqs = Nat
    PROVE  Spec => ImplementsBuffer
  <1>1. Init => JBInit
    BY DEF Init
  <1>2. StreamInv /\ [Next]_vars => [JBNext]_jbVars
    BY StreamUsesBuffer
  <1> QED
    BY <1>1, <1>2, StreamInvariant, PTL DEF Spec, ImplementsBuffer, JBSpec

\* What the buffer promises any client it promises the stream: the frame that is
\* written outside the lock keeps its payload.
THEOREM StreamFrameSafe ==
    ASSUME Seqs = Nat
    PROVE  Spec => []MarkRight
  BY StreamImplementsBuffer, HeldFrameSafe, PTL DEF ImplementsBuffer

-----------------------------------------------------------------------------
(* What the playback thread discards                                        *)

\* take discards only what is older than the sequence it is asked for.
LEMMA TakeKeepsAhead ==
    ASSUME IInv, expected \in Seqs, Take(expected), NEW i \in Slots, Ahead(i)
    PROVE  Kept(i)
  <1>0. slots \in [Slots -> JitterSlot]
    BY DEF IInv, TypeOK
  <1>1. slots[i].valid /\ i \notin Stale(expected)
    <2>1. slots[i].valid /\ slots[i].sequence >= expected /\ expected \in Int
      BY SeqsAssumption DEF Ahead
    <2>2. slots[i].sequence \in Int
      <3>1. slots[i].sequence \in Seqs \cup {NoSeq}
        BY <1>0 DEF JitterSlot
      <3> QED
        <4>1. \A x \in Seqs \cup {NoSeq} : x \in Int
          BY SeqsAssumption DEF NoSeq
        <4> QED
          BY <3>1, <4>1
    <2> QED
      BY <2>1, <2>2 DEF Stale
  <1>2. Dropped(expected) \in [Slots -> JitterSlot] /\ Dropped(expected)[i] = slots[i]
    BY <1>0, <1>1 DEF Dropped, JitterSlot
  <1>3. CASE TakeFound(expected)
    <2>1. slots' = [Dropped(expected) EXCEPT ![SlotIndex(expected)].inUse = TRUE]
      BY <1>3 DEF TakeFound
    <2>2. slots'[i].valid = slots[i].valid /\ slots'[i].sequence = slots[i].sequence
      BY <1>2, <2>1 DEF JitterSlot
    <2> QED
      BY <1>1, <2>2 DEF Kept
  <1>4. CASE TakeMissing(expected)
    BY <1>1, <1>2, <1>4 DEF TakeMissing, Kept
  <1> QED
    BY <1>3, <1>4 DEF Take

\* release takes back only the frame that is held, which is no longer ahead.
LEMMA ReleaseKeepsAhead ==
    ASSUME IInv, Holding, ~stopped, Release, NEW i \in Slots, Ahead(i)
    PROVE  Kept(i)
  <1>1. held.slot # i
    BY DEF IInv, HeldIntact, Ahead
  <1>2. slots'[i] = slots[i]
    BY <1>1 DEF Release, IInv, TypeOK
  <1> QED
    BY <1>2 DEF Kept, Ahead

\* Whatever the playback thread asks for, skips, counts as lost or releases, a
\* packet whose turn is still to come stays, until the stop or until the receiver
\* puts another packet into its slot.
THEOREM AheadIsKeptHolds ==
    ASSUME Seqs = Nat
    PROVE  Spec => AheadIsKept
  <1> DEFINE Discards(i) == Kept(i) \/ (rpc = "put" /\ i = SlotIndex(pkt))
  <1>1. StreamInv /\ [Next]_vars =>
            [~stopped' => \A i \in Slots : Ahead(i) => Discards(i)]_vars
    <2> SUFFICES ASSUME StreamInv, Next, ~stopped', NEW i \in Slots, Ahead(i)
                 PROVE  Discards(i)
      OBVIOUS
    <2>0. IInv /\ slots[i].valid
      BY DEF StreamInv, Ahead
    <2>1. CASE UNCHANGED jbVars
      BY <2>0, <2>1 DEF jbVars, Kept
    <2>2. CASE PutPacket
      <3>1. CASE Put(Packet(pkt))
        <4>1. rpc = "put"
          BY <2>2 DEF PutPacket
        <4>2. i # SlotIndex(pkt) => slots'[i] = slots[i]
          BY <2>0, <3>1 DEF Put, Packet, IInv, TypeOK
        <4> QED
          BY <2>0, <4>1, <4>2 DEF Kept
      <3> QED
        BY <2>1, <2>2, <3>1 DEF PutPacket
    <2>3. CASE TakeExpected
      <3>1. expected \in Seqs /\ Take(expected)
        BY <2>3 DEF TakeExpected, Take, StreamInv, SequenceKnown, Asking
      <3> QED
        BY <2>0, <3>1, TakeKeepsAhead
    <2>4. CASE TryFec
      <3>1. ASSUME NEW j \in Slots, slots' = [slots EXCEPT ![j].inUse = TRUE]
            PROVE  Kept(i)
        BY <2>0, <3>1 DEF Kept, IInv, TypeOK, JitterSlot
      <3> QED
        BY <2>1, <2>4, <3>1 DEF TryFec, FecFor
    <2>5. CASE WriteThrows \/ ReleasePlayed \/ ReleaseFec
      <3>1. (Holding /\ Release) \/ UNCHANGED jbVars
        BY <2>5 DEF WriteThrows, ReleasePlayed, ReleaseFec, StreamInv, HeldIsExpected
      <3>2. CASE Holding /\ Release
        <4>1. ~stopped
          BY <3>2 DEF Release
        <4> QED
          BY <2>0, <3>2, <4>1, ReleaseKeepsAhead
      <3> QED
        BY <2>1, <3>1, <3>2
    <2>6. CASE ReceiverStops \/ FinallyStop
      BY <2>6 DEF ReceiverStops, FinallyStop, Stop
    <2>7. CASE ReceiverAlone \/ PlaybackAlone \/ StopPlayback \/ UNCHANGED vars
      BY <2>1, <2>7, LeaveBufferAlone DEF vars
    <2> QED
      BY <2>2, <2>3, <2>4, <2>5, <2>6, <2>7, StepKinds
  <1> QED
    BY <1>1, StreamInvariant, PTL DEF Spec, AheadIsKept

-----------------------------------------------------------------------------
(* The abstract playout                                                     *)

Stutter == UNCHANGED <<Cursor, played, cut, lost>> /\ (ppc \in Ended)' = (ppc \in Ended)

LEMMA ReceiverStutters ==
    ASSUME ReceiverAlone \/ PutPacket \/ ReceiverStops \/ StopPlayback \/ UNCHANGED vars
    PROVE  Stutter
  <1>1. UNCHANGED <<ppc, expected, played, cut, lost>>
    BY ReceiverStep DEF StopPlayback, StopRunning, CloseResources, vars, threadVars, streamVars
  <1> QED
    BY <1>1 DEF Stutter, Cursor

\* Each step of the playback thread is one of the abstract playout, or none:
\* writing a frame plays the expected sequence, a loss skips to what is there.
LEMMA PlaybackPlays ==
    ASSUME Seqs = Nat, StreamInv,
           \/ PlaybackAlone \/ TakeExpected \/ TryFec \/ WriteThrows \/ ReleasePlayed
           \/ ReleaseFec \/ FinallyStop
    PROVE  Abstract!Next \/ Stutter
  <1> USE DEF Cursor, Ended
  <1>0. SequenceKnown /\ ValidNumbered
    BY DEF StreamInv
  <1>1. ASSUME ppc \notin Ended, ppc' \in Ended, UNCHANGED <<expected, played, cut, lost>>,
               ppc \notin {"release", "releaseFec", "mark"}
        PROVE  Abstract!End
    BY <1>1 DEF Abstract!End
  <1>2. ASSUME ppc \notin Ended \cup {"release", "releaseFec", "mark"},
               ppc' \notin Ended \cup {"release", "releaseFec", "mark"},
               UNCHANGED <<expected, played, cut, lost>>
        PROVE  Stutter
    BY <1>2 DEF Stutter
  <1>3. CASE Fill \/ AwaitFrames \/ FillCheck \/ IdleCheck \/ AwaitSequence \/ Check
    <2>1. UNCHANGED <<expected, played, cut, lost>> /\ ppc \in Between \cup Asking
      BY <1>3 DEF Fill, AwaitFrames, FillCheck, IdleCheck, AwaitSequence, Check, streamVars,
                  Between, Asking
    <2>2. ppc' \in Between \cup Asking \cup {"write", "finally"}
      BY <1>3 DEF Fill, AwaitFrames, FillCheck, IdleCheck, AwaitSequence, Check, ThrowOr, PGoto,
                  Between, Asking
    <2> QED
      BY <1>1, <1>2, <2>1, <2>2 DEF Between, Asking, Abstract!Next
  <1>4. CASE Top
    <2>1. ppc = "top" /\ UNCHANGED <<played, cut, lost>>
      BY <1>4 DEF Top
    <2>2. CASE expected' = expected /\ ppc' \in {"finally", "idleWait", "take"}
      BY <1>1, <1>2, <2>1, <2>2 DEF Abstract!Next
    <2>3. CASE /\ expected = NoSeq /\ expected' = FirstSequence
               /\ FirstSequence # NoSeq /\ ppc' = "take"
      <3>1. FirstSequence \in Seqs
        BY <1>0, <2>3, FirstIsNumber
      <3> QED
        BY <2>1, <2>3, <3>1 DEF Abstract!Begin, Abstract!Next, NoSeq
    <2>4. \/ expected' = expected /\ ppc' \in {"finally", "idleWait", "take"}
          \/ expected = NoSeq /\ expected' = FirstSequence /\ FirstSequence # NoSeq /\ ppc' = "take"
      <3>1. CASE ~running
        BY <1>4, <3>1 DEF Top, PGoto
      <3>2. CASE running /\ FirstSequence = NoSeq
        BY <1>4, <3>2 DEF Top, PGoto, ThrowOr
      <3>3. CASE running /\ FirstSequence # NoSeq
        <4>1. ppc' = "take" /\ expected' = IF expected = NoSeq THEN FirstSequence ELSE expected
          BY <1>4, <3>3 DEF Top, PGoto
        <4> QED
          BY <3>3, <4>1
      <3> QED
        BY <3>1, <3>2, <3>3
    <2> QED
      BY <2>2, <2>3, <2>4
  <1>5. CASE TakeExpected \/ TryFec
    <2>1. UNCHANGED <<expected, played, cut, lost>> /\ ppc \in Asking
      BY <1>5 DEF TakeExpected, TryFec, streamVars, Asking
    <2>2. ppc' \in Asking \cup {"writeFec"}
      BY <1>5 DEF TakeExpected, TryFec, PGoto, Asking
    <2> QED
      BY <1>2, <2>1, <2>2 DEF Asking
  <1>6. CASE CountLost
    <2>1. ppc = "lost" /\ ppc' = "top" /\ UNCHANGED <<played, cut>>
      BY <1>6 DEF CountLost, PGoto
    <2>2. expected \in Nat /\ Missing \in Nat /\ Missing > 0
      BY <1>0, <2>1, FirstIsNumber DEF SequenceKnown, Asking, Missing
    <2>3. lost' = lost \cup (expected .. expected + Missing - 1) /\ expected' = expected + Missing
      BY <1>6 DEF CountLost
    <2> QED
      BY <2>1, <2>2, <2>3 DEF Abstract!Skip, Abstract!Next
  <1>7. CASE Write \/ WriteCut
    <2>1. /\ ppc \in {"write", "writeFec"} /\ ppc' \in {"release", "releaseFec"}
          /\ UNCHANGED <<expected, lost>>
          /\ \/ played' = played \cup {HeldPayload} /\ cut' = cut
             \/ cut' = cut \cup {HeldPayload} /\ played' = played
      BY <1>7 DEF Write, WriteCut, PGoto
    <2>2. HeldPayload = expected /\ expected \in Nat
      BY <2>1, HeldPayloadRight
    <2> QED
      BY <2>1, <2>2 DEF Abstract!Play, Abstract!PlayCut, Abstract!Next
  <1>8. CASE WriteThrows
    <2>1. ppc \in {"write", "writeFec"} /\ ppc' = "finally" /\ UNCHANGED <<expected, played, cut, lost>>
      BY <1>8 DEF WriteThrows, PGoto, streamVars
    <2> QED
      BY <1>1, <2>1 DEF Abstract!Next
  <1>9. CASE ReleasePlayed \/ ReleaseFec \/ MarkHandled
    <2>1. UNCHANGED <<played, cut, lost>> /\ ppc \notin Ended /\ ppc' \notin Ended
      BY <1>9 DEF ReleasePlayed, ReleaseFec, MarkHandled, PGoto, streamVars
    <2>2. Cursor' = Cursor
      BY <1>9 DEF ReleasePlayed, ReleaseFec, MarkHandled, PGoto, streamVars
    <2> QED
      BY <2>1, <2>2 DEF Stutter
  <1>10. CASE Finally \/ FinallyStop
    BY <1>10 DEF Finally, FinallyStop, PGoto, streamVars, Stutter
  <1> QED
    BY <1>3, <1>4, <1>5, <1>6, <1>7, <1>8, <1>9, <1>10 DEF PlaybackAlone

LEMMA StreamPlays ==
    ASSUME Seqs = Nat, StreamInv, [Next]_vars
    PROVE  [Abstract!Next]_(Abstract!playoutVars)
  <1>1. Abstract!Next \/ Stutter
    BY StepKinds, ReceiverStutters, PlaybackPlays
  <1> QED
    BY <1>1 DEF Stutter, Abstract!playoutVars, Ended

\* The stream implements the abstract playout.
THEOREM StreamImplementsPlayout ==
    ASSUME Seqs = Nat
    PROVE  Spec => ImplementsPlayout
  <1>1. Init => Abstract!Init
    BY DEF Init, Abstract!Init, Cursor, NoSeq
  <1>2. StreamInv /\ [Next]_vars => [Abstract!Next]_(Abstract!playoutVars)
    BY StreamPlays
  <1> QED
    BY <1>1, <1>2, StreamInvariant, PTL DEF Spec, ImplementsPlayout, Abstract!Spec

-----------------------------------------------------------------------------
(* What the abstract playout accounts for                                    *)

Known == played \cup cut \cup lost

\* The numbers accounted for, and the cursor, -1 before the first.
CursorType ==
    /\ Cursor \in Int /\ Cursor >= -1
    /\ Known \subseteq Int
    /\ Cursor = -1 => Known = {}

\* Playing, cutting or skipping extends the accounted numbers by an interval that
\* begins at the cursor.
LEMMA ExtendAccounted ==
    ASSUME Abstract!Accounted, CursorType, NEW k \in Nat \ {0},
           Cursor' = Cursor + k,
           \/ played' = played \cup (Cursor .. Cursor + k - 1) /\ UNCHANGED <<cut, lost>>
           \/ cut' = cut \cup (Cursor .. Cursor + k - 1) /\ UNCHANGED <<played, lost>>
           \/ lost' = lost \cup (Cursor .. Cursor + k - 1) /\ UNCHANGED <<played, cut>>
    PROVE  Abstract!Accounted'
  <1>1. \A s \in Cursor .. Cursor + k - 1 : s \notin Known
    BY DEF Abstract!Accounted, CursorType, Known
  <1>2. played' \cap lost' = {} /\ cut' \cap (played' \cup lost') = {}
    BY <1>1 DEF Abstract!Accounted, Known
  <1>3. Known' = Known \cup (Cursor .. Cursor + k - 1)
    BY DEF Known
  <1>0. Known' \subseteq Int /\ Cursor \in Int
    <2>1. Known \subseteq Int /\ Cursor \in Int
      BY DEF CursorType
    <2>2. Cursor .. Cursor + k - 1 \subseteq Int
      BY <2>1
    <2> QED
      BY <1>3, <2>1, <2>2
  <1>4. ASSUME NEW s \in Known' PROVE s < Cursor'
    <2>0. s \in Int /\ Cursor \in Int
      BY <1>0
    <2>1. CASE s \in Known
      <3>1. s < Cursor
        BY <2>1 DEF Abstract!Accounted, Known
      <3> QED
        BY <2>0, <3>1
    <2>2. CASE s \in Cursor .. Cursor + k - 1
      BY <2>0, <2>2
    <2> QED
      BY <1>3, <1>4, <2>1, <2>2
  <1>5. ASSUME NEW s \in Known', NEW t \in s .. Cursor' - 1
        PROVE  t \in Known'
    <2>0. s \in Int /\ t \in Int /\ Cursor \in Int
      <3>1. s \in Int /\ Cursor' \in Int
        BY <1>0
      <3> QED
        BY <1>0, <3>1
    <2>1. CASE t >= Cursor
      BY <1>3, <1>5, <2>0, <2>1
    <2>2. CASE t < Cursor /\ s \in Known
      BY <1>3, <1>5, <2>0, <2>2 DEF Abstract!Accounted, Known
    <2>3. CASE t < Cursor /\ s \in Cursor .. Cursor + k - 1
      BY <1>5, <2>0, <2>3
    <2> QED
      BY <1>3, <1>5, <2>0, <2>1, <2>2, <2>3
  <1> QED
    BY <1>2, <1>4, <1>5 DEF Abstract!Accounted, Known

\* What implements the abstract playout accounts for every sequence number.
LEMMA PlayoutAccounts == Abstract!Spec => []Abstract!Accounted
  <1> DEFINE Inv == CursorType /\ Abstract!Accounted
  <1>1. Abstract!Init => Inv
    BY DEF Abstract!Init, CursorType, Abstract!Accounted, Known
  <1>2. Inv /\ [Abstract!Next]_(Abstract!playoutVars) => Inv'
    <2> SUFFICES ASSUME Inv, [Abstract!Next]_(Abstract!playoutVars) PROVE Inv'
      OBVIOUS
    <2>1. CASE Abstract!Begin
      <3>1. Cursor' \in Nat
        BY <2>1, SeqsAssumption DEF Abstract!Begin
      <3>2. Known' = {}
        BY <2>1 DEF Abstract!Begin, CursorType, Known
      <3>3. CursorType'
        BY <3>1, <3>2 DEF CursorType
      <3>4. Abstract!Accounted'
        BY <3>2 DEF Abstract!Accounted, Known
      <3> QED
        BY <3>3, <3>4
    <2>2. CASE Abstract!Play \/ Abstract!PlayCut
      <3>1. Cursor .. Cursor + 1 - 1 = {Cursor}
        BY DEF CursorType
      <3>2. Abstract!Accounted'
        BY <2>2, <3>1, ExtendAccounted DEF Abstract!Play, Abstract!PlayCut
      <3>3. CursorType'
        BY <2>2 DEF Abstract!Play, Abstract!PlayCut, CursorType, Known
      <3> QED
        BY <3>2, <3>3
    <2>3. CASE Abstract!Skip
      <3>1. PICK k \in Seqs : /\ k > 0
                              /\ lost' = lost \cup (Cursor .. Cursor + k - 1)
                              /\ Cursor' = Cursor + k
        BY <2>3 DEF Abstract!Skip
      <3>2. k \in Nat \ {0}
        BY <3>1, SeqsAssumption
      <3>3. Abstract!Accounted'
        BY <2>3, <3>1, <3>2, ExtendAccounted DEF Abstract!Skip
      <3>4. CursorType'
        BY <2>3, <3>1, <3>2 DEF Abstract!Skip, CursorType, Known
      <3> QED
        BY <3>3, <3>4
    <2>4. CASE Abstract!End \/ UNCHANGED Abstract!playoutVars
      BY <2>4 DEF Abstract!End, Abstract!playoutVars, CursorType, Abstract!Accounted,
                  Known
    <2> QED
      BY <2>1, <2>2, <2>3, <2>4 DEF Abstract!Next
  <1> QED
    BY <1>1, <1>2, PTL DEF Abstract!Spec

\* However packets are lost, repeated and reordered, and whoever stops when, every
\* sequence number from the first on is played, cut short or counted as lost:
\* exactly one of the three.
THEOREM StreamAccounts ==
    ASSUME Seqs = Nat
    PROVE  Spec => []Abstract!Accounted
  BY StreamImplementsPlayout, PlayoutAccounts, PTL DEF ImplementsPlayout

=============================================================================
