-------------------------- MODULE PcmPipeProofs --------------------------
(***************************************************************************)
(* Proofs about PcmPipe, for every capacity of the queue and any number of   *)
(* chunks and of device changes: the sender never sleeps on work, and the    *)
(* queue, popped by two threads, keeps the order and the newest chunk.        *)
(***************************************************************************)
EXTENDS PcmPipe, TLAPS

-----------------------------------------------------------------------------
(* The inductive invariant                                                  *)

\* The control thread spawns a capture only where there is none.
OneCapture == control \in {"start", "respawn", "done"} => capture = "none"

\* A chunk that is not in the queue yet is newer than all that are or were.
NotYetQueued ==
    /\ sent <= captured
    /\ \A i \in 1 .. Len(queue) : queue[i] <= captured
    /\ capture \in {"push", "full"} =>
          sent < captured /\ \A i \in 1 .. Len(queue) : queue[i] < captured

\* From its first empty pop on the sender is registered, and what came since
\* has left it a token, or is about to.
WakeupPending ==
    /\ sender \in {"bind", "pop", "alive", "park", "send"} => senderSet
    /\ sender \in {"alive", "park"} /\ ~token => queue = <<>> \/ capture = "unpark"
    /\ sender = "park" /\ ~token => producerAlive \/ control = "exitUnpark"

QueueInv == InOrder /\ NotYetQueued /\ NewestKept

IInv == TypeOK /\ OneCapture /\ QueueInv /\ WakeupPending

QueueType == queue \in Seq(1 .. MaxChunks) /\ Len(queue) <= Capacity

-----------------------------------------------------------------------------
(* Sequences                                                                *)

LEMMA TailFacts ==
    ASSUME NEW S, NEW q \in Seq(S), q # <<>>
    PROVE  /\ Tail(q) \in Seq(S) /\ Len(q) \in Nat /\ Len(q) >= 1 /\ Len(Tail(q)) = Len(q) - 1
           /\ \A i \in 1 .. Len(Tail(q)) : Tail(q)[i] = q[i + 1] /\ i + 1 \in 1 .. Len(q)
           /\ Head(q) = q[1] /\ Head(q) \in S
  OBVIOUS

LEMMA AppendFacts ==
    ASSUME NEW S, NEW q \in Seq(S), NEW e \in S
    PROVE  /\ Append(q, e) \in Seq(S) /\ Len(q) \in Nat /\ Len(Append(q, e)) = Len(q) + 1
           /\ Append(q, e)[Len(q) + 1] = e
           /\ \A i \in 1 .. Len(q) : Append(q, e)[i] = q[i]
           /\ Append(q, e) # <<>>
  OBVIOUS

\* unpark leaves a token, once the sender is registered.
LEMMA UnparkFacts ==
    ASSUME Unpark
    PROVE  token' \in BOOLEAN /\ (senderSet => token')
  BY Zenon DEF Unpark

-----------------------------------------------------------------------------
(* Which steps touch what                                                   *)

\* The queue and what is compared with it change in these steps only.
QueueStep ==
    CapturePacket \/ PushChunk \/ DropOldest \/ SenderPop

\* Otherwise a capture thread can only come to a place outside the push.
LEMMA QueueLeftAlone ==
    ASSUME IInv, [Next]_vars, ~QueueStep
    PROVE  /\ UNCHANGED <<queue, sent, captured>>
           /\ capture' = capture \/ (capture \notin {"push", "full"} /\ capture' \notin {"push", "full"})
  <1>1. CASE Capture \/ CaptureFails
    BY <1>1 DEF QueueStep, Capture, CaptureCheckStop, CaptureEvent, CaptureFails, UnparkSender,
                pipeVars, senderVars
  <1>2. CASE Control
    BY <1>2 DEF IInv, OneCapture, Control, ControlStart, ControlRecv, ControlDrop,
                ControlNothingToDrop, ControlJoin, ControlRespawn, ControlExit, ControlExitUnpark,
                SpawnCapture, pipeVars, captureVars, senderVars
  <1>3. CASE Caller
    BY <1>3 DEF Caller, CallerStarts, CallerFails, pipeVars, captureVars, senderVars
  <1>4. CASE Sender \/ SenderSpuriousWake \/ SenderSendFails
    BY <1>4 DEF QueueStep, Sender, SenderSet, SenderBind, SenderCheckAlive, SenderPark, SenderSend,
                SenderSpuriousWake, SenderSendFails, pipeVars, captureVars
  <1>5. CASE Supervisor
    BY <1>5 DEF Supervisor, SupervisorSenderDone, SupervisorDeviceChange, SupervisorNoWatcher,
                SupervisorStop, SupervisorClose, pipeVars, captureVars, senderVars
  <1>6. CASE WatcherStarts \/ DeviceChanges \/ StopSession
    BY <1>6 DEF WatcherStarts, DeviceChanges, StopSession, pipeVars, captureVars, senderVars
  <1>7. CASE UNCHANGED vars
    BY <1>7 DEF vars, pipeVars, captureVars, senderVars
  <1> QED BY <1>1, <1>2, <1>3, <1>4, <1>5, <1>6, <1>7 DEF Next, Finished

\* What WakeupPending is about, in the steps of the threads that do not wake
\* the sender and are not the sender.
LEMMA WakeupLeftAlone ==
    ASSUME Caller \/ Supervisor \/ WatcherStarts \/ DeviceChanges \/ StopSession \/ UNCHANGED vars
    PROVE  /\ UNCHANGED <<queue, producerAlive, senderSet, token, capture, control>>
           /\ sender' = sender \/ sender' = "set"
  BY DEF Caller, CallerStarts, CallerFails, Supervisor, SupervisorSenderDone,
         SupervisorDeviceChange, SupervisorNoWatcher, SupervisorStop, SupervisorClose,
         WatcherStarts, DeviceChanges, StopSession, vars, pipeVars, captureVars, senderVars,
         controlVars

-----------------------------------------------------------------------------
(* Types                                                                    *)

LEMMA QueueTypeStep ==
    ASSUME IInv, [Next]_vars
    PROVE  QueueType' /\ captured' \in 0 .. MaxChunks /\ sent' \in 0 .. MaxChunks
  <1> USE CapacityAssumption, BoundsAssumption DEF IInv, TypeOK, QueueType
  <1>1. CASE ~QueueStep
    BY <1>1, QueueLeftAlone
  <1>2. CASE CapturePacket
    BY <1>2 DEF CapturePacket, pipeVars, senderVars
  <1>3. CASE PushChunk
    <2>1. CASE Len(queue) < Capacity
      <3>1. queue' = Append(queue, captured) /\ captured \in 1 .. MaxChunks
        BY <1>3, <2>1 DEF PushChunk, QueueInv, NotYetQueued
      <3> QED BY <1>3, <2>1, <3>1, AppendFacts DEF PushChunk, senderVars
    <2>2. CASE ~(Len(queue) < Capacity)
      BY <1>3, <2>2 DEF PushChunk, senderVars
    <2> QED BY <2>1, <2>2
  <1>4. CASE DropOldest
    <2>1. queue' = IF queue = <<>> THEN queue ELSE Tail(queue)
      BY <1>4 DEF DropOldest
    <2>2. captured' = captured /\ sent' = sent
      BY <1>4 DEF DropOldest, senderVars
    <2>3. QueueType'
      <3>1. CASE queue = <<>>
        BY <2>1, <3>1
      <3>2. CASE queue # <<>>
        <4>1. Len(Tail(queue)) = Len(queue) - 1 /\ Tail(queue) \in Seq(1 .. MaxChunks)
          BY <3>2, TailFacts
        <4> QED
          BY <2>1, <3>2, <4>1
      <3> QED
        BY <3>1, <3>2
    <2> QED BY <2>2, <2>3
  <1>5. CASE SenderPop
    <2>1. CASE queue = <<>>
      BY <1>5, <2>1 DEF SenderPop, captureVars
    <2>2. CASE queue # <<>>
      <3>1. queue' = Tail(queue) /\ sent' = Head(queue) /\ captured' = captured
        BY <1>5, <2>2 DEF SenderPop, captureVars
      <3>2. Tail(queue) \in Seq(1 .. MaxChunks) /\ Head(queue) \in 1 .. MaxChunks
            /\ Len(Tail(queue)) = Len(queue) - 1
        BY <2>2, TailFacts
      <3> QED BY <3>1, <3>2
    <2> QED BY <2>1, <2>2
  <1> QED BY <1>1, <1>2, <1>3, <1>4, <1>5 DEF QueueStep

\* The flags, the places of the threads, and the counters.
FlagsType ==
    /\ producerAlive \in BOOLEAN /\ senderSet \in BOOLEAN /\ token \in BOOLEAN
    /\ captureStop \in BOOLEAN /\ restartTx \in BOOLEAN /\ stopSignal \in BOOLEAN

PlacesType ==
    /\ capture \in {"none", "run", "wait", "packets", "push", "full", "unpark", "dead"}
    /\ control \in {"start", "recv", "dropForRestart", "joinForRestart", "respawn", "exit",
                    "exitUnpark", "dropAtExit", "joinAtExit", "done"}
    /\ caller \in {"startup", "spawned", "failed"}
    /\ sender \in {"unborn", "set", "bind", "pop", "alive", "park", "send", "done"}
    /\ supervisor \in {"unborn", "select", "closing", "done"}
    /\ watcher \in {"starting", "running", "failed"}

CountersType ==
    /\ restarts \in Nat /\ device \in Nat /\ capturedDevice \in Nat
    /\ deviceVersion \in Nat /\ seenVersion \in Nat
    /\ changes \in 0 .. MaxChanges

LEMMA TypeOKSplit ==
    TypeOK <=> /\ QueueType /\ captured \in 0 .. MaxChunks /\ sent \in 0 .. MaxChunks
               /\ FlagsType /\ PlacesType /\ CountersType
  BY DEF TypeOK, QueueType, FlagsType, PlacesType, CountersType

LEMMA FlagsTypeStep ==
    ASSUME FlagsType, [Next]_vars
    PROVE  FlagsType'
  <1> USE DEF FlagsType
  <1>1. CASE UnparkSender \/ ControlExitUnpark
    <2>1. Unpark /\ UNCHANGED <<producerAlive, senderSet, captureStop, restartTx, stopSignal>>
      BY <1>1 DEF UnparkSender, ControlExitUnpark, captureVars, controlVars, watchVars
    <2>2. token' \in BOOLEAN
      BY <2>1, UnparkFacts
    <2> QED BY <2>1, <2>2
  <1>2. CASE ControlStart \/ ControlRespawn
    BY <1>2 DEF ControlStart, ControlRespawn, SpawnCapture, pipeVars, watchVars
  <1>3. CASE \/ CaptureCheckStop \/ CaptureEvent \/ CaptureFails \/ CapturePacket \/ PushChunk \/ DropOldest
             \/ ControlRecv \/ ControlDrop \/ ControlNothingToDrop \/ ControlJoin \/ ControlExit
    BY <1>3 DEF CaptureCheckStop, CaptureEvent, CaptureFails, CapturePacket, PushChunk, DropOldest,
                ControlRecv, ControlDrop, ControlNothingToDrop, ControlJoin, ControlExit,
                pipeVars, captureVars, controlVars, watchVars
  <1>4. CASE Sender \/ SenderSpuriousWake \/ SenderSendFails
    BY <1>4 DEF Sender, SenderSet, SenderBind, SenderPop, SenderCheckAlive, SenderPark, SenderSend,
                SenderSpuriousWake, SenderSendFails, pipeVars, captureVars, controlVars, watchVars
  <1>5. CASE Caller \/ Supervisor \/ WatcherStarts \/ DeviceChanges \/ StopSession \/ UNCHANGED vars
    BY <1>5 DEF Caller, CallerStarts, CallerFails, Supervisor, SupervisorSenderDone,
                SupervisorDeviceChange, SupervisorNoWatcher, SupervisorStop, SupervisorClose,
                WatcherStarts, DeviceChanges, StopSession, vars, pipeVars, captureVars,
                controlVars, watchVars
  <1> QED BY <1>1, <1>2, <1>3, <1>4, <1>5 DEF Next, Finished, Capture, Control

LEMMA PlacesTypeStep ==
    ASSUME PlacesType, [Next]_vars
    PROVE  PlacesType'
  <1> USE DEF PlacesType
  <1>1. CASE Capture \/ CaptureFails
    BY <1>1 DEF Capture, CaptureCheckStop, CaptureEvent, CaptureFails, CapturePacket, PushChunk,
                DropOldest, UnparkSender, senderVars, controlVars, watchVars
  <1>2. CASE Control
    BY <1>2 DEF Control, ControlStart, ControlRecv, ControlDrop, ControlNothingToDrop, ControlJoin,
                ControlRespawn, ControlExit, ControlExitUnpark, SpawnCapture, captureVars,
                senderVars, watchVars
  <1>3. CASE Sender \/ SenderSpuriousWake \/ SenderSendFails
    BY <1>3 DEF Sender, SenderSet, SenderBind, SenderPop, SenderCheckAlive, SenderPark, SenderSend,
                SenderSpuriousWake, SenderSendFails, captureVars, controlVars, watchVars
  <1>4. CASE Caller \/ Supervisor \/ WatcherStarts \/ DeviceChanges \/ StopSession \/ UNCHANGED vars
    BY <1>4 DEF Caller, CallerStarts, CallerFails, Supervisor, SupervisorSenderDone,
                SupervisorDeviceChange, SupervisorNoWatcher, SupervisorStop, SupervisorClose,
                WatcherStarts, DeviceChanges, StopSession, vars, captureVars, controlVars,
                senderVars, watchVars
  <1> QED BY <1>1, <1>2, <1>3, <1>4 DEF Next, Finished

LEMMA CountersTypeStep ==
    ASSUME CountersType, [Next]_vars
    PROVE  CountersType'
  <1> USE BoundsAssumption DEF CountersType
  <1>1. CASE DeviceChanges
    BY <1>1 DEF DeviceChanges, captureVars, controlVars
  <1>2. CASE ControlStart \/ ControlRespawn \/ ControlRecv
    BY <1>2 DEF ControlStart, ControlRespawn, ControlRecv, SpawnCapture, captureVars, watchVars
  <1>3. CASE SupervisorDeviceChange
    BY <1>3 DEF SupervisorDeviceChange, captureVars
  <1>4. CASE \/ Capture \/ CaptureFails \/ Sender \/ SenderSpuriousWake \/ SenderSendFails
             \/ ControlDrop \/ ControlNothingToDrop \/ ControlJoin \/ ControlExit \/ ControlExitUnpark
    BY <1>4 DEF Capture, CaptureCheckStop, CaptureEvent, CaptureFails, CapturePacket, PushChunk,
                DropOldest, UnparkSender, Sender, SenderSet, SenderBind, SenderPop,
                SenderCheckAlive, SenderPark, SenderSend, SenderSpuriousWake, SenderSendFails,
                ControlDrop, ControlNothingToDrop, ControlJoin, ControlExit, ControlExitUnpark,
                captureVars, controlVars, watchVars
  <1>5. CASE \/ Caller \/ SupervisorSenderDone \/ SupervisorNoWatcher \/ SupervisorStop \/ SupervisorClose
             \/ WatcherStarts \/ StopSession \/ UNCHANGED vars
    BY <1>5 DEF Caller, CallerStarts, CallerFails, SupervisorSenderDone, SupervisorNoWatcher,
                SupervisorStop, SupervisorClose, WatcherStarts, StopSession,
                vars, captureVars, controlVars, watchVars
  <1> QED BY <1>1, <1>2, <1>3, <1>4, <1>5 DEF Next, Finished, Control, Supervisor

LEMMA TypeStep ==
    ASSUME IInv, [Next]_vars
    PROVE  TypeOK'
  <1>1. QueueType /\ FlagsType /\ PlacesType /\ CountersType
    BY TypeOKSplit DEF IInv
  <1>2. FlagsType' /\ PlacesType' /\ CountersType'
    BY <1>1, FlagsTypeStep, PlacesTypeStep, CountersTypeStep
  <1>3. QueueType' /\ captured' \in 0 .. MaxChunks /\ sent' \in 0 .. MaxChunks
    BY QueueTypeStep
  <1> QED BY <1>2, <1>3 DEF TypeOK, QueueType, FlagsType, PlacesType, CountersType

-----------------------------------------------------------------------------
(* The parts of the invariant                                               *)

LEMMA OneCaptureStep ==
    ASSUME IInv, [Next]_vars
    PROVE  OneCapture'
  <1> USE DEF IInv, OneCapture
  <1>1. CASE Capture \/ CaptureFails
    BY <1>1 DEF Capture, CaptureCheckStop, CaptureEvent, CaptureFails, CapturePacket, PushChunk,
                DropOldest, UnparkSender, controlVars
  <1>2. CASE Control
    BY <1>2 DEF Control, ControlStart, ControlRecv, ControlDrop, ControlNothingToDrop, ControlJoin,
                ControlRespawn, ControlExit, ControlExitUnpark, captureVars
  <1>3. CASE ~(Capture \/ CaptureFails \/ Control)
    BY <1>3 DEF Next, Finished, Caller, CallerStarts, CallerFails, Sender, SenderSet, SenderBind,
                SenderPop, SenderCheckAlive, SenderPark, SenderSend, SenderSpuriousWake,
                SenderSendFails, Supervisor, SupervisorSenderDone, SupervisorDeviceChange,
                SupervisorNoWatcher, SupervisorStop, SupervisorClose, WatcherStarts, DeviceChanges,
                StopSession, vars, captureVars, controlVars
  <1> QED BY <1>1, <1>2, <1>3

\* A pop takes the head and leaves the order; its chunk is older than the rest.
LEMMA PopKeepsOrder ==
    ASSUME TypeOK, InOrder, queue # <<>>
    PROVE  LET q == Tail(queue)
           IN  /\ \A i, j \in 1 .. Len(q) : i < j => q[i] < q[j]
               /\ \A i \in 1 .. Len(q) : Head(queue) < q[i] /\ sent < q[i]
  BY TailFacts DEF TypeOK, InOrder

LEMMA QueueInvStep ==
    ASSUME IInv, [Next]_vars
    PROVE  QueueInv'
  <1> USE CapacityAssumption, BoundsAssumption DEF IInv, TypeOK, QueueInv
  <1>1. CASE ~QueueStep
    BY <1>1, QueueLeftAlone DEF InOrder, NotYetQueued, NewestKept
  <1>2. CASE CapturePacket
    <2>1. /\ queue' = queue /\ sent' = sent
          /\ \/ capture' = "run" /\ captured' = captured
             \/ capture' = "push" /\ captured' = captured + 1
      BY <1>2 DEF CapturePacket, pipeVars, senderVars
    <2>2. capture = "packets" /\ captured \in Nat /\ sent \in Nat
      BY <1>2 DEF CapturePacket
    <2>3. InOrder' /\ NewestKept'
      BY <2>1, <2>2 DEF InOrder, NewestKept
    <2>4. NotYetQueued'
      <3>1. \A i \in 1 .. Len(queue) : queue[i] \in 1 .. MaxChunks /\ queue[i] <= captured
        BY DEF NotYetQueued
      <3> QED
        BY <2>1, <2>2, <3>1 DEF NotYetQueued
    <2> QED BY <2>3, <2>4
  <1>3. CASE PushChunk
    <2>1. CASE Len(queue) < Capacity
      <3>1. /\ queue' = Append(queue, captured) /\ captured \in 1 .. MaxChunks
            /\ sent' = sent /\ captured' = captured /\ capture' = "unpark"
            /\ sent < captured /\ \A i \in 1 .. Len(queue) : queue[i] < captured
        BY <1>3, <2>1 DEF PushChunk, NotYetQueued, senderVars
      <3>2. /\ Len(queue') = Len(queue) + 1 /\ queue'[Len(queue) + 1] = captured
            /\ \A i \in 1 .. Len(queue) : queue'[i] = queue[i]
            /\ queue' # <<>> /\ Len(queue) \in Nat
        BY <3>1, AppendFacts
      <3>3. InOrder'
        <4>1. PICK l \in Nat : l = Len(queue)
          BY <3>2
        <4>2. \A i, j \in 1 .. l + 1 : i < j => queue'[i] < queue'[j]
          BY <3>1, <3>2, <4>1 DEF InOrder
        <4>3. \A i \in 1 .. l + 1 : sent' < queue'[i]
          BY <3>1, <3>2, <4>1 DEF InOrder
        <4> QED
          BY <3>2, <4>1, <4>2, <4>3 DEF InOrder
      <3>4. NotYetQueued' /\ NewestKept'
        BY <3>1, <3>2 DEF NotYetQueued, NewestKept
      <3> QED BY <3>3, <3>4
    <2>2. CASE ~(Len(queue) < Capacity)
      BY <1>3, <2>2 DEF PushChunk, senderVars, InOrder, NotYetQueued, NewestKept
    <2> QED BY <2>1, <2>2
  <1>4. CASE DropOldest
    <2>1. /\ capture = "full" /\ capture' = "push" /\ UNCHANGED <<sent, captured>>
          /\ queue' = IF queue = <<>> THEN queue ELSE Tail(queue)
      BY <1>4 DEF DropOldest, senderVars
    <2>2. CASE queue = <<>>
      BY <2>1, <2>2 DEF InOrder, NotYetQueued, NewestKept
    <2>3. CASE queue # <<>>
      <3>1. queue' = Tail(queue)
        BY <2>1, <2>3
      <3>2. InOrder'
        BY <2>1, <2>3, <3>1, PopKeepsOrder DEF InOrder
      <3>3. NotYetQueued'
        BY <2>1, <2>3, <3>1, TailFacts DEF NotYetQueued
      <3> QED BY <2>1, <3>2, <3>3 DEF NewestKept
    <2> QED BY <2>2, <2>3
  <1>5. CASE SenderPop
    <2>1. CASE queue = <<>>
      BY <1>5, <2>1 DEF SenderPop, captureVars, InOrder, NotYetQueued, NewestKept
    <2>2. CASE queue # <<>>
      <3>1. /\ queue' = Tail(queue) /\ sent' = Head(queue)
            /\ UNCHANGED <<capture, captured>>
        BY <1>5, <2>2 DEF SenderPop, captureVars
      <3>2. InOrder'
        BY <2>2, <3>1, PopKeepsOrder DEF InOrder
      <3>3. NotYetQueued'
        BY <2>2, <3>1, TailFacts DEF NotYetQueued
      <3>4. NewestKept'
        <4>1. CASE Len(queue) = 1
          <5>1. Head(queue) = queue[1] /\ queue[Len(queue)] = queue[1]
            BY <2>2, <4>1, TailFacts
          <5>2. sent < queue[1] /\ queue[1] <= captured
            BY <4>1 DEF InOrder, NotYetQueued
          <5>3. sent \in Nat /\ captured \in Nat /\ queue[1] \in Nat
            BY <2>2, TailFacts
          <5>4. sent # captured
            BY <5>2, <5>3
          <5>5. capture \notin {"push", "full"} => captured = 0 \/ queue[1] = captured
            BY <2>2, <5>1, <5>4 DEF NewestKept
          <5> QED BY <3>1, <5>1, <5>5 DEF NewestKept
        <4>2. CASE Len(queue) # 1
          <5>1. /\ Len(queue') = Len(queue) - 1 /\ Len(queue') \in 1 .. Len(queue)
                /\ queue'[Len(queue')] = queue[Len(queue)] /\ queue' # <<>>
            <6>1. Len(queue) >= 1 /\ Len(queue) \in Nat /\ Len(Tail(queue)) = Len(queue) - 1
                  /\ \A i \in 1 .. Len(Tail(queue)) : Tail(queue)[i] = queue[i + 1]
              BY <2>2, TailFacts
            <6>2. Len(queue') = Len(queue) - 1
              BY <3>1, <6>1
            <6>3. Len(queue') \in 1 .. Len(queue') /\ Len(queue') + 1 = Len(queue)
              BY <4>2, <6>1, <6>2
            <6>4. queue' # <<>>
              BY <6>3
            <6> QED BY <3>1, <6>1, <6>3, <6>4
          <5>2. sent # captured
            BY <2>2, <5>1, TailFacts DEF InOrder, NotYetQueued
          <5> QED BY <3>1, <5>1, <5>2 DEF NewestKept
        <4> QED BY <4>1, <4>2
      <3> QED BY <3>2, <3>3, <3>4
    <2> QED BY <2>1, <2>2
  <1> QED BY <1>1, <1>2, <1>3, <1>4, <1>5 DEF QueueStep

LEMMA WakeupPendingStep ==
    ASSUME IInv, [Next]_vars
    PROVE  WakeupPending'
  <1> USE DEF IInv, WakeupPending
  <1>1. CASE Capture \/ CaptureFails
    <2>1. UNCHANGED <<sender, senderSet, producerAlive, control>>
      BY <1>1 DEF Capture, CaptureCheckStop, CaptureEvent, CaptureFails, CapturePacket, PushChunk,
                  DropOldest, UnparkSender, pipeVars, controlVars, senderVars
    <2>2. CASE UnparkSender
      BY <2>1, <2>2, UnparkFacts DEF UnparkSender
    <2>3. CASE PushChunk
      <3>1. CASE Len(queue) < Capacity
        BY <2>1, <2>3, <3>1 DEF PushChunk
      <3>2. CASE ~(Len(queue) < Capacity)
        BY <2>1, <2>3, <3>2 DEF PushChunk
      <3> QED BY <3>1, <3>2
    <2>4. CASE DropOldest
      BY <2>1, <2>4 DEF DropOldest
    <2>5. CASE CaptureCheckStop \/ CaptureEvent \/ CapturePacket \/ CaptureFails
      BY <2>1, <2>5 DEF CaptureCheckStop, CaptureEvent, CapturePacket, CaptureFails, pipeVars
    <2> QED BY <1>1, <2>2, <2>3, <2>4, <2>5 DEF Capture
  <1>2. CASE Control
    <2>1. UNCHANGED <<queue, sender, senderSet>>
      BY <1>2 DEF Control, ControlStart, ControlRecv, ControlDrop, ControlNothingToDrop,
                  ControlJoin, ControlRespawn, ControlExit, ControlExitUnpark, pipeVars,
                  senderVars
    <2>2. CASE ControlExitUnpark
      BY <2>1, <2>2, UnparkFacts DEF ControlExitUnpark, captureVars
    <2>3. CASE ControlExit
      BY <2>1, <2>3 DEF ControlExit, captureVars
    <2>4. CASE ~(ControlExitUnpark \/ ControlExit)
      <3>1. UNCHANGED <<producerAlive, token>> /\ (capture' = capture \/ capture # "unpark")
            /\ control # "exitUnpark"
        BY <1>2, <2>4 DEF Control, ControlStart, ControlRecv, ControlDrop, ControlNothingToDrop,
                          ControlJoin, ControlRespawn, OneCapture, pipeVars, captureVars
      <3> QED BY <2>1, <3>1
    <2> QED BY <2>2, <2>3, <2>4
  <1>3. CASE Caller \/ Supervisor \/ WatcherStarts \/ DeviceChanges \/ StopSession \/ UNCHANGED vars
    BY <1>3, WakeupLeftAlone
  <1>4. CASE Sender \/ SenderSpuriousWake \/ SenderSendFails
    BY <1>4 DEF Sender, SenderSet, SenderBind, SenderPop, SenderCheckAlive, SenderPark, SenderSend,
                SenderSpuriousWake, SenderSendFails, pipeVars, captureVars, controlVars
  <1> QED BY <1>1, <1>2, <1>3, <1>4 DEF Next, Finished

-----------------------------------------------------------------------------
(* Theorems                                                                 *)

LEMMA InitIInv == Init => IInv
  <1> SUFFICES ASSUME Init PROVE IInv
    OBVIOUS
  <1>1. queue = <<>> /\ queue \in Seq(1 .. MaxChunks) /\ Len(queue) = 0
    BY DEF Init
  <1>2. QueueType /\ captured \in 0 .. MaxChunks /\ sent \in 0 .. MaxChunks
    BY <1>1, CapacityAssumption, BoundsAssumption DEF Init, QueueType
  <1>3. FlagsType /\ PlacesType
    BY DEF Init, FlagsType, PlacesType
  <1>4. CountersType
    BY BoundsAssumption DEF Init, CountersType
  <1>5. OneCapture /\ QueueInv /\ WakeupPending
    BY <1>1 DEF Init, OneCapture, QueueInv, InOrder, NotYetQueued, NewestKept, WakeupPending
  <1> QED BY <1>2, <1>3, <1>4, <1>5, TypeOKSplit DEF IInv

LEMMA Inductive == Spec => []IInv
  <1>1. IInv /\ [Next]_vars => IInv'
    BY TypeStep, OneCaptureStep, QueueInvStep, WakeupPendingStep DEF IInv
  <1> QED BY InitIInv, <1>1, PTL DEF Spec

\* Whatever the sender and the overwriting producer pop at the same time: the
\* queue keeps within its capacity and in the order of capture, no chunk is
\* taken twice, and a chunk pushed is the newest there is until it is sent
\* (push_latest_pcm, try_recv_pcm).
THEOREM QueueRightHolds == Spec => []QueueRight
  <1>1. IInv => QueueRight
    BY DEF IInv, QueueInv, QueueRight
  <1> QED BY Inductive, <1>1, PTL

\* The sender never sleeps on a queued chunk or on the producer's end without
\* a token or somebody about to unpark it (recv_pcm_wait, unpark_sender).
THEOREM NoLostWakeupHolds == Spec => []NoLostWakeup
  <1>1. IInv => NoLostWakeup
    BY DEF IInv, WakeupPending, NoLostWakeup
  <1> QED BY Inductive, <1>1, PTL
=============================================================================
