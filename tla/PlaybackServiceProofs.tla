----------------------- MODULE PlaybackServiceProofs -----------------------
(***************************************************************************)
(* Proofs about PlaybackService, for any number of intents: what is opened    *)
(* is closed and what is started is stopped when all threads have ended, with *)
(* the exceptions the properties name, and the end of a playback is reported. *)
(*                                                                         *)
(* Each rests on somebody who still has it to do: what is open belongs to a   *)
(* thread that will close it, what the server streams to a thread that will  *)
(* stop it, and where the app has not been told, the main thread, the flag,   *)
(* or a thread at its notification will see to it.                          *)
(***************************************************************************)
EXTENDS PlaybackService, TLAPS

-----------------------------------------------------------------------------
(* The inductive invariant                                                  *)

\* There is an instance, made by an intent, where something is to be handled by it, and a
\* thread has one.
Attached ==
    /\ playbackThread # 0 \/ stopSelf => instance # 0
    /\ instance # 0 => intents # 0
    /\ \A t \in Intents : pc[t] # "unborn" => home[t] # 0

\* The thread of a START is new.
Fresh ==
    /\ \A t \in Intents : t > intents => pc[t] = "unborn"
    /\ main # "idle" /\ cause = "START" => pc[intents] = "unborn"

\* Where a thread has resources of its stage open.
Holding == {"start", "stream", "stopWarmup", "close"}

\* What was opened for a stage is that of a thread at that stage, which will close it.
HeldOpen ==
    \A t \in Intents, s \in {"warmup", "playback"} :
        <<t, s>> \in open => stage[t] = s /\ pc[t] \in Holding

\* Where a thread still has a STOP_UDP to send, should the server stream to it.
Stopping == {"open", "start", "stream", "stopWarmup", "close", "catch", "notify", "stopPlayback"}

\* While the server streams there is a thread that will stop it, unless a STOP_UDP
\* failed or the stream was begun late.
StreamOwned ==
    streaming /\ ~lostStop /\ ~late => \E t \in Intents : pc[t] \in Stopping

\* A thread of the instance is about to report its end.
Notifying == \E t \in Intents : pc[t] = "notify" /\ home[t] = instance

\* Where a stop is not reported, it is yet to happen or about to be reported.
ReportPending ==
    /\ intents = 0 => \A i \in Intents : ~notified[i]
    /\ intents > 0 /\ ~told =>
          /\ instance # 0 /\ ~notified[instance]
          /\ main # "idle" \/ running[instance] \/ Notifying

IInv ==
    /\ TypeOK
    /\ Attached /\ Fresh /\ HeldOpen /\ StreamOwned /\ ReportPending

-----------------------------------------------------------------------------
(* Kinds of steps                                                           *)

Places == {"unborn", "loop", "open", "start", "stream", "stopWarmup", "close",
           "catch", "notify", "stopPlayback", "closeField", "clearField", "dead"}

MainType ==
    /\ intents \in 0 .. MaxIntents /\ instance \in 0 .. MaxIntents
    /\ main \in {"idle", "stop", "close", "clear", "join"}
    /\ cause \in {"none", "START", "STOP", "DESTROY"}
    /\ main # "idle" => instance # 0
    /\ playbackThread \in 0 .. MaxIntents

ServiceType ==
    /\ stopSelf \in BOOLEAN /\ told \in BOOLEAN
    /\ running \in [Intents -> BOOLEAN] /\ notified \in [Intents -> BOOLEAN]
    /\ field \in [Intents -> Resources \cup Tracks \cup {None}]

ThreadType ==
    /\ pc \in [Intents -> Places]
    /\ home \in [Intents -> 0 .. MaxIntents]
    /\ stage \in [Intents -> {"warmup", "playback"}]
    /\ error \in [Intents -> {"none", "timeout", "other"}]

NetType ==
    /\ open \subseteq Resources \cup Tracks
    /\ streaming \in BOOLEAN /\ late \in BOOLEAN /\ lostStop \in BOOLEAN
    /\ pending \subseteq {"START_UDP", "STOP_UDP"}

LEMMA TypeParts == TypeOK <=> MainType /\ ServiceType /\ ThreadType /\ NetType
  BY DEF TypeOK, MainType, ServiceType, ThreadType, NetType, Places

\* The steps of the main thread that begin to handle something.
Receives == ReceiveStart \/ ReceiveStop \/ ReceiveDeviceChange \/ ReceiveDestroy

\* What a playback thread may do.
ThreadStep(t) == Thread(t) \/ OpenFails(t) \/ StreamTimesOut(t) \/ StreamBreaks(t)

\* What the server may do after the client gave up.
LateStep == \E command \in pending : ExecuteLate(command)

\* It concerns the server only.
LEMMA LateMoves ==
    ASSUME LateStep
    PROVE  /\ UNCHANGED <<mainVars, serviceVars, threadVars, open>>
           /\ pending' \subseteq pending
           /\ streaming' \in BOOLEAN /\ late' \in BOOLEAN /\ lostStop' = FALSE
           /\ streaming' => late'
  BY DEF LateStep, ExecuteLate, Execute

LEMMA StepKinds ==
    ASSUME [Next]_vars
    PROVE  \/ Receives \/ MainContinues \/ UNCHANGED vars
           \/ \E t \in Intents : ThreadStep(t)
           \/ LateStep
  BY DEF Next, Main, Receives, ThreadStep, LateStep, Finished

\* A step of a playback thread is that of one that lives, and moves nobody else.
LEMMA ThreadMoves ==
    ASSUME ThreadType, NEW t \in Intents, ThreadStep(t)
    PROVE  /\ pc[t] \notin {"unborn", "dead"} /\ pc'[t] \in Places \ {"unborn"}
           /\ pc' = [pc EXCEPT ![t] = pc'[t]] /\ home' = home
           /\ stage' = [stage EXCEPT ![t] = stage'[t]]
           /\ UNCHANGED mainVars
  <1> USE DEF Goto, ThreadType, Places
  <1>1. CASE Loop(t) \/ Open(t) \/ OpenFails(t) \/ Start(t)
    BY <1>1 DEF Loop, Open, OpenFails, Start
  <1>2. CASE StreamEnds(t) \/ StreamTimesOut(t) \/ StreamBreaks(t) \/ StopWarmup(t)
    BY <1>2 DEF StreamEnds, StreamTimesOut, StreamBreaks, StopWarmup, StreamEnd
  <1>3. CASE CloseOwn(t)
    BY <1>3 DEF CloseOwn
  <1>4. CASE Catch(t)
    BY <1>4 DEF Catch
  <1>5. CASE ThreadNotifies(t) \/ StopPlayback(t) \/ ThreadClosesField(t) \/ ThreadClearsField(t)
    BY <1>5 DEF ThreadNotifies, StopPlayback, ThreadClosesField, ThreadClearsField
  <1> QED BY <1>1, <1>2, <1>3, <1>4, <1>5 DEF ThreadStep, Thread

-----------------------------------------------------------------------------
(* Types                                                                    *)

LEMMA MainTypeStep ==
    ASSUME IInv, [Next]_vars
    PROVE  MainType'
  <1> USE MaxIntentsAssumption
  <1>0. MainType /\ ThreadType /\ Attached
    BY TypeParts DEF IInv
  <1>1. CASE Receives
    BY <1>0, <1>1 DEF Receives, ReceiveStart, ReceiveStop, ReceiveDeviceChange, ReceiveDestroy,
                      Receive, Called, MainType, Attached
  <1>2. CASE StopRunning \/ CloseField \/ ClearField
    BY <1>0, <1>2 DEF StopRunning, CloseField, ClearField, MainGoto, MainType
  <1>3. CASE BeginPlayback \/ FinishStop
    BY <1>0, <1>3 DEF BeginPlayback, FinishStop, MainType
  <1>4. CASE UNCHANGED vars
    BY <1>0, <1>4 DEF vars, mainVars, MainType
  <1>5. CASE \E t \in Intents : ThreadStep(t)
    BY <1>0, <1>5, ThreadMoves DEF mainVars, MainType
  <1>6. CASE LateStep
    BY <1>0, <1>6, LateMoves DEF mainVars, MainType
  <1> QED BY <1>1, <1>2, <1>3, <1>4, <1>5, <1>6, StepKinds DEF MainContinues

LEMMA NotifyType ==
    ASSUME NEW i, ServiceType, NotifyPlaybackStopped(i)
    PROVE  notified' \in [Intents -> BOOLEAN] /\ told' \in BOOLEAN
  <1>1. notified' \in [Intents -> BOOLEAN]
    BY DEF ServiceType, NotifyPlaybackStopped
  <1>2. told' \in BOOLEAN
    BY Zenon DEF NotifyPlaybackStopped
  <1> QED BY <1>1, <1>2

LEMMA StopSelfType ==
    ASSUME NEW t, ThreadNotifies(t)
    PROVE  stopSelf' \in BOOLEAN
  BY Zenon DEF ThreadNotifies

LEMMA ResourceType ==
    ASSUME ThreadType, NEW t \in Intents
    PROVE  Resource(t) \in Resources /\ TrackOnly(t) \in Tracks
  BY DEF ThreadType, Resource, Resources, Tracks

LEMMA ServiceTypeStep ==
    ASSUME IInv, [Next]_vars
    PROVE  ServiceType'
  <1>0. MainType /\ ServiceType /\ ThreadType
    BY TypeParts DEF IInv
  <1>1. CASE Receives
    BY <1>0, <1>1 DEF Receives, ReceiveStart, ReceiveStop, ReceiveDeviceChange, ReceiveDestroy,
                      Called, serviceVars, ServiceType
  <1>2. CASE StopRunning \/ CloseField \/ ClearField \/ BeginPlayback
    BY <1>0, <1>2 DEF StopRunning, CloseField, ClearField, BeginPlayback, serviceVars, ServiceType
  <1>3. CASE FinishStop
    <2>1. stopSelf' \in BOOLEAN
      BY <1>3 DEF FinishStop
    <2>2. notified' \in [Intents -> BOOLEAN] /\ told' \in BOOLEAN
      BY <1>0, <1>3, NotifyType DEF FinishStop
    <2> QED BY <1>0, <1>3, <2>1, <2>2 DEF FinishStop, ServiceType
  <1>4. CASE UNCHANGED vars
    BY <1>0, <1>4 DEF vars, serviceVars, ServiceType
  <1>5. ASSUME NEW t \in Intents, ThreadStep(t)
        PROVE  ServiceType'
    <2>1. CASE Loop(t) \/ Start(t) \/ StreamEnds(t) \/ StreamTimesOut(t) \/ StreamBreaks(t) \/ StopWarmup(t)
               \/ StopPlayback(t) \/ ThreadClosesField(t)
      BY <1>0, <2>1 DEF Loop, Start, StreamEnds, StreamTimesOut, StreamBreaks, StopWarmup,
                        StopPlayback, ThreadClosesField, serviceVars, ServiceType
    <2>2. CASE Open(t) \/ OpenFails(t)
      BY <1>0, <2>2, ResourceType DEF Open, OpenFails, ServiceType
    <2>3. CASE CloseOwn(t) \/ ThreadClearsField(t)
      BY <1>0, <2>3 DEF CloseOwn, ThreadClearsField, ServiceType
    <2>4. CASE Catch(t)
      BY <1>0, <2>4 DEF Catch, ServiceType
    <2>5. CASE ThreadNotifies(t)
      <3>1. notified' \in [Intents -> BOOLEAN] /\ told' \in BOOLEAN
        BY <1>0, <2>5, NotifyType DEF ThreadNotifies
      <3> QED BY <1>0, <2>5, <3>1, StopSelfType DEF ThreadNotifies, ServiceType
    <2> QED BY <1>5, <2>1, <2>2, <2>3, <2>4, <2>5 DEF ThreadStep, Thread
  <1>6. CASE LateStep
    BY <1>0, <1>6, LateMoves DEF serviceVars, ServiceType
  <1> QED BY <1>1, <1>2, <1>3, <1>4, <1>5, <1>6, StepKinds DEF MainContinues

LEMMA ThreadTypeStep ==
    ASSUME IInv, [Next]_vars
    PROVE  ThreadType'
  <1>0. MainType /\ ThreadType
    BY TypeParts DEF IInv
  <1>1. CASE Receives
    BY <1>0, <1>1 DEF Receives, ReceiveStart, ReceiveStop, ReceiveDeviceChange, ReceiveDestroy,
                      Called, threadVars, ThreadType
  <1>2. CASE StopRunning \/ CloseField \/ ClearField \/ FinishStop
    BY <1>0, <1>2 DEF StopRunning, CloseField, ClearField, FinishStop, threadVars, ThreadType
  <1>3. CASE BeginPlayback
    BY <1>0, <1>3 DEF BeginPlayback, threadVars, ThreadType, MainType, Places
  <1>4. CASE UNCHANGED vars
    BY <1>0, <1>4 DEF vars, threadVars, ThreadType
  <1>5. ASSUME NEW t \in Intents, ThreadStep(t)
        PROVE  ThreadType'
    <2>1. pc' \in [Intents -> Places] /\ home' \in [Intents -> 0 .. MaxIntents]
      BY <1>0, <1>5, ThreadMoves DEF ThreadType
    <2>2. stage' \in [Intents -> {"warmup", "playback"}]
      BY <1>0, <1>5 DEF ThreadStep, Thread, Loop, Open, OpenFails, Start, StreamEnds,
                        StreamTimesOut, StreamBreaks, StopWarmup, CloseOwn, Catch, ThreadNotifies,
                        StopPlayback, ThreadClosesField, ThreadClearsField, ThreadType
    <2>3. error' \in [Intents -> {"none", "timeout", "other"}]
      BY <1>0, <1>5 DEF ThreadStep, Thread, Loop, Open, OpenFails, Start, StreamEnds,
                        StreamTimesOut, StreamBreaks, StopWarmup, CloseOwn, Catch, ThreadNotifies,
                        StopPlayback, ThreadClosesField, ThreadClearsField, ThreadType, Raise
    <2> QED BY <2>1, <2>2, <2>3 DEF ThreadType
  <1>6. CASE LateStep
    BY <1>0, <1>6, LateMoves DEF threadVars, ThreadType
  <1> QED BY <1>1, <1>2, <1>3, <1>4, <1>5, <1>6, StepKinds DEF MainContinues

LEMMA NetTypeStep ==
    ASSUME IInv, [Next]_vars
    PROVE  NetType'
  <1>0. ThreadType /\ NetType
    BY TypeParts DEF IInv
  <1>1. CASE Receives \/ MainContinues
    BY <1>0, <1>1 DEF Receives, ReceiveStart, ReceiveStop, ReceiveDeviceChange, ReceiveDestroy,
                      Called, MainContinues, StopRunning, CloseField, ClearField, BeginPlayback,
                      FinishStop, netVars, controlVars, NetType
  <1>2. CASE UNCHANGED vars
    BY <1>0, <1>2 DEF vars, netVars, controlVars, NetType
  <1>3. ASSUME NEW t \in Intents, ThreadStep(t)
        PROVE  NetType'
    <2>1. CASE Open(t) \/ OpenFails(t)
      BY <1>0, <1>3, <2>1, ResourceType DEF Open, OpenFails, controlVars, NetType
    <2>2. CASE Start(t)
      BY <1>0, <2>2 DEF Start, Execute, GiveUpOn, NetType
    <2>3. CASE StopWarmup(t) \/ StopPlayback(t)
      BY <1>0, <2>3 DEF StopWarmup, StopPlayback, ExecuteStop, Execute, GiveUpOn, NetType
    <2>4. CASE CloseOwn(t) \/ ThreadClosesField(t)
      BY <1>0, <2>4 DEF CloseOwn, ThreadClosesField, controlVars, NetType
    <2>5. CASE Loop(t) \/ StreamEnds(t) \/ StreamTimesOut(t) \/ StreamBreaks(t) \/ Catch(t)
               \/ ThreadNotifies(t) \/ ThreadClearsField(t)
      BY <1>0, <2>5 DEF Loop, StreamEnds, StreamTimesOut, StreamBreaks, Catch, ThreadNotifies,
                        ThreadClearsField, netVars, controlVars, NetType
    <2> QED BY <1>3, <2>1, <2>2, <2>3, <2>4, <2>5 DEF ThreadStep, Thread
  <1>4. CASE LateStep
    BY <1>0, <1>4, LateMoves DEF NetType
  <1> QED BY <1>1, <1>2, <1>3, <1>4, StepKinds

-----------------------------------------------------------------------------
(* The parts of the invariant                                               *)

\* The new thread of a START was not there before, and is the only one that moves.
LEMMA BeginMoves ==
    ASSUME IInv, BeginPlayback
    PROVE  /\ intents \in Intents /\ instance \in Intents /\ pc[intents] = "unborn"
           /\ pc' = [pc EXCEPT ![intents] = "loop"] /\ home' = [home EXCEPT ![intents] = instance]
           /\ UNCHANGED <<intents, instance, stage, told, notified, stopSelf, netVars>>
           /\ playbackThread' = intents /\ main' = "idle"
           /\ running' = [running EXCEPT ![instance] = TRUE]
  <1>1. MainType
    BY TypeParts DEF IInv
  <1>2. intents \in Intents /\ instance \in Intents
    BY <1>1 DEF BeginPlayback, Join, MainType, IInv, Attached, Intents
  <1> QED BY <1>2 DEF BeginPlayback, Join, IInv, Fresh

LEMMA AttachedStep ==
    ASSUME IInv, [Next]_vars
    PROVE  Attached'
  <1> USE MaxIntentsAssumption
  <1>0. MainType /\ ThreadType /\ Attached
    BY TypeParts DEF IInv
  <1>1. CASE Receives
    <2>1. CASE ReceiveStart \/ ReceiveStop
      BY <1>0, <2>1 DEF ReceiveStart, ReceiveStop, Receive, MainType, Attached, threadVars,
                        serviceVars
    <2>2. CASE ReceiveDeviceChange \/ ReceiveDestroy
      BY <1>0, <2>2 DEF ReceiveDeviceChange, ReceiveDestroy, Called, Attached, threadVars,
                        serviceVars
    <2> QED BY <1>1, <2>1, <2>2 DEF Receives
  <1>2. CASE StopRunning \/ CloseField \/ ClearField
    BY <1>0, <1>2 DEF StopRunning, CloseField, ClearField, MainGoto, Attached, threadVars,
                      serviceVars
  <1>3. CASE BeginPlayback
    BY <1>0, <1>3, BeginMoves DEF Attached, ThreadType, MainType, Intents
  <1>4. CASE FinishStop
    <2>1. stopSelf' => instance' # 0
      BY <1>0, <1>4 DEF FinishStop, Join, MainType
    <2> QED BY <1>0, <1>4, <2>1 DEF FinishStop, Attached, threadVars
  <1>5. CASE UNCHANGED vars
    BY <1>0, <1>5 DEF vars, mainVars, threadVars, serviceVars, Attached
  <1>6. ASSUME NEW t \in Intents, ThreadStep(t)
        PROVE  Attached'
    <2>1. /\ UNCHANGED mainVars
          /\ \A u \in Intents : pc'[u] # "unborn" => home'[u] # 0
      BY <1>0, <1>6, ThreadMoves DEF Attached, ThreadType
    <2>2. stopSelf' => stopSelf \/ home[t] = instance
      <3>1. CASE ThreadNotifies(t)
        BY <3>1 DEF ThreadNotifies
      <3>2. CASE ~ThreadNotifies(t)
        BY <1>6, <3>2 DEF ThreadStep, Thread, Loop, Open, OpenFails, Start, StreamEnds,
                          StreamTimesOut, StreamBreaks, StopWarmup, CloseOwn, Catch, StopPlayback,
                          ThreadClosesField, ThreadClearsField, serviceVars
      <3> QED BY <3>1, <3>2
    <2>3. home[t] # 0
      BY <1>0, <1>6, ThreadMoves DEF Attached
    <2> QED BY <1>0, <2>1, <2>2, <2>3 DEF Attached, mainVars
  <1>7. CASE LateStep
    BY <1>0, <1>7, LateMoves DEF mainVars, threadVars, serviceVars, Attached
  <1> QED BY <1>1, <1>2, <1>3, <1>4, <1>5, <1>6, <1>7, StepKinds DEF MainContinues

LEMMA FreshStep ==
    ASSUME IInv, [Next]_vars
    PROVE  Fresh'
  <1> USE MaxIntentsAssumption
  <1>0. MainType /\ ThreadType /\ Attached /\ Fresh
    BY TypeParts DEF IInv
  <1>1. CASE Receives
    <2>1. pc' = pc
      BY <1>1 DEF Receives, ReceiveStart, ReceiveStop, ReceiveDeviceChange, ReceiveDestroy, Called,
                  threadVars
    <2>2. CASE cause' = "START"
      BY <1>0, <1>1, <2>1, <2>2 DEF Receives, ReceiveStart, ReceiveStop, ReceiveDeviceChange,
                                    ReceiveDestroy, Receive, Called, MainType, Fresh, Intents
    <2>3. CASE cause' # "START"
      BY <1>0, <1>1, <2>1, <2>3 DEF Receives, ReceiveStart, ReceiveStop, ReceiveDeviceChange,
                                    ReceiveDestroy, Receive, Called, MainType, Fresh, Intents
    <2> QED BY <2>2, <2>3
  <1>2. CASE StopRunning \/ CloseField \/ ClearField \/ FinishStop
    BY <1>0, <1>2 DEF StopRunning, CloseField, ClearField, FinishStop, Join, MainGoto, Fresh,
                      threadVars
  <1>3. CASE BeginPlayback
    BY <1>0, <1>3, BeginMoves DEF Fresh, ThreadType, MainType, Intents
  <1>4. CASE UNCHANGED vars
    BY <1>0, <1>4 DEF vars, mainVars, threadVars, Fresh
  <1>5. ASSUME NEW t \in Intents, ThreadStep(t)
        PROVE  Fresh'
    <2>1. UNCHANGED mainVars /\ pc[t] # "unborn" /\ \A u \in Intents : u # t => pc'[u] = pc[u]
      BY <1>0, <1>5, ThreadMoves DEF ThreadType
    <2>2. \A u \in Intents : pc[u] = "unborn" => pc'[u] = "unborn"
      BY <2>1
    <2>3. main # "idle" => intents \in Intents
      BY <1>0 DEF MainType, Attached, Intents
    <2> QED BY <1>0, <2>1, <2>2, <2>3 DEF Fresh, mainVars
  <1>6. CASE LateStep
    BY <1>0, <1>6, LateMoves DEF mainVars, threadVars, Fresh
  <1> QED BY <1>1, <1>2, <1>3, <1>4, <1>5, <1>6, StepKinds DEF MainContinues

LEMMA HeldOpenStep ==
    ASSUME IInv, [Next]_vars
    PROVE  HeldOpen'
  <1> SUFFICES ASSUME NEW u \in Intents, NEW s \in {"warmup", "playback"},
                      <<u, s>> \in open'
               PROVE  stage'[u] = s /\ pc'[u] \in Holding
    BY DEF HeldOpen
  <1>0. /\ ThreadType
        /\ <<u, s>> \in open => stage[u] = s /\ pc[u] \in Holding
    BY TypeParts DEF IInv, HeldOpen
  <1>1. CASE Receives \/ UNCHANGED vars
    BY <1>0, <1>1 DEF Receives, ReceiveStart, ReceiveStop, ReceiveDeviceChange, ReceiveDestroy,
                      Called, vars, threadVars, netVars
  <1>2. CASE StopRunning \/ CloseField \/ ClearField \/ FinishStop
    BY <1>0, <1>2 DEF StopRunning, CloseField, ClearField, FinishStop, threadVars, netVars
  <1>3. CASE BeginPlayback
    BY <1>0, <1>3, BeginMoves DEF ThreadType, netVars, Holding
  <1>4. ASSUME NEW t \in Intents, ThreadStep(t)
        PROVE  stage'[u] = s /\ pc'[u] \in Holding
    <2>1. CASE u # t
      <3>1. stage'[u] = stage[u] /\ pc'[u] = pc[u]
        BY <1>0, <1>4, <2>1, ThreadMoves DEF ThreadType
      <3>2. <<u, s>> \in open
        <4>1. CASE Open(t)
          BY <2>1, <4>1 DEF Open, Resource
        <4>2. CASE OpenFails(t)
          <5>1. <<u, s>> # TrackOnly(t)
            BY <2>1 DEF TrackOnly
          <5> QED BY <4>2, <5>1 DEF OpenFails
        <4>3. CASE ~Open(t) /\ ~OpenFails(t)
          BY <1>4, <4>3 DEF ThreadStep, Thread, Loop, Start, StreamEnds, StreamTimesOut,
                            StreamBreaks, StopWarmup, CloseOwn, Catch, ThreadNotifies,
                            StopPlayback, ThreadClosesField, ThreadClearsField, netVars
        <4> QED BY <4>1, <4>2, <4>3
      <3> QED BY <1>0, <3>1, <3>2
    <2>2. CASE u = t
      <3> USE DEF Holding, ThreadType, Goto, Places
      <3>1. CASE Open(t)
        BY <1>0, <2>2, <3>1 DEF Open, Resource
      <3>2. CASE OpenFails(t)
        BY <1>0, <2>2, <3>2 DEF OpenFails, TrackOnly
      <3>3. CASE Start(t) \/ StreamEnds(t) \/ StreamTimesOut(t) \/ StreamBreaks(t) \/ StopWarmup(t)
        BY <1>0, <2>2, <3>3 DEF Start, StreamEnds, StreamTimesOut, StreamBreaks, StopWarmup,
                                StreamEnd, netVars
      <3>4. CASE CloseOwn(t)
        BY <1>0, <2>2, <3>4 DEF CloseOwn, Resource
      <3>5. CASE Loop(t) \/ Catch(t) \/ ThreadNotifies(t) \/ StopPlayback(t) \/ ThreadClosesField(t)
                 \/ ThreadClearsField(t)
        BY <1>0, <2>2, <3>5 DEF Loop, Catch, ThreadNotifies, StopPlayback, ThreadClosesField,
                                ThreadClearsField, netVars
      <3> QED BY <1>4, <3>1, <3>2, <3>3, <3>4, <3>5 DEF ThreadStep, Thread
    <2> QED BY <2>1, <2>2
  <1>5. CASE LateStep
    BY <1>0, <1>5, LateMoves DEF threadVars
  <1> QED BY <1>1, <1>2, <1>3, <1>4, <1>5, StepKinds DEF MainContinues

LEMMA StreamOwnedStep ==
    ASSUME IInv, [Next]_vars
    PROVE  StreamOwned'
  <1> SUFFICES ASSUME streaming', ~lostStop', ~late' PROVE \E t \in Intents : pc'[t] \in Stopping
    BY DEF StreamOwned
  <1>0. ThreadType
    BY TypeParts DEF IInv
  <1>1. ASSUME UNCHANGED controlVars
        PROVE  \E t \in Intents : pc[t] \in Stopping
    BY <1>1 DEF controlVars, IInv, StreamOwned
  <1>2. CASE (Receives \/ UNCHANGED vars) \/ StopRunning \/ CloseField \/ ClearField \/ FinishStop
    <2>1. UNCHANGED <<pc, controlVars>>
      BY <1>2 DEF Receives, ReceiveStart, ReceiveStop, ReceiveDeviceChange, ReceiveDestroy, Called,
                  StopRunning, CloseField, ClearField, FinishStop, vars, threadVars, netVars
    <2> QED BY <1>1, <2>1
  <1>3. CASE BeginPlayback
    <2>1. PICK u \in Intents : pc[u] \in Stopping
      BY <1>1, <1>3, BeginMoves DEF netVars
    <2>2. pc'[u] = pc[u]
      BY <1>0, <1>3, <2>1, BeginMoves DEF Stopping, ThreadType
    <2> QED BY <2>1, <2>2
  <1>4. ASSUME NEW t \in Intents, ThreadStep(t)
        PROVE  \E u \in Intents : pc'[u] \in Stopping
    <2> USE DEF Stopping, ThreadType, Goto, Places
    <2>1. CASE Start(t)
      BY <1>0, <2>1 DEF Start
    <2>2. CASE StopWarmup(t) \/ StopPlayback(t)
      <3>1. ExecuteStop
        BY <2>2 DEF StopWarmup, StopPlayback
      <3>2. ~Execute("STOP_UDP", TRUE)
        BY DEF Execute
      <3>3. lostStop' = streaming /\ streaming' = streaming
        BY <3>1, <3>2, Zenon DEF ExecuteStop, GiveUpOn
      <3> QED BY <3>3, Zenon
    <2>3. CASE ~(Start(t) \/ StopWarmup(t) \/ StopPlayback(t))
      <3>1. UNCHANGED controlVars
        BY <1>4, <2>3 DEF ThreadStep, Thread, Loop, Open, OpenFails, StreamEnds, StreamTimesOut,
                          StreamBreaks, CloseOwn, Catch, ThreadNotifies, ThreadClosesField,
                          ThreadClearsField, netVars
      <3>2. PICK u \in Intents : pc[u] \in Stopping
        BY <1>1, <3>1
      <3>3. CASE u # t
        <4>1. pc'[u] = pc[u]
          BY <1>0, <1>4, <3>3, ThreadMoves
        <4> QED BY <3>2, <4>1
      <3>4. CASE u = t
        <4>1. CASE Open(t) \/ OpenFails(t) \/ StreamEnds(t) \/ StreamTimesOut(t) \/ StreamBreaks(t)
          BY <1>0, <4>1 DEF Open, OpenFails, StreamEnds, StreamTimesOut, StreamBreaks, StreamEnd
        <4>2. CASE CloseOwn(t) \/ Catch(t) \/ ThreadNotifies(t)
          BY <1>0, <4>2 DEF CloseOwn, Catch, ThreadNotifies
        <4>3. CASE Loop(t) \/ ThreadClosesField(t) \/ ThreadClearsField(t)
          BY <3>2, <3>4, <4>3 DEF Loop, ThreadClosesField, ThreadClearsField
        <4> QED BY <1>4, <2>3, <4>1, <4>2, <4>3 DEF ThreadStep, Thread
      <3> QED BY <3>3, <3>4
    <2> QED BY <2>1, <2>2, <2>3
  <1>5. CASE LateStep
    BY <1>5, LateMoves
  <1> QED BY <1>2, <1>3, <1>4, <1>5, StepKinds DEF MainContinues

\* Who notifies for the instance leaves the app told; who does for another one does not
\* touch the instance's flag.
LEMMA NotifyFacts ==
    ASSUME ServiceType, NEW i \in Intents, instance \in Intents, NotifyPlaybackStopped(i)
    PROVE  /\ ~notified[i] => told'
           /\ told => told'
           /\ i # instance => notified'[instance] = notified[instance]
  <1>1. (~notified[i] => told') /\ (told => told')
    BY Zenon DEF NotifyPlaybackStopped
  <1>2. i # instance => notified'[instance] = notified[instance]
    BY DEF NotifyPlaybackStopped, ServiceType
  <1> QED BY <1>1, <1>2

LEMMA ReportPendingStep ==
    ASSUME IInv, [Next]_vars
    PROVE  ReportPending'
  <1> USE MaxIntentsAssumption
  <1>0. /\ MainType /\ ServiceType /\ ThreadType /\ Attached /\ Fresh /\ ReportPending
        /\ (instance # 0 => instance \in Intents)
    BY TypeParts DEF IInv, MainType, Intents
  <1>1. CASE ReceiveStart
    <2>1. intents' # 0 /\ instance' # 0 /\ instance' \in Intents /\ main' # "idle"
      BY <1>0, <1>1 DEF ReceiveStart, Receive, MainType, Intents
    <2>2. ~notified'[instance']
      BY <1>0, <1>1, <2>1 DEF ReceiveStart, ServiceType
    <2> QED BY <2>1, <2>2 DEF ReportPending
  <1>2. CASE ReceiveStop
    <2>1. intents' > 0 /\ instance' \in Intents /\ main' = "stop" /\ UNCHANGED <<notified, told>>
          /\ (intents > 0 \/ intents = 0) /\ (instance # 0 => instance' = instance)
      BY <1>0, <1>2 DEF ReceiveStop, Receive, MainType, Intents, serviceVars
    <2>2. ~told => ~notified[instance']
      <3>1. CASE intents = 0
        BY <1>0, <2>1, <3>1 DEF ReportPending
      <3>2. CASE intents > 0
        BY <1>0, <2>1, <3>2 DEF ReportPending
      <3> QED BY <2>1, <3>1, <3>2
    <2>3. ~told' => ~notified'[instance']
      BY <2>1, <2>2
    <2>4. instance' # 0 /\ intents' # 0 /\ main' # "idle"
      BY <1>0, <1>2, <2>1 DEF Intents, ReceiveStop, Receive, MainType
    <2> QED BY <2>3, <2>4 DEF ReportPending
  <1>3. CASE ReceiveDeviceChange \/ ReceiveDestroy
    BY <1>0, <1>3 DEF ReceiveDeviceChange, ReceiveDestroy, Called, ReportPending, serviceVars
  <1>4. CASE StopRunning \/ CloseField \/ ClearField
    BY <1>0, <1>4 DEF StopRunning, CloseField, ClearField, MainGoto, ReportPending, serviceVars
  <1>5. CASE BeginPlayback
    <2>1. running'[instance']
      BY <1>0, <1>5, BeginMoves DEF ServiceType
    <2> QED BY <1>0, <1>5, <2>1, BeginMoves DEF ReportPending
  <1>6. CASE FinishStop
    <2>1. instance \in Intents /\ intents # 0 /\ intents' = intents
      BY <1>0, <1>6 DEF FinishStop, Join, MainType, Attached
    <2>2. told'
      <3>1. told \/ ~notified[instance]
        BY <1>0, <2>1 DEF ReportPending, MainType
      <3>2. NotifyPlaybackStopped(instance)
        BY <1>6 DEF FinishStop
      <3> QED BY <1>0, <2>1, <3>1, <3>2, NotifyFacts
    <2>3. intents' # 0
      BY <2>1
    <2> QED BY <2>2, <2>3, Zenon DEF ReportPending
  <1>7. CASE UNCHANGED vars
    BY <1>0, <1>7 DEF vars, mainVars, threadVars, serviceVars, ReportPending, Notifying
  <1>8. ASSUME NEW t \in Intents, ThreadStep(t)
        PROVE  ReportPending'
    <2>1. /\ UNCHANGED <<intents, instance, main, home>> /\ intents # 0
          /\ \A u \in Intents : u # t => pc'[u] = pc[u]
          /\ home[t] \in Intents
      <3>1. /\ UNCHANGED mainVars /\ home' = home /\ pc[t] # "unborn"
            /\ \A u \in Intents : u # t => pc'[u] = pc[u]
        BY <1>0, <1>8, ThreadMoves DEF ThreadType
      <3>2. intents # 0
        BY <1>0, <3>1 DEF Fresh, Intents
      <3>3. home[t] \in Intents
        BY <1>0, <3>1 DEF Attached, ThreadType, Intents
      <3> QED BY <3>1, <3>2, <3>3 DEF mainVars
    <2>2. CASE Catch(t)
      <3>1. UNCHANGED <<notified, told>>
        BY <2>2 DEF Catch
      <3>2. CASE running' = running
        <4>1. pc[t] = "catch"
          BY <2>2 DEF Catch
        <4>2. Notifying => Notifying'
          BY <1>0, <2>1, <4>1 DEF Notifying
        <4> QED BY <1>0, <2>1, <3>1, <3>2, <4>2 DEF ReportPending
      <3>3. CASE running' # running
        <4>1. /\ pc[t] = "catch" /\ pc'[t] = "notify"
              /\ running' = [running EXCEPT ![home[t]] = FALSE]
          BY <1>0, <2>2, <3>3 DEF Catch, Goto, ThreadType
        <4>2. CASE home[t] = instance
          BY <1>0, <2>1, <3>1, <4>1, <4>2 DEF ReportPending, Notifying
        <4>3. CASE home[t] # instance
          <5>1. instance \in Intents => running'[instance] = running[instance]
            BY <1>0, <4>1, <4>3 DEF ServiceType
          <5>2. Notifying => Notifying'
            BY <1>0, <2>1, <4>1 DEF Notifying
          <5> QED BY <1>0, <2>1, <3>1, <5>1, <5>2 DEF ReportPending
        <4> QED BY <4>2, <4>3
      <3> QED BY <3>2, <3>3
    <2>3. CASE ThreadNotifies(t)
      <3>1. /\ running' = running /\ NotifyPlaybackStopped(home[t])
        BY <2>3 DEF ThreadNotifies
      <3>2. ASSUME intents > 0, ~told'
            PROVE  /\ ~told /\ instance \in Intents /\ ~notified[instance] /\ home[t] # instance
                   /\ main # "idle" \/ running[instance] \/ Notifying
        <4>1. ~told
          BY <3>1, <3>2, Zenon DEF NotifyPlaybackStopped
        <4>2. /\ instance # 0 /\ ~notified[instance]
              /\ main # "idle" \/ running[instance] \/ Notifying
          BY <1>0, <3>2, <4>1 DEF ReportPending
        <4>3. home[t] # instance
          BY <1>0, <2>1, <3>1, <3>2, <4>2, NotifyFacts
        <4> QED BY <1>0, <4>1, <4>2, <4>3
      <3>3. ASSUME intents > 0, ~told'
            PROVE  /\ ~notified'[instance]
                   /\ Notifying => Notifying'
        BY <1>0, <2>1, <3>1, <3>2, <3>3, NotifyFacts DEF Notifying
      <3>4. ASSUME intents > 0, ~told'
            PROVE  main' # "idle" \/ running'[instance'] \/ Notifying'
        BY <2>1, <3>1, <3>2, <3>3, <3>4
      <3>5. intents > 0 /\ ~told' => instance' # 0 /\ ~notified'[instance']
        BY <2>1, <3>2, <3>3 DEF Intents
      <3> QED BY <2>1, <3>4, <3>5 DEF ReportPending
    <2>4. CASE ~Catch(t) /\ ~ThreadNotifies(t)
      <3>1. UNCHANGED <<running, notified, told>> /\ pc[t] # "notify"
        BY <1>8, <2>4 DEF ThreadStep, Thread, Loop, Open, OpenFails, Start, StreamEnds,
                          StreamTimesOut, StreamBreaks, StopWarmup, CloseOwn, StopPlayback,
                          ThreadClosesField, ThreadClearsField, serviceVars
      <3>2. Notifying => Notifying'
        BY <2>1, <3>1 DEF Notifying
      <3> QED BY <1>0, <2>1, <3>1, <3>2 DEF ReportPending
    <2> QED BY <2>2, <2>3, <2>4
  <1>9. CASE LateStep
    BY <1>0, <1>9, LateMoves DEF mainVars, threadVars, serviceVars, ReportPending, Notifying
  <1> QED
    BY <1>1, <1>2, <1>3, <1>4, <1>5, <1>6, <1>7, <1>8, <1>9, StepKinds DEF MainContinues, Receives

-----------------------------------------------------------------------------
(* The theorems                                                             *)

LEMMA InitInvariant == Init => IInv
  <1> SUFFICES ASSUME Init PROVE IInv
    OBVIOUS
  <1> USE MaxIntentsAssumption DEF Init
  <1>1. MainType
    BY DEF MainType
  <1>2. ServiceType
    BY DEF ServiceType
  <1>3. ThreadType
    BY DEF ThreadType, Places
  <1>4. NetType
    BY DEF NetType
  <1>5. Attached /\ Fresh /\ HeldOpen
    BY DEF Attached, Fresh, HeldOpen
  <1>6. StreamOwned
    BY DEF StreamOwned
  <1>7. ReportPending
    BY DEF ReportPending
  <1> QED BY <1>1, <1>2, <1>3, <1>4, <1>5, <1>6, <1>7, TypeParts DEF IInv

THEOREM Invariant == Spec => []IInv
  <1>1. IInv /\ [Next]_vars => IInv'
    <2> SUFFICES ASSUME IInv, [Next]_vars PROVE IInv'
      OBVIOUS
    <2>1. TypeOK'
      <3>1. MainType' /\ ServiceType' /\ ThreadType' /\ NetType'
        BY MainTypeStep, ServiceTypeStep, ThreadTypeStep, NetTypeStep
      <3> QED BY <3>1 DEF TypeOK, MainType, ServiceType, ThreadType, NetType, Places
    <2>2. Attached' /\ Fresh' /\ HeldOpen' /\ StreamOwned' /\ ReportPending'
      BY AttachedStep, FreshStep, HeldOpenStep, StreamOwnedStep, ReportPendingStep
    <2> QED BY <2>1, <2>2 DEF IInv
  <1> QED BY InitInvariant, <1>1, PTL DEF Spec

\* However threads overwrite and clear the fields of one another, no socket and no track
\* that was opened for a stage stays open when all have ended: playOneConnection closes
\* what it opened itself.
THEOREM NothingLeftOpenHolds == Spec => []NothingLeftOpen
  <1>1. IInv => NothingLeftOpen
    <2> SUFFICES ASSUME IInv, Quiet PROVE open \subseteq Tracks
      BY DEF NothingLeftOpen, IInv
    <2>1. \A t \in Intents, s \in {"warmup", "playback"} : <<t, s>> \notin open
      BY DEF IInv, HeldOpen, Holding, Quiet, Alive
    <2> SUFFICES ASSUME NEW r \in open, r \in Resources PROVE FALSE
      BY DEF IInv, TypeOK
    <2>2. PICK t \in Intents, s \in {"warmup", "playback"} : r = <<t, s>>
      BY DEF Resources
    <2> QED BY <2>1, <2>2
  <1> QED BY <1>1, Invariant, PTL

\* A playback that has ended was reported to the app since it was started:
\* playbackStoppedNotified, reset by a START, set by whoever reports first.
THEOREM StopReportedHolds == Spec => []StopReported
  <1>1. IInv => StopReported
    <2> SUFFICES ASSUME IInv, Quiet, intents > 0, \A i \in Intents : ~running[i] PROVE told
      BY DEF StopReported
    <2>1. ~Notifying /\ main = "idle"
      BY DEF Notifying, Quiet, Alive
    <2>2. instance # 0 => instance \in Intents
      BY DEF IInv, TypeOK, Intents
    <2> QED BY <2>1, <2>2 DEF IInv, ReportPending
  <1> QED BY <1>1, Invariant, PTL

\* The server streams no more when all threads have ended, unless a STOP_UDP was lost or
\* the stream was begun late: the finally of startPlayback sends one, whatever happened
\* before.
THEOREM ServerQuietHolds == Spec => []ServerQuiet
  <1>1. IInv => ServerQuiet
    BY DEF IInv, StreamOwned, Stopping, ServerQuiet, Quiet, Alive
  <1> QED BY <1>1, Invariant, PTL
=============================================================================
