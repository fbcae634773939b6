------------------------------ MODULE PcmPipe ------------------------------
(***************************************************************************)
(* One audio pipeline of the desktop server, audio_capture.rs: what          *)
(* spawn_speaker_loopback_udp_pipeline starts and everything that has to     *)
(* end when the session ends.                                              *)
(*                                                                         *)
(*   capture     the WASAPI loopback thread: waits for an endpoint event,    *)
(*               pushes PCM chunks into a bounded queue, dropping the oldest *)
(*               when it is full, and unparks the sender                   *)
(*   control     owns the capture thread; replaces it when told that the     *)
(*               default output device changed, ends it with the session     *)
(*   sender      pops chunks and sends them, parks when the queue is empty    *)
(*   supervisor  the tokio task that watches the sender, the device changes   *)
(*               and the stop channel                                       *)
(*   caller      spawn_speaker_loopback_udp_pipeline itself                *)
(*                                                                         *)
(* A chunk is its number.  The lock-free queue, the atomics and the park     *)
(* token are taken as sequentially consistent.                             *)
(***************************************************************************)
EXTENDS Naturals, Sequences

CONSTANTS
    Capacity,      \* PCM_QUEUE_CAPACITY
    MaxChunks,     \* bound: chunks captured
    MaxChanges,    \* bound: device changes while the pipeline lives
    EarlierChanges \* numbers of device changes before it was started

ASSUME CapacityAssumption == Capacity \in Nat \ {0}
ASSUME BoundsAssumption == MaxChunks \in Nat /\ MaxChanges \in Nat /\ EarlierChanges \subseteq Nat

VARIABLES
    queue,          \* PcmPipe.queue
    producerAlive,  \* PcmPipe.producer_alive
    senderSet,      \* PcmPipe.sender_thread is set
    token,          \* the sender's park token
    capture,        \* the capture thread: where it is; "none" if there is none
    capturedDevice, \* the output device it captures
    captureStop,    \* LoopbackStreams.stop
    captured,       \* number of the last chunk captured
    control,        \* the control thread: where it is
    restarts,       \* messages in the restart channel
    restartTx,      \* the restart channel has a sender
    caller,
    sender, sent,   \* the sender thread: where it is, last chunk popped
    supervisor,
    watcher,        \* the device watcher thread, which holds the channel's sender
    device,         \* the default output device
    deviceVersion,  \* the watch channel of device changes
    seenVersion,    \* the version this pipeline's receiver has seen
    changes,        \* device changes since the pipeline was started
    stopSignal      \* the session's stop channel says true, or is closed

pipeVars == <<queue, producerAlive, senderSet, token>>
captureVars == <<capture, capturedDevice, captureStop, captured>>
controlVars == <<control, restarts, restartTx>>
senderVars == <<sender, sent>>
watchVars == <<watcher, device, deviceVersion, seenVersion, changes, stopSignal>>
vars == <<pipeVars, captureVars, controlVars, caller, senderVars, supervisor, watchVars>>

Unpark == token' = (token \/ senderSet)

\* Each session is given a clone of a receiver nobody ever reads from, so what
\* it has seen is version 0 whatever happened before.
Init ==
    /\ queue = <<>> /\ producerAlive = TRUE /\ senderSet = FALSE /\ token = FALSE
    /\ capture = "none" /\ capturedDevice = 0 /\ captureStop = FALSE /\ captured = 0
    /\ control = "start" /\ restarts = 0 /\ restartTx = TRUE
    /\ caller = "startup"
    /\ sender = "unborn" /\ sent = 0
    /\ supervisor = "unborn"
    /\ deviceVersion \in EarlierChanges /\ seenVersion = 0
    /\ device = deviceVersion
    /\ watcher \in {"starting", "running"} /\ (deviceVersion > 0 => watcher = "running")
    /\ changes = 0 /\ stopSignal = FALSE

-----------------------------------------------------------------------------
(* The capture thread: run_wasapi_loopback and push_latest_pcm              *)

\* The head of the event loop.
CaptureCheckStop ==
    /\ capture = "run"
    /\ capture' = IF captureStop THEN "dead" ELSE "wait"
    /\ UNCHANGED <<pipeVars, capturedDevice, captureStop, captured, controlVars, caller, senderVars, supervisor, watchVars>>

\* WaitForMultipleObjects: the capture event, or the render event.
CaptureEvent ==
    /\ capture = "wait"
    /\ capture' \in {"packets", "run"}
    /\ UNCHANGED <<pipeVars, capturedDevice, captureStop, captured, controlVars, caller, senderVars, supervisor, watchVars>>

\* A WASAPI call fails: the thread ends, and nobody is told.
CaptureFails ==
    /\ capture \in {"wait", "packets"}
    /\ capture' = "dead"
    /\ UNCHANGED <<pipeVars, capturedDevice, captureStop, captured, controlVars, caller, senderVars, supervisor, watchVars>>

\* process_capture_packets: the next packet, or no more.
CapturePacket ==
    /\ capture = "packets"
    /\ \/ capture' = "run" /\ UNCHANGED captured
       \/ captured < MaxChunks /\ captured' = captured + 1 /\ capture' = "push"
    /\ UNCHANGED <<pipeVars, capturedDevice, captureStop, controlVars, caller, senderVars, supervisor, watchVars>>

PushChunk ==
    /\ capture = "push"
    /\ IF Len(queue) < Capacity
       THEN queue' = Append(queue, captured) /\ capture' = "unpark"
       ELSE capture' = "full" /\ UNCHANGED queue
    /\ UNCHANGED <<producerAlive, senderSet, token, capturedDevice, captureStop, captured, controlVars, caller,
                   senderVars, supervisor, watchVars>>

\* Mutant of DropOldest: the refused chunk is given up.
DropRefused ==
    /\ capture = "full"
    /\ capture' = "packets"
    /\ UNCHANGED <<queue, producerAlive, senderSet, token, capturedDevice, captureStop, captured, controlVars, caller,
                   senderVars, supervisor, watchVars>>

\* The pop after a refused push; the sender may have made room meanwhile.
DropOldest ==
    /\ capture = "full"
    /\ queue' = IF queue = <<>> THEN queue ELSE Tail(queue)
    /\ capture' = "push"
    /\ UNCHANGED <<producerAlive, senderSet, token, capturedDevice, captureStop, captured, controlVars, caller,
                   senderVars, supervisor, watchVars>>

\* Mutant of UnparkSender: no unpark after a push.
UnparkSenderNot ==
    /\ capture = "unpark"
    /\ capture' = "packets"
    /\ UNCHANGED <<pipeVars, capturedDevice, captureStop, captured, controlVars, caller, senderVars, supervisor, watchVars>>

UnparkSender ==
    /\ capture = "unpark"
    /\ Unpark
    /\ capture' = "packets"
    /\ UNCHANGED <<queue, producerAlive, senderSet, capturedDevice, captureStop, captured, controlVars, caller,
                   senderVars, supervisor, watchVars>>

Capture ==
    \/ CaptureCheckStop \/ CaptureEvent \/ CapturePacket
    \/ PushChunk \/ DropOldest \/ UnparkSender

-----------------------------------------------------------------------------
(* The control thread: spawn_capture_control_thread                         *)

\* spawn_speaker_loopback_stream returns when the capture thread has reported
\* its startup, and joins it if that failed; it captures what is the default
\* device then.
SpawnCapture(ok) ==
    IF ok THEN capture' = "run" /\ captureStop' = FALSE /\ capturedDevice' = device
          ELSE capture' = "none" /\ UNCHANGED <<captureStop, capturedDevice>>

ControlStart ==
    /\ control = "start"
    /\ \E ok \in BOOLEAN : SpawnCapture(ok) /\ control' = IF ok THEN "recv" ELSE "exit"
    /\ UNCHANGED <<pipeVars, captured, restarts, restartTx, caller, senderVars, supervisor, watchVars>>

\* restart_rx.recv(): a restart, or the end once the channel is empty and
\* its sender is gone.
ControlRecv ==
    /\ control = "recv"
    /\ \/ restarts > 0 /\ restarts' = restarts - 1 /\ control' = "dropForRestart"
       \/ restarts = 0 /\ ~restartTx /\ control' = "exit" /\ UNCHANGED restarts
    /\ UNCHANGED <<pipeVars, captureVars, restartTx, caller, senderVars, supervisor, watchVars>>

\* Drop of LoopbackStreams: set stop, then join.
ControlDrop ==
    /\ control \in {"dropForRestart", "dropAtExit"}
    /\ capture # "none"
    /\ captureStop' = TRUE
    /\ control' = IF control = "dropForRestart" THEN "joinForRestart" ELSE "joinAtExit"
    /\ UNCHANGED <<pipeVars, capture, capturedDevice, captured, restarts, restartTx, caller, senderVars, supervisor, watchVars>>

\* No stream to drop: the last restart failed.
ControlNothingToDrop ==
    /\ control \in {"dropForRestart", "dropAtExit"}
    /\ capture = "none"
    /\ control' = IF control = "dropForRestart" THEN "respawn" ELSE "done"
    /\ UNCHANGED <<pipeVars, captureVars, restarts, restartTx, caller, senderVars, supervisor, watchVars>>

ControlJoin ==
    /\ control \in {"joinForRestart", "joinAtExit"}
    /\ capture = "dead"
    /\ capture' = "none"
    /\ control' = IF control = "joinForRestart" THEN "respawn" ELSE "done"
    /\ UNCHANGED <<pipeVars, capturedDevice, captureStop, captured, restarts, restartTx, caller, senderVars, supervisor, watchVars>>

\* A restart that fails leaves the pipeline without a producer.
ControlRespawn ==
    /\ control = "respawn"
    /\ \E ok \in BOOLEAN : SpawnCapture(ok)
    /\ control' = "recv"
    /\ UNCHANGED <<pipeVars, captured, restarts, restartTx, caller, senderVars, supervisor, watchVars>>

ControlExit ==
    /\ control = "exit"
    /\ producerAlive' = FALSE
    /\ control' = "exitUnpark"
    /\ UNCHANGED <<queue, senderSet, token, captureVars, restarts, restartTx, caller, senderVars,
                   supervisor, watchVars>>

\* Mutant of ControlExitUnpark: the sender is not woken.
ControlExitNoUnpark ==
    /\ control = "exitUnpark"
    /\ control' = "dropAtExit"
    /\ UNCHANGED <<pipeVars, captureVars, restarts, restartTx, caller, senderVars, supervisor, watchVars>>

ControlExitUnpark ==
    /\ control = "exitUnpark"
    /\ Unpark
    /\ control' = "dropAtExit"
    /\ UNCHANGED <<queue, producerAlive, senderSet, captureVars, restarts, restartTx, caller, senderVars,
                   supervisor, watchVars>>

Control ==
    \/ ControlStart \/ ControlRecv \/ ControlDrop \/ ControlNothingToDrop
    \/ ControlJoin \/ ControlRespawn \/ ControlExit \/ ControlExitUnpark

-----------------------------------------------------------------------------
(* The caller                                                               *)

\* Mutant of CallerStarts: earlier changes, and those during the startup, are
\* marked as seen.
CallerStartsSeen ==
    /\ caller = "startup"
    /\ control = "recv"
    /\ caller' = "spawned"
    /\ sender' = "set" /\ supervisor' = "select"
    /\ seenVersion' = deviceVersion
    /\ UNCHANGED <<pipeVars, captureVars, controlVars, sent, watcher, device, deviceVersion, changes,
                   stopSignal>>

\* The startup result arrives: spawn sender and supervisor, or give up, which
\* drops the restart channel.
CallerStarts ==
    /\ caller = "startup"
    /\ control = "recv"
    /\ caller' = "spawned"
    /\ sender' = "set" /\ supervisor' = "select"
    /\ UNCHANGED <<pipeVars, captureVars, controlVars, sent, watchVars>>

\* The capture did not start, or the sender thread could not be spawned.
CallerFails ==
    /\ caller = "startup"
    /\ control # "start"
    /\ caller' = "failed"
    /\ restartTx' = FALSE
    /\ UNCHANGED <<pipeVars, captureVars, control, restarts, senderVars, supervisor, watchVars>>

Caller == CallerStarts \/ CallerFails

-----------------------------------------------------------------------------
(* The sender thread: send_pcm_udp and recv_pcm_wait                        *)

\* Mutant of SenderSet: the sender does not register for unparks.
SenderSetNot ==
    /\ sender = "set"
    /\ sender' = "bind"
    /\ UNCHANGED <<pipeVars, captureVars, controlVars, caller, sent, supervisor, watchVars>>

SenderSet ==
    /\ sender = "set"
    /\ senderSet' = TRUE
    /\ sender' = "bind"
    /\ UNCHANGED <<queue, producerAlive, token, captureVars, controlVars, caller, sent, supervisor, watchVars>>

\* UdpSocket::bind, and later send_to, may fail: the thread returns the error.
SenderBind ==
    /\ sender = "bind"
    /\ sender' \in {"pop", "done"}
    /\ UNCHANGED <<pipeVars, captureVars, controlVars, caller, sent, supervisor, watchVars>>

SenderPop ==
    /\ sender = "pop"
    /\ IF queue = <<>>
       THEN sender' = "alive" /\ UNCHANGED <<queue, sent>>
       ELSE sender' = "send" /\ queue' = Tail(queue) /\ sent' = Head(queue)
    /\ UNCHANGED <<producerAlive, senderSet, token, captureVars, controlVars, caller, supervisor, watchVars>>

SenderCheckAlive ==
    /\ sender = "alive"
    /\ sender' = IF producerAlive THEN "park" ELSE "done"
    /\ UNCHANGED <<pipeVars, captureVars, controlVars, caller, sent, supervisor, watchVars>>

SenderPark ==
    /\ sender = "park" /\ token
    /\ token' = FALSE
    /\ sender' = "pop"
    /\ UNCHANGED <<queue, producerAlive, senderSet, captureVars, controlVars, caller, sent, supervisor, watchVars>>

\* park may return without an unpark; nothing relies on it.
SenderSpuriousWake ==
    /\ sender = "park" /\ ~token
    /\ sender' = "pop"
    /\ UNCHANGED <<pipeVars, captureVars, controlVars, caller, sent, supervisor, watchVars>>

SenderSend ==
    /\ sender = "send"
    /\ sender' = "pop"
    /\ UNCHANGED <<pipeVars, captureVars, controlVars, caller, sent, supervisor, watchVars>>

SenderSendFails ==
    /\ sender = "send"
    /\ sender' = "done"
    /\ UNCHANGED <<pipeVars, captureVars, controlVars, caller, sent, supervisor, watchVars>>

Sender ==
    SenderSet \/ SenderBind \/ SenderPop \/ SenderCheckAlive \/ SenderPark \/ SenderSend

-----------------------------------------------------------------------------
(* The supervisor task and what it listens to                               *)

\* Mutant of SupervisorSenderDone: the result is logged, the loop goes on.
SupervisorSenderDoneGoesOn ==
    /\ supervisor = "select" /\ sender = "done"
    /\ UNCHANGED vars

SupervisorSenderDone ==
    /\ supervisor = "select" /\ sender = "done"
    /\ supervisor' = "closing"
    /\ UNCHANGED <<pipeVars, captureVars, controlVars, caller, senderVars, watchVars>>

\* device_change_rx.changed() completes when the version is not the one seen;
\* the restart cannot be sent once the control thread has returned.
SupervisorDeviceChange ==
    /\ supervisor = "select" /\ seenVersion # deviceVersion
    /\ seenVersion' = deviceVersion
    /\ IF control # "done" THEN restarts' = restarts + 1 /\ UNCHANGED supervisor
                           ELSE supervisor' = "closing" /\ UNCHANGED restarts
    /\ UNCHANGED <<pipeVars, captureVars, control, restartTx, caller, senderVars,
                   watcher, device, deviceVersion, changes, stopSignal>>

\* changed() fails when the channel's sender is gone: the session ends.
SupervisorNoWatcher ==
    /\ supervisor = "select" /\ seenVersion = deviceVersion /\ watcher = "failed"
    /\ supervisor' = "closing"
    /\ UNCHANGED <<pipeVars, captureVars, controlVars, caller, senderVars, watchVars>>

SupervisorStop ==
    /\ supervisor = "select" /\ stopSignal
    /\ supervisor' = "closing"
    /\ UNCHANGED <<pipeVars, captureVars, controlVars, caller, senderVars, watchVars>>

SupervisorClose ==
    /\ supervisor = "closing"
    /\ restartTx' = FALSE
    /\ supervisor' = "done"
    /\ UNCHANGED <<pipeVars, captureVars, control, restarts, caller, senderVars, watchVars>>

Supervisor ==
    \/ SupervisorSenderDone \/ SupervisorDeviceChange \/ SupervisorNoWatcher
    \/ SupervisorStop \/ SupervisorClose

\* run_watcher: the callback is registered, or the thread ends.
WatcherStarts ==
    /\ watcher = "starting"
    /\ watcher' \in {"running", "failed"}
    /\ UNCHANGED <<pipeVars, captureVars, controlVars, caller, senderVars, supervisor,
                   device, deviceVersion, seenVersion, changes, stopSignal>>

\* The callback counts the change, once it is registered.
DeviceChanges ==
    /\ changes < MaxChanges
    /\ changes' = changes + 1 /\ device' = device + 1
    /\ deviceVersion' = IF watcher = "running" THEN deviceVersion + 1 ELSE deviceVersion
    /\ UNCHANGED <<pipeVars, captureVars, controlVars, caller, senderVars, supervisor,
                   seenVersion, watcher, stopSignal>>

\* The session is stopped or replaced, or the server drops its end.
StopSession ==
    /\ ~stopSignal
    /\ stopSignal' = TRUE
    /\ UNCHANGED <<pipeVars, captureVars, controlVars, caller, senderVars, supervisor,
                   watcher, device, deviceVersion, seenVersion, changes>>

AllGone == /\ control = "done" /\ capture = "none"
           /\ sender \in {"unborn", "done"} /\ supervisor \in {"unborn", "done"}

Finished == AllGone /\ caller # "startup" /\ UNCHANGED vars

Next ==
    \/ Capture \/ CaptureFails
    \/ Control \/ Caller
    \/ Sender \/ SenderSpuriousWake \/ SenderSendFails
    \/ Supervisor
    \/ WatcherStarts \/ DeviceChanges \/ StopSession \/ Finished

\* Threads and tasks are scheduled; the endpoint goes on signalling its
\* events (the silent render client is there to keep it awake).
Fairness ==
    /\ WF_vars(Capture) /\ WF_vars(Control) /\ WF_vars(Caller)
    /\ WF_vars(Sender)
    /\ WF_vars(Supervisor) /\ WF_vars(SupervisorStop) /\ WF_vars(SupervisorSenderDone)

Spec == Init /\ [][Next]_vars /\ Fairness

-----------------------------------------------------------------------------
(* Properties                                                               *)

TypeOK ==
    /\ queue \in Seq(1 .. MaxChunks) /\ Len(queue) <= Capacity
    /\ producerAlive \in BOOLEAN /\ senderSet \in BOOLEAN /\ token \in BOOLEAN
    /\ capture \in {"none", "run", "wait", "packets", "push", "full", "unpark", "dead"}
    /\ captureStop \in BOOLEAN /\ captured \in 0 .. MaxChunks
    /\ control \in {"start", "recv", "dropForRestart", "joinForRestart", "respawn", "exit",
                    "exitUnpark", "dropAtExit", "joinAtExit", "done"}
    /\ restarts \in Nat /\ restartTx \in BOOLEAN
    /\ caller \in {"startup", "spawned", "failed"}
    /\ sender \in {"unborn", "set", "bind", "pop", "alive", "park", "send", "done"}
    /\ sent \in 0 .. MaxChunks
    /\ supervisor \in {"unborn", "select", "closing", "done"}
    /\ watcher \in {"starting", "running", "failed"}
    /\ device \in Nat /\ capturedDevice \in Nat
    /\ deviceVersion \in Nat /\ seenVersion \in Nat
    /\ changes \in 0 .. MaxChanges /\ stopSignal \in BOOLEAN

\* Whatever the sender and the overwriting producer pop concurrently, chunks
\* reach the sender in the order they were captured, none twice.
InOrder ==
    /\ \A i, j \in 1 .. Len(queue) : i < j => queue[i] < queue[j]
    /\ \A i \in 1 .. Len(queue) : sent < queue[i]

\* audio_capture.rs: "when the queue is full old data is dropped, so that the
\* sender always gets the newest audio": a chunk that has been pushed is the
\* last of the queue until it is sent or a newer one follows it.
NewestKept ==
    capture \notin {"push", "full"} =>
        captured = 0 \/ sent = captured \/ (queue # <<>> /\ queue[Len(queue)] = captured)

\* The queue, popped by both of its ends' threads, stays within its capacity and in
\* the order of capture, and a slow sender costs old audio only.
QueueRight == TypeOK /\ InOrder /\ NewestKept

\* The sender never sleeps on work: when it is parked without a token, either
\* nothing is queued and the producer is alive, or the thread that changed
\* that is about to unpark it.
NoLostWakeup ==
    sender = "park" /\ ~token =>
        /\ queue = <<>> \/ capture = "unpark"
        /\ producerAlive \/ control = "exitUnpark"

\* A chunk in the queue is sent or displaced, unless the sender ends.
ChunksLeave ==
    \A c \in 1 .. MaxChunks :
        (\E i \in 1 .. Len(queue) : queue[i] = c) /\ caller = "spawned"
        ~> sender = "done" \/ ~\E i \in 1 .. Len(queue) : queue[i] = c

\* Stopping the session ends all four: wherever the sender sleeps, whatever
\* restarts are pending, and whichever of them failed before.
StopEndsPipeline == stopSignal /\ caller = "spawned" ~> AllGone

\* A failure ends the whole pipeline too: a sender that fails takes the capture down
\* with it, a pipeline that could not be started leaves no thread behind, and no session
\* goes on, deaf to changes, when the device watcher could not start.
Failed == sender = "done" \/ caller = "failed" \/ (watcher = "failed" /\ caller = "spawned")
FailureEndsPipeline == Failed ~> AllGone

\* A session captures the current output device again after every change, also one
\* during its startup or during a restart, unless it is over or its capture has failed; only
\* a change before the watcher has registered goes unseen.
CaptureFollowsDevice ==
    caller = "spawned" /\ capturedDevice # device /\ device = deviceVersion
        ~> capturedDevice = device \/ capture \in {"none", "dead"} \/ supervisor # "select"

\* audio_capture.rs: "default output device changed; restarting loopback
\* capture": the capture of a session is interrupted only for a change that
\* happened while the session lived.
RestartOnlyOnChange == restarts > 0 => changes > 0
=============================================================================
