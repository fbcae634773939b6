--------------------------- MODULE WasapiCapture ---------------------------
(***************************************************************************)
(* The WASAPI capture of one audio pipeline, audio_capture.rs: how the       *)
(* control thread starts and drops a LoopbackStreams, and the thread behind  *)
(* it, run_wasapi_loopback, with every call that may fail.  PcmPipe takes    *)
(* from here that a capture that started is running, and that one that failed *)
(* to start or was dropped has left nothing behind.                         *)
(*                                                                         *)
(* What the thread's scope owns is a stack: a return, with or without an     *)
(* error, drops it from the top.  The audio engine is external: it fills the *)
(* capture client with packets, plays the silence the render client was      *)
(* given, and signals the event of a client each time.                      *)
(***************************************************************************)
EXTENDS Integers, Sequences, SequencesExt

CONSTANTS
    BufferFrames,  \* GetBufferSize of the render client
    MaxWaiting     \* packets the capture client holds; more are lost

ASSUME EngineAssumption == BufferFrames \in Nat /\ MaxWaiting \in Nat \ {0}

Clients == {"capture", "render"}

VARIABLES
    owner,      \* the control thread: where it is with this capture
    answer,     \* the startup channel
    stop,       \* LoopbackStreams.stop
    thread,     \* the capture thread: where it is
    step,       \* the step of the setup it is at
    owned,      \* the stack of what its scope owns
    failed,     \* it is returning an error
    running,    \* the clients whose streams are started
    handedOut,  \* the clients whose buffer is between GetBuffer and ReleaseBuffer
    available,  \* frames of silence about to be written
    signalled,  \* the clients whose event is signalled
    waiting,    \* packets in the capture client
    padding     \* frames in the render client

threadVars == <<thread, step, owned, failed>>
bufferVars == <<handedOut, available>>
engineVars == <<signalled, waiting, padding>>
vars == <<owner, answer, stop, threadVars, running, bufferVars, engineVars>>

Init ==
    /\ owner = "spawn" /\ answer = "none" /\ stop = FALSE
    /\ thread = "none" /\ step = 1 /\ owned = <<>> /\ failed = FALSE
    /\ running = {} /\ handedOut = {} /\ available = 0
    /\ signalled = {} /\ waiting = 0 /\ padding = 0

-----------------------------------------------------------------------------
(* The control thread                                                       *)

\* spawn_speaker_loopback_stream up to the wait for the answer.
Spawn ==
    /\ owner = "spawn"
    /\ \/ owner' = "recv" /\ thread' = "setup"
       \/ owner' = "failed" /\ UNCHANGED thread
    /\ UNCHANGED <<answer, stop, step, owned, failed, running, bufferVars, engineVars>>

RecvAnswer ==
    /\ owner = "recv" /\ answer # "none"
    /\ owner' = IF answer = "ok" THEN "streams" ELSE "joinFailed"
    /\ UNCHANGED <<answer, stop, threadVars, running, bufferVars, engineVars>>

\* LoopbackStreams is dropped: stop, then join; the unpark wakes nobody.
Drop ==
    /\ owner = "streams"
    /\ stop' = TRUE
    /\ owner' = "join"
    /\ UNCHANGED <<answer, threadVars, running, bufferVars, engineVars>>

\* Mutant of Join: the thread is let go.
JoinNot ==
    /\ owner \in {"join", "joinFailed"}
    /\ owner' = IF owner = "join" THEN "dropped" ELSE "failed"
    /\ UNCHANGED <<answer, stop, threadVars, running, bufferVars, engineVars>>

Join ==
    /\ owner \in {"join", "joinFailed"} /\ thread = "ended"
    /\ owner' = IF owner = "join" THEN "dropped" ELSE "failed"
    /\ UNCHANGED <<answer, stop, threadVars, running, bufferVars, engineVars>>

-----------------------------------------------------------------------------
(* Setup                                                                    *)

\* The calls in their order; a call that yields something the scope owns is
\* named after it.  Initialize is tried in two ways, which fail or succeed as one.
\* The last before the streams start are the two of prime_silence_render.
Setup == <<"com", "enumerator", "device", "captureClient", "renderClient", "mixFormat",
           "sampleFormat", "period", "initializeCapture", "initializeRender",
           "captureEvent", "renderEvent", "setCaptureEvent", "setRenderEvent",
           "captureService", "renderService", "primeBuffer", "primeRelease",
           "startCapture", "startRender">>

Ownable == {"com", "enumerator", "device", "captureClient", "renderClient", "mixFormat",
            "captureEvent", "renderEvent", "captureService", "renderService"}

EventOf == [capture |-> "captureEvent", render |-> "renderEvent"]
ClientOf == [capture |-> "captureClient", render |-> "renderClient"]
GuardOf == [capture |-> "captureRunning", render |-> "renderRunning"]

Call(name) ==
    /\ owned' = IF name \in Ownable THEN Append(owned, name) ELSE owned
    /\ handedOut' = IF name = "primeBuffer" /\ BufferFrames > 0 THEN {"render"} ELSE {}
    /\ padding' = IF name = "primeRelease" THEN BufferFrames ELSE padding
    /\ running' = CASE name = "startCapture" -> running \union {"capture"}
                    [] name = "startRender"  -> running \union {"render"}
                    [] OTHER -> running

SetupStep ==
    /\ thread = "setup" /\ step <= Len(Setup)
    /\ Call(Setup[step])
    /\ step' = step + 1
    /\ UNCHANGED <<owner, answer, stop, thread, failed, available, signalled, waiting>>

\* The return leaves what it finds: a buffer that is out stays out.
Fails ==
    /\ thread' = "unwind" /\ failed' = TRUE
    /\ UNCHANGED <<owner, answer, stop, step, owned, running, bufferVars, engineVars>>

SetupFails ==
    /\ thread = "setup" /\ step <= Len(Setup)
    /\ Setup[step] = "primeRelease" => handedOut # {}
    /\ Fails

\* Mutant of Started: no guard stops the streams.
StartedUnguarded ==
    /\ thread = "setup" /\ step > Len(Setup)
    /\ answer' = "ok"
    /\ thread' = "loop"
    /\ UNCHANGED <<owner, stop, step, owned, failed, running, bufferVars, engineVars>>

\* Both streams are started: answer, and only then create the guards that
\* stop them.
Started ==
    /\ thread = "setup" /\ step > Len(Setup)
    /\ answer' = "ok"
    /\ owned' = owned \o <<GuardOf.capture, GuardOf.render>>
    /\ thread' = "loop"
    /\ UNCHANGED <<owner, stop, step, failed, running, bufferVars, engineVars>>

\* A client that is released takes its stream with it, and its buffer.
Unwind ==
    /\ thread = "unwind" /\ owned # <<>>
    /\ owned' = Front(owned)
    /\ running' = running \ {c \in Clients : Last(owned) \in {GuardOf[c], ClientOf[c]}}
    /\ handedOut' = handedOut \ {c \in Clients : Last(owned) = ClientOf[c]}
    /\ UNCHANGED <<owner, answer, stop, thread, step, failed, available, engineVars>>

\* The thread function: the error is the answer if there has been none.  A panic,
\* which would close the channel without an answer, is left out.
End ==
    /\ thread = "unwind" /\ owned = <<>>
    /\ thread' = "ended"
    /\ answer' = IF failed /\ answer = "none" THEN "error" ELSE answer
    /\ UNCHANGED <<owner, stop, step, owned, failed, running, bufferVars, engineVars>>

-----------------------------------------------------------------------------
(* The event loop                                                           *)

Goto(place) ==
    /\ thread' = place
    /\ UNCHANGED <<owner, answer, stop, step, owned, failed, running>>

\* Mutant of CheckStop: the flag is not read.
CheckStopNot ==
    /\ thread = "loop"
    /\ Goto("wait")
    /\ UNCHANGED <<bufferVars, engineVars>>

CheckStop ==
    /\ thread = "loop"
    /\ Goto(IF stop THEN "unwind" ELSE "wait")
    /\ UNCHANGED <<bufferVars, engineVars>>

\* WaitForMultipleObjectsEx, for ever: of two signalled events the first; the
\* wait resets it.
Wait ==
    /\ thread = "wait" /\ signalled # {}
    /\ IF "capture" \in signalled
       THEN signalled' = signalled \ {"capture"} /\ Goto("packets")
       ELSE signalled' = signalled \ {"render"} /\ Goto("padding")
    /\ UNCHANGED <<bufferVars, waiting, padding>>

\* process_capture_packets: until GetNextPacketSize says zero.
GetPacket ==
    /\ thread = "packets"
    /\ IF waiting = 0 THEN Goto("loop") /\ UNCHANGED handedOut
                      ELSE Goto("copy") /\ handedOut' = handedOut \union {"capture"}
    /\ UNCHANGED <<available, engineVars>>

\* Mutant of ReleasePacket: one packet for each event.
ReleasePacketAndLoop ==
    /\ thread = "copy"
    /\ handedOut' = handedOut \ {"capture"} /\ waiting' = waiting - 1
    /\ Goto("loop")
    /\ UNCHANGED <<available, signalled, padding>>

\* The packet has been pushed into the pipe, which cannot fail.
ReleasePacket ==
    /\ thread = "copy"
    /\ handedOut' = handedOut \ {"capture"} /\ waiting' = waiting - 1
    /\ Goto("packets")
    /\ UNCHANGED <<available, signalled, padding>>

\* write_silence_if_needed: the room there is now, GetBuffer, ReleaseBuffer.
ReadPadding ==
    /\ thread = "padding"
    /\ available' = BufferFrames - padding
    /\ Goto(IF available' = 0 THEN "loop" ELSE "silence")
    /\ UNCHANGED <<handedOut, engineVars>>

GetSilenceBuffer ==
    /\ thread = "silence"
    /\ handedOut' = handedOut \union {"render"}
    /\ Goto("write")
    /\ UNCHANGED <<available, engineVars>>

WriteSilence ==
    /\ thread = "write"
    /\ handedOut' = handedOut \ {"render"}
    /\ padding' = padding + available
    /\ available' = 0
    /\ Goto("loop")
    /\ UNCHANGED <<signalled, waiting>>

\* A call of the loop fails, be it the release of a buffer, which stays out then.
LoopFails ==
    /\ thread \in {"wait", "packets", "copy", "padding", "silence", "write"}
    /\ Fails

CaptureThread ==
    \/ SetupStep \/ Started \/ Unwind \/ End
    \/ CheckStop \/ Wait \/ GetPacket \/ ReleasePacket
    \/ ReadPadding \/ GetSilenceBuffer \/ WriteSilence

-----------------------------------------------------------------------------
(* The audio engine                                                         *)

PacketArrives ==
    /\ "capture" \in running
    /\ waiting' = IF waiting < MaxWaiting THEN waiting + 1 ELSE waiting
    /\ signalled' = signalled \union {"capture"}
    /\ UNCHANGED <<owner, answer, stop, threadVars, running, bufferVars, padding>>

\* A period of the render client: silence is played, or there is none left.
RenderPeriod ==
    /\ "render" \in running
    /\ padding' \in {padding, padding - 1} \intersect Nat
    /\ signalled' = signalled \union {"render"}
    /\ UNCHANGED <<owner, answer, stop, threadVars, running, bufferVars, waiting>>

Done ==
    /\ owner \in {"failed", "dropped"} /\ thread \in {"none", "ended"}
    /\ UNCHANGED vars

Next ==
    \/ Spawn \/ RecvAnswer \/ Drop \/ Join
    \/ CaptureThread \/ SetupFails \/ LoopFails
    \/ PacketArrives \/ RenderPeriod
    \/ Done

\* Calls into Windows return, and the silent render stream keeps the engine
\* signalling: the wait of the loop has no timeout.
Fairness ==
    /\ WF_vars(Spawn) /\ WF_vars(RecvAnswer) /\ WF_vars(Join)
    /\ WF_vars(CaptureThread)
    /\ WF_vars(RenderPeriod)

Spec == Init /\ [][Next]_vars /\ Fairness

-----------------------------------------------------------------------------
(* Properties                                                               *)

Owns(name) == name \in Range(owned)

\* The state has its type.
TypeOK ==
    /\ owner \in {"spawn", "recv", "streams", "join", "joinFailed", "failed", "dropped"}
    /\ answer \in {"none", "ok", "error"} /\ stop \in BOOLEAN
    /\ thread \in {"none", "setup", "loop", "wait", "packets", "copy", "padding", "silence", "write",
                   "unwind", "ended"}
    /\ step \in 1 .. Len(Setup) + 1 /\ failed \in BOOLEAN
    /\ Range(owned) \subseteq Ownable \union Range(GuardOf) /\ IsInjective(owned)
    /\ running \subseteq Clients /\ signalled \subseteq Clients /\ handedOut \subseteq Clients
    /\ available \in 0 .. BufferFrames /\ waiting \in 0 .. MaxWaiting /\ padding \in Nat

\* A capture whose start failed, or that was dropped, has left nothing behind when the
\* control thread goes on to start the next: no stream, no handle, no COM.
NothingLeft ==
    /\ TypeOK
    /\ owner \in {"failed", "dropped"} =>
        thread \in {"none", "ended"} /\ owned = <<>> /\ running = {} /\ handedOut = {}

\* The start of the silence has failed while the capture's stream runs: the thread
\* returns and owns no guard yet that stops it.
StartFailedHalfway(c) == c = "capture" /\ thread = "unwind" /\ answer # "ok"

\* Whichever call fails, a stream that runs still has its client, and the event it
\* signals still has its handle; except the capture's own, when the start of the silence
\* fails: that handle is closed first.  A buffer is out while it is filled or read, and
\* after an error until its client is released, never longer than its client.
EventsOutliveStreams ==
    /\ \A c \in running : Owns("com") /\ Owns(ClientOf[c])
    /\ \A c \in running : Owns(EventOf[c]) \/ StartFailedHalfway(c)
    /\ \A c \in handedOut : Owns("com") /\ Owns(ClientOf[c])
    /\ handedOut # {} => \/ thread \in {"copy", "write"}
                         \/ thread = "setup" /\ Setup[step] = "primeRelease"
                         \/ thread = "unwind" /\ failed

\* The thread never sleeps on packets: one that arrives while the others are drained
\* signals the event again.
NoPacketForgotten == thread = "wait" /\ waiting > 0 => "capture" \in signalled

\* The control thread gets its answers, whichever call of the setup fails, and a capture
\* that is dropped ends, whatever it waits for, as long as the engine signals; the latter
\* only as long as packets are drained faster than they come, for process_capture_packets
\* does not look at stop.
ControlReturns ==
    /\ owner = "recv" ~> owner \in {"streams", "failed"}
    /\ []<>(thread \notin {"packets", "copy"}) => (owner = "join" ~> owner = "dropped")
=============================================================================
