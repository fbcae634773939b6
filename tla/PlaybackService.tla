-------------------------- MODULE PlaybackService --------------------------
(***************************************************************************)
(* The life cycle of the Android playback service, PcmAudioService.kt:       *)
(* the main thread, which starts and stops playback, and the playback        *)
(* threads it starts.                                                      *)
(*                                                                         *)
(* The main thread handles one intent or callback after the other:          *)
(*   START    a new playback, after stopping the one there is               *)
(*   STOP     the user stops                                               *)
(*   DEVICE   the output device changed and the user wants to stop then      *)
(*   DESTROY  onDestroy, after a stopSelf()                                *)
(* Each of them runs stopPlayback, which waits for the playback thread for   *)
(* at most one second.  A thread that takes longer lives on, and as it reads *)
(* the flag "running" of its service it may find it set again by the next    *)
(* START.                                                                  *)
(*                                                                         *)
(* A playback thread repeats playOneConnection: it opens a socket and a      *)
(* track, has the server stream to it for a second (the warm-up), closes     *)
(* them, opens new ones and plays until it is stopped or something fails.    *)
(* PlaybackStream models the inside of that last stage.                     *)
(*                                                                         *)
(* A START and the thread it starts, and the service instance an intent      *)
(* creates, are numbered by the intent.  The fields udpSocket and audioTrack *)
(* are always set and cleared one after the other; they are one field here,  *)
(* and what they refer to is one resource, named by thread and stage.        *)
(*                                                                         *)
(* A command whose answer the client no longer waits for (after a second) may *)
(* have been executed, may never be, or may be executed later: the server     *)
(* handles each connection in a task of its own.                            *)
(***************************************************************************)
EXTENDS Naturals, FiniteSets

CONSTANT
    MaxIntents       \* bound: START and STOP intents

ASSUME MaxIntentsAssumption == MaxIntents \in Nat \ {0}

VARIABLES
    intents,          \* number of intents sent
    instance,         \* the service instance, 0 if there is none
    main, cause,      \* main thread: where it is, what it is handling
    playbackThread,   \* the field of that name, 0 for null
    stopSelf,         \* stopSelf() was called: onDestroy will follow
    running,          \* instance -> its flag
    field,            \* instance -> its socket and track
    notified,         \* instance -> playbackStoppedNotified
    told,             \* the app was told of a stop since the last START
    pc, home,         \* playback thread -> where it is, its instance
    stage, error,     \* playback thread -> warmup or playback, what it has caught
    open,             \* sockets and tracks that are open
    streaming,        \* the server streams, to the socket that asked last
    pending,          \* commands given up on that the server may yet execute
    late,             \* the stream was begun by such a START_UDP
    lostStop          \* a STOP_UDP failed since the stream began

mainVars == <<intents, instance, main, cause, playbackThread>>
serviceVars == <<stopSelf, running, field, notified, told>>
threadVars == <<pc, home, stage, error>>
controlVars == <<streaming, pending, late, lostStop>>
netVars == <<open, controlVars>>
vars == <<mainVars, serviceVars, threadVars, netVars>>

Intents == 1 .. MaxIntents
None == <<>>
Resource(t) == <<t, stage[t]>>
TrackOnly(t) == <<t, "track">>     \* of an opening that failed after the track

Init ==
    /\ intents = 0 /\ instance = 0 /\ main = "idle" /\ cause = "none"
    /\ playbackThread = 0 /\ stopSelf = FALSE
    /\ running = [i \in Intents |-> FALSE]
    /\ field = [i \in Intents |-> None]
    /\ notified = [i \in Intents |-> FALSE]
    /\ told = FALSE
    /\ pc = [t \in Intents |-> "unborn"]
    /\ home = [t \in Intents |-> 0]
    /\ stage = [t \in Intents |-> "warmup"]
    /\ error = [t \in Intents |-> "none"]
    /\ open = {}
    /\ streaming = FALSE /\ pending = {} /\ late = FALSE /\ lostStop = FALSE

-----------------------------------------------------------------------------
(* The main thread                                                          *)

\* An intent; it creates the service if there is none.
Receive(c) ==
    /\ main = "idle" /\ intents < MaxIntents
    /\ intents' = intents + 1
    /\ instance' = IF instance = 0 THEN intents' ELSE instance
    /\ cause' = c /\ main' = "stop"
    /\ UNCHANGED playbackThread

\* Mutant of ReceiveStart: playbackStoppedNotified is not reset.
ReceiveStartNotifiedStays ==
    /\ Receive("START")
    /\ told' = FALSE
    /\ UNCHANGED <<notified, stopSelf, running, field, threadVars, netVars>>

ReceiveStart ==
    /\ Receive("START")
    /\ notified' = [notified EXCEPT ![instance'] = FALSE]
    /\ told' = FALSE
    /\ UNCHANGED <<stopSelf, running, field, threadVars, netVars>>

ReceiveStop == Receive("STOP") /\ UNCHANGED <<serviceVars, threadVars, netVars>>

\* A callback that is registered as long as playbackThread is set, or its user
\* does not want it, and onDestroy.
Called(c) ==
    /\ main = "idle"
    /\ cause' = c /\ main' = "stop"
    /\ UNCHANGED <<intents, instance, playbackThread, serviceVars, threadVars, netVars>>

ReceiveDeviceChange == playbackThread # 0 /\ Called("STOP")
ReceiveDestroy == stopSelf /\ Called("DESTROY")

MainGoto(from, to) ==
    main = from /\ main' = to /\ UNCHANGED <<intents, instance, cause, playbackThread>>

StopRunning ==
    /\ MainGoto("stop", "close")
    /\ running' = [running EXCEPT ![instance] = FALSE]
    /\ UNCHANGED <<stopSelf, field, notified, told, threadVars, netVars>>

\* closePlaybackResources: close what the field refers to, then clear it.
CloseField ==
    /\ MainGoto("close", "clear")
    /\ open' = open \ {field[instance]}
    /\ UNCHANGED <<serviceVars, threadVars, controlVars>>

ClearField ==
    /\ MainGoto("clear", "join")
    /\ field' = [field EXCEPT ![instance] = None]
    /\ UNCHANGED <<stopSelf, running, notified, told, threadVars, netVars>>

\* playbackThread?.join(1000) returns: there is no thread, or it has ended, or it has
\* not for a second.
Join == main = "join"

\* START, after stopPlayback.
BeginPlayback ==
    /\ Join /\ cause = "START"
    /\ running' = [running EXCEPT ![instance] = TRUE]
    /\ pc' = [pc EXCEPT ![intents] = "loop"]
    /\ home' = [home EXCEPT ![intents] = instance]
    /\ playbackThread' = intents
    /\ main' = "idle" /\ cause' = "none"
    /\ UNCHANGED <<intents, instance, stopSelf, field, notified, told, stage, error, netVars>>

\* notifyPlaybackStopped.  The other thread may pass the same check before the
\* flag is set: the app is then told twice, which makes no difference to told.
NotifyPlaybackStopped(i) ==
    /\ notified' = [notified EXCEPT ![i] = TRUE]
    /\ told' = (told \/ ~notified[i])

\* STOP, a device change or onDestroy, after stopPlayback.
FinishStop ==
    /\ Join /\ cause # "START"
    /\ NotifyPlaybackStopped(instance)
    /\ stopSelf' = (cause # "DESTROY")
    /\ instance' = IF cause = "DESTROY" THEN 0 ELSE instance
    /\ playbackThread' = 0
    /\ main' = "idle" /\ cause' = "none"
    /\ UNCHANGED <<intents, running, field, threadVars, netVars>>

MainContinues == StopRunning \/ CloseField \/ ClearField \/ BeginPlayback \/ FinishStop

Main ==
    \/ ReceiveStart \/ ReceiveStop \/ ReceiveDeviceChange \/ ReceiveDestroy
    \/ MainContinues

-----------------------------------------------------------------------------
(* The playback threads                                                     *)

Running(t) == running[home[t]]
Goto(t, l) == pc' = [pc EXCEPT ![t] = l] /\ UNCHANGED home
Raise(t, e) == error' = [error EXCEPT ![t] = e]

\* The head of the reconnect loop.
Loop(t) ==
    /\ pc[t] = "loop"
    /\ Goto(t, IF Running(t) THEN "open" ELSE "dead")
    /\ UNCHANGED <<mainVars, serviceVars, stage, error, netVars>>

Open(t) ==
    /\ pc[t] = "open"
    /\ open' = open \cup {Resource(t)}
    /\ field' = [field EXCEPT ![home[t]] = Resource(t)]
    /\ Goto(t, "start")
    /\ UNCHANGED <<mainVars, stopSelf, running, notified, told, stage, error, controlVars>>

\* The AudioTrack cannot be created, or it can and play() or the socket fails.
OpenFails(t) ==
    /\ pc[t] = "open"
    /\ \/ UNCHANGED <<open, field>>
       \/ /\ open' = open \cup {TrackOnly(t)}
          /\ field' = [field EXCEPT ![home[t]] = TrackOnly(t)]
    /\ Raise(t, "other")
    /\ Goto(t, "catch")
    /\ UNCHANGED <<mainVars, stopSelf, running, notified, told, stage, controlVars>>

\* The server executes a command, in time or late: what it streamed to before ends.
Execute(command, inTime) ==
    /\ streaming' = (command = "START_UDP")
    /\ late' = (command = "START_UDP" /\ ~inTime)
    /\ lostStop' = FALSE

\* The client gives up on a command before the server executes it, which it may
\* still do later.
GiveUpOn(command) ==
    /\ pending' \in {pending, pending \cup {command}}
    /\ UNCHANGED <<streaming, late>>

\* sendControlCommand("START_UDP"): executed and answered, or not answered, or refused.
Start(t) ==
    /\ pc[t] = "start"
    /\ \/ /\ Execute("START_UDP", TRUE) /\ UNCHANGED pending
          /\ \/ Goto(t, "stream") /\ UNCHANGED error
             \/ Goto(t, "close") /\ \E e \in {"timeout", "other"} : Raise(t, e)
       \/ /\ GiveUpOn("START_UDP") /\ UNCHANGED lostStop
          /\ Goto(t, "close") /\ \E e \in {"timeout", "other"} : Raise(t, e)
    /\ UNCHANGED <<mainVars, serviceVars, stage, open>>

StreamEnd(t) == IF stage[t] = "warmup" THEN "stopWarmup" ELSE "close"

\* The stream ends because it was stopped, or the second of warm-up is over.
StreamEnds(t) ==
    /\ pc[t] = "stream"
    /\ ~Running(t) \/ stage[t] = "warmup"
    /\ Goto(t, StreamEnd(t))
    /\ UNCHANGED <<mainVars, serviceVars, stage, error, netVars>>

\* SocketTimeoutException of the UDP socket: 3 s without a packet.
StreamTimesOut(t) ==
    /\ pc[t] = "stream" /\ Resource(t) \in open
    /\ Raise(t, "timeout")
    /\ Goto(t, StreamEnd(t))
    /\ UNCHANGED <<mainVars, serviceVars, stage, netVars>>

\* The socket or the track was closed under the thread.  The receiver thread
\* of the playback stage goes on receiving from the closed socket instead, so
\* this need not happen there.
StreamBreaks(t) ==
    /\ pc[t] = "stream" /\ Resource(t) \notin open
    /\ Raise(t, "other")
    /\ Goto(t, StreamEnd(t))
    /\ UNCHANGED <<mainVars, serviceVars, stage, netVars>>

\* STOP_UDP stops whatever the server streams; a failure is ignored.
ExecuteStop ==
    \/ Execute("STOP_UDP", TRUE) /\ UNCHANGED pending
    \/ GiveUpOn("STOP_UDP") /\ lostStop' = streaming

StopWarmup(t) ==
    /\ pc[t] = "stopWarmup"
    /\ ExecuteStop
    /\ Goto(t, "close")
    /\ UNCHANGED <<mainVars, serviceVars, stage, error, open>>

\* Mutant of CloseOwn: what was opened is left to closePlaybackResources.
CloseOwnNot(t) ==
    /\ pc[t] = "close"
    /\ IF error[t] = "none" /\ stage[t] = "warmup"
       THEN stage' = [stage EXCEPT ![t] = "playback"] /\ Goto(t, "open")
       ELSE stage' = stage /\ Goto(t, "catch")
    /\ UNCHANGED <<mainVars, serviceVars, error, netVars>>

\* PlaybackResources.close(), by use{}; then the next stage or the catch.
CloseOwn(t) ==
    /\ pc[t] = "close"
    /\ open' = open \ {Resource(t)}
    /\ field' = [field EXCEPT ![home[t]] = IF @ = Resource(t) THEN None ELSE @]
    /\ IF error[t] = "none" /\ stage[t] = "warmup"
       THEN stage' = [stage EXCEPT ![t] = "playback"] /\ Goto(t, "open")
       ELSE stage' = stage /\ Goto(t, "catch")
    /\ UNCHANGED <<mainVars, stopSelf, running, notified, told, error, controlVars>>

\* The exception is handled, and forgotten; the next connection starts with a
\* warm-up.  A control connection that times out is handled as the UDP socket that
\* does: both are a SocketTimeoutException.
Catch(t) ==
    /\ pc[t] = "catch"
    /\ stage' = [stage EXCEPT ![t] = "warmup"]
    /\ IF Running(t) /\ error[t] = "timeout"
       THEN /\ running' = [running EXCEPT ![home[t]] = FALSE]
            /\ Goto(t, "notify") /\ UNCHANGED error
       ELSE /\ UNCHANGED running
            /\ Goto(t, "stopPlayback") /\ Raise(t, "none")
    /\ UNCHANGED <<mainVars, stopSelf, field, notified, told, netVars>>

\* notifyPlaybackStopped(STOP_REASON_UDP_TIMEOUT) and stopSelf(), which has no
\* effect for an instance that is gone.
ThreadNotifies(t) ==
    /\ pc[t] = "notify"
    /\ NotifyPlaybackStopped(home[t])
    /\ stopSelf' = (stopSelf \/ home[t] = instance)
    /\ Goto(t, "stopPlayback") /\ Raise(t, "none")
    /\ UNCHANGED <<mainVars, running, field, stage, netVars>>

\* Mutant of StopPlayback: STOP_UDP is only sent if the loop goes on.
StopPlaybackRunning(t) ==
    /\ pc[t] = "stopPlayback"
    /\ IF Running(t) THEN ExecuteStop ELSE UNCHANGED controlVars
    /\ Goto(t, "closeField")
    /\ UNCHANGED <<mainVars, serviceVars, stage, error, open>>

\* The finally of the reconnect loop: STOP_UDP, then closePlaybackResources.
StopPlayback(t) ==
    /\ pc[t] = "stopPlayback"
    /\ ExecuteStop
    /\ Goto(t, "closeField")
    /\ UNCHANGED <<mainVars, serviceVars, stage, error, open>>

ThreadClosesField(t) ==
    /\ pc[t] = "closeField"
    /\ open' = open \ {field[home[t]]}
    /\ Goto(t, "clearField")
    /\ UNCHANGED <<mainVars, serviceVars, stage, error, controlVars>>

ThreadClearsField(t) ==
    /\ pc[t] = "clearField"
    /\ field' = [field EXCEPT ![home[t]] = None]
    /\ Goto(t, "loop")
    /\ UNCHANGED <<mainVars, stopSelf, running, notified, told, stage, error, netVars>>

-----------------------------------------------------------------------------
(* The server                                                               *)

\* A task executes a command whose client has given up on it.
ExecuteLate(command) ==
    /\ command \in pending
    /\ pending' = pending \ {command}
    /\ Execute(command, FALSE)
    /\ UNCHANGED <<mainVars, serviceVars, threadVars, open>>

-----------------------------------------------------------------------------

Thread(t) ==
    \/ Loop(t) \/ Open(t) \/ Start(t)
    \/ StreamEnds(t) \/ StopWarmup(t) \/ CloseOwn(t)
    \/ Catch(t) \/ ThreadNotifies(t)
    \/ StopPlayback(t) \/ ThreadClosesField(t) \/ ThreadClearsField(t)

Alive(t) == pc[t] \notin {"unborn", "dead"}

Quiet == main = "idle" /\ \A t \in Intents : ~Alive(t)

\* All intents are sent and handled.
Finished == Quiet /\ intents = MaxIntents /\ UNCHANGED vars

Next ==
    \/ Main
    \/ \E t \in Intents : Thread(t) \/ OpenFails(t) \/ StreamTimesOut(t) \/ StreamBreaks(t)
    \/ \E command \in pending : ExecuteLate(command)
    \/ Finished

Spec == Init /\ [][Next]_vars

-----------------------------------------------------------------------------
(* Properties                                                               *)

Resources == {<<t, s>> : t \in Intents, s \in {"warmup", "playback"}}
Tracks == {TrackOnly(t) : t \in Intents}

TypeOK ==
    /\ intents \in 0 .. MaxIntents /\ instance \in 0 .. MaxIntents
    /\ main \in {"idle", "stop", "close", "clear", "join"}
    /\ cause \in {"none", "START", "STOP", "DESTROY"}
    /\ main # "idle" => instance # 0
    /\ playbackThread \in 0 .. MaxIntents
    /\ stopSelf \in BOOLEAN /\ told \in BOOLEAN
    /\ running \in [Intents -> BOOLEAN] /\ notified \in [Intents -> BOOLEAN]
    /\ field \in [Intents -> Resources \cup Tracks \cup {None}]
    /\ pc \in [Intents -> {"unborn", "loop", "open", "start", "stream", "stopWarmup", "close",
                           "catch", "notify", "stopPlayback", "closeField", "clearField", "dead"}]
    /\ home \in [Intents -> 0 .. MaxIntents]
    /\ stage \in [Intents -> {"warmup", "playback"}]
    /\ error \in [Intents -> {"none", "timeout", "other"}]
    /\ open \subseteq Resources \cup Tracks
    /\ streaming \in BOOLEAN /\ late \in BOOLEAN /\ lostStop \in BOOLEAN
    /\ pending \subseteq {"START_UDP", "STOP_UDP"}

\* However threads overwrite and clear the fields of one another, no socket and no
\* track that was opened for a stage stays open when all of them have ended.  The
\* track of an opening that failed after creating it is closed only through the
\* field, which another thread may clear before: it is the exception.
NothingLeftOpen == TypeOK /\ (Quiet => open \subseteq Tracks)

\* A playback that has ended, for whatever reason, was reported to the app
\* since it was started: the user interface does not show it as playing.
StopReported == Quiet /\ intents > 0 /\ (\A i \in Intents : ~running[i]) => told

\* When all threads have ended the server no longer streams, whichever of them sent
\* its STOP_UDP last and though a START_UDP may have been executed and not
\* answered.  In two cases it does: the STOP_UDP failed, or the server executed a
\* START_UDP after its client had given up on it.
ServerQuiet == Quiet /\ streaming => lostStop \/ late
=============================================================================
