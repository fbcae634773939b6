--------------------------- MODULE AudioSession ---------------------------
(***************************************************************************)
(* The control server of the desktop side, control_server.rs, with the      *)
(* pipelines it starts and the "active" flag of audio_stats.rs.             *)
(*                                                                         *)
(* Every control connection carries one command and is served by a task of   *)
(* its own, so the commands of one client, which gives up on an answer after *)
(* a timeout, are served concurrently and in any order.  START_UDP spawns a  *)
(* pipeline first and takes the session's mutex afterwards.  A pipeline is   *)
(* seen here through its sender thread and its supervisor task; PcmPipe      *)
(* models its inside and shows that it ends once its stop channel says so.   *)
(*                                                                         *)
(* A request, and the pipeline a START_UDP creates, is its number: requests  *)
(* are numbered in the order the clients issue them.                        *)
(***************************************************************************)
EXTENDS Naturals

CONSTANTS
    MaxRequests    \* bound: control requests in a behaviour

ASSUME MaxRequestsAssumption == MaxRequests \in Nat \ {0}

VARIABLES
    service,      \* the service thread and its tokio runtime
    requests,     \* request -> what was asked, and how far it has been served
    issued,       \* number of requests issued
    session,      \* AudioSession.stop_tx: the pipeline registered, 0 for None
    stopChannel,  \* pipeline -> its stop channel
    sender,       \* pipeline -> its sender thread
    supervisor,   \* pipeline -> its supervisor task
    active        \* AUDIO_STREAM_ACTIVE, a static: it outlives the service

sessionVars == <<requests, issued, session>>
pipelineVars == <<sender, supervisor, active>>
vars == <<service, sessionVars, stopChannel, pipelineVars>>

Requests == 1 .. MaxRequests

Init ==
    /\ service = "up"
    /\ requests = [r \in Requests |-> [command |-> "none", phase |-> "unissued"]]
    /\ issued = 0
    /\ session = 0
    /\ stopChannel = [r \in Requests |-> "none"]
    /\ sender = [r \in Requests |-> "none"]
    /\ supervisor = [r \in Requests |-> "none"]
    /\ active = FALSE

Phase(r, phase) == requests' = [requests EXCEPT ![r].phase = phase]

\* send(true) on the channel of pipeline p, if there is one.
Signal(p) == stopChannel' = IF p = 0 THEN stopChannel ELSE [stopChannel EXCEPT ![p] = "signalled"]

-----------------------------------------------------------------------------
(* Control connections                                                      *)

Issue(command) ==
    /\ service = "up" /\ issued < MaxRequests
    /\ issued' = issued + 1
    /\ requests' = [requests EXCEPT ![issued + 1] =
                       [command |-> command, phase |-> "received"]]
    /\ UNCHANGED <<service, session, stopChannel, pipelineVars>>

\* start_udp_audio_session up to the mutex: the pipeline is running.
SpawnPipeline(r) ==
    /\ service # "down"
    /\ requests[r].command = "START" /\ requests[r].phase = "received"
    /\ Phase(r, "spawned")
    /\ stopChannel' = [stopChannel EXCEPT ![r] = "open"]
    /\ sender' = [sender EXCEPT ![r] = "starting"]
    /\ supervisor' = [supervisor EXCEPT ![r] = "watching"]
    /\ UNCHANGED <<service, issued, session, active>>

\* The capture did not start, or a thread could not be spawned: ERR.
SpawnFails(r) ==
    /\ service # "down"
    /\ requests[r].command = "START" /\ requests[r].phase = "received"
    /\ Phase(r, "failed")
    /\ UNCHANGED <<service, issued, session, stopChannel, pipelineVars>>

\* Mutant of Register: the channel of the session that is replaced is kept
\* and nothing is sent on it.
RegisterSilently(r) ==
    /\ service # "down"
    /\ requests[r].command = "START" /\ requests[r].phase = "spawned"
    /\ session' = r
    /\ Phase(r, "answered")
    /\ UNCHANGED <<service, issued, stopChannel, pipelineVars>>

\* Under the mutex: stop the old session, become the session; answer OK.
Register(r) ==
    /\ service # "down"
    /\ requests[r].command = "START" /\ requests[r].phase = "spawned"
    /\ Signal(session)
    /\ session' = r
    /\ Phase(r, "answered")
    /\ UNCHANGED <<service, issued, pipelineVars>>

\* stop_udp_audio_session: whoever's session it is.
HandleStop(r) ==
    /\ service # "down"
    /\ requests[r].command = "STOP" /\ requests[r].phase = "received"
    /\ Signal(session)
    /\ session' = 0
    /\ Phase(r, "answered")
    /\ UNCHANGED <<service, issued, pipelineVars>>

Handle(r) == SpawnPipeline(r) \/ SpawnFails(r) \/ Register(r) \/ HandleStop(r)

-----------------------------------------------------------------------------
(* Pipelines                                                                *)

\* send_pcm_udp: bind, then reset_udp_stream.
SenderStarts(p) ==
    /\ sender[p] = "starting"
    /\ sender' = [sender EXCEPT ![p] = "streaming"]
    /\ active' = TRUE
    /\ UNCHANGED <<service, sessionVars, stopChannel, supervisor>>

SenderBindFails(p) ==
    /\ sender[p] = "starting"
    /\ sender' = [sender EXCEPT ![p] = "unbound"]
    /\ UNCHANGED <<service, sessionVars, stopChannel, supervisor, active>>

\* Mutant of SenderWindow: the flag is only set by the reset.
SenderWindowSilent(p) ==
    /\ sender[p] = "streaming"
    /\ UNCHANGED vars

\* update_udp_send_window, about once a second while frames are sent.
SenderWindow(p) ==
    /\ sender[p] = "streaming"
    /\ active' = TRUE
    /\ UNCHANGED <<service, sessionVars, stopChannel, sender, supervisor>>

\* Mutant of SenderEnds: no mark_udp_stream_inactive after the send loop.
SenderEndsUnmarked(p) ==
    /\ sender[p] = "streaming" /\ supervisor[p] \in {"done", "cancelled"}
    /\ sender' = [sender EXCEPT ![p] = "ended"]
    /\ UNCHANGED <<service, sessionVars, stopChannel, supervisor, active>>

\* The supervisor has dropped the restart channel: the producer ends, the
\* queue is drained, the send loop ends.
SenderEnds(p) ==
    /\ sender[p] = "streaming" /\ supervisor[p] \in {"done", "cancelled"}
    /\ sender' = [sender EXCEPT ![p] = "ended"]
    /\ active' = FALSE
    /\ UNCHANGED <<service, sessionVars, stopChannel, supervisor>>

\* send_to fails: the error leaves send_pcm_udp at once.
SenderFails(p) ==
    /\ sender[p] = "streaming"
    /\ sender' = [sender EXCEPT ![p] = "failed"]
    /\ UNCHANGED <<service, sessionVars, stopChannel, supervisor, active>>

SenderOver(p) == sender[p] \in {"ended", "unbound", "failed"}

\* Mutant of SupervisorEnds: only the sender's end is listened to.
SupervisorIgnoresStop(p) ==
    /\ supervisor[p] = "watching" /\ SenderOver(p)
    /\ supervisor' = [supervisor EXCEPT ![p] = "done"]
    /\ active' = FALSE
    /\ UNCHANGED <<service, sessionVars, stopChannel, sender>>

\* The supervisor's loop breaks; mark_udp_stream_inactive.
SupervisorEnds(p) ==
    /\ supervisor[p] = "watching"
    /\ stopChannel[p] = "signalled" \/ SenderOver(p)
    /\ supervisor' = [supervisor EXCEPT ![p] = "done"]
    /\ active' = FALSE
    /\ UNCHANGED <<service, sessionVars, stopChannel, sender>>

Pipeline(p) ==
    SenderStarts(p) \/ SenderBindFails(p) \/ SenderEnds(p) \/ SupervisorEnds(p)

-----------------------------------------------------------------------------
(* The life of the service: app::run and run_service                        *)

Shutdown ==
    /\ service = "up"
    /\ service' = "stopping"
    /\ UNCHANGED <<sessionVars, stopChannel, pipelineVars>>

\* The control task's arm of the shutdown; the runtime may go before it runs.
ControlStops ==
    /\ service = "stopping"
    /\ Signal(session)
    /\ session' = 0
    /\ UNCHANGED <<service, requests, issued, pipelineVars>>

\* The runtime is dropped: every task ends at the await it is in, handlers and
\* supervisors alike, and with them the channels they own.
InFlight == {r \in Requests : requests[r].phase \in {"received", "spawned"}}
DropRuntime ==
    /\ service = "stopping"
    /\ service' = "down"
    /\ requests' = [r \in Requests |->
                       IF r \in InFlight THEN [requests[r] EXCEPT !.phase = "cancelled"] ELSE requests[r]]
    /\ session' = 0
    /\ stopChannel' = [r \in Requests |-> IF stopChannel[r] = "open" THEN "signalled" ELSE stopChannel[r]]
    /\ supervisor' = [r \in Requests |-> IF supervisor[r] = "watching" THEN "cancelled" ELSE supervisor[r]]
    /\ UNCHANGED <<issued, sender, active>>

\* The tray starts the service again; threads of the last one may still run.
StartService ==
    /\ service = "down"
    /\ service' = "up"
    /\ UNCHANGED <<sessionVars, stopChannel, pipelineVars>>

Next ==
    \/ \E command \in {"START", "STOP"} : Issue(command)
    \/ \E r \in Requests : Handle(r)
    \/ \E p \in Requests : Pipeline(p) \/ SenderWindow(p) \/ SenderFails(p)
    \/ Shutdown \/ ControlStops \/ DropRuntime \/ StartService

\* Tasks and threads run, and a shutdown that has begun completes.  Streaming
\* senders reach their once-a-second update while the capture delivers.
Fairness ==
    /\ \A r \in Requests : WF_vars(Handle(r))
    /\ \A p \in Requests : WF_vars(Pipeline(p)) /\ WF_vars(SupervisorEnds(p)) /\ WF_vars(SenderWindow(p))
    /\ WF_vars(DropRuntime)

Spec == Init /\ [][Next]_vars /\ Fairness

-----------------------------------------------------------------------------
(* Properties                                                               *)

TypeOK ==
    /\ service \in {"up", "stopping", "down"}
    /\ requests \in [Requests -> [command : {"none", "START", "STOP"},
                                  phase : {"unissued", "received", "spawned", "answered",
                                           "failed", "cancelled"}]]
    /\ issued \in 0 .. MaxRequests
    /\ session \in 0 .. MaxRequests
    /\ stopChannel \in [Requests -> {"none", "open", "signalled"}]
    /\ sender \in [Requests -> {"none", "starting", "streaming", "ended", "unbound", "failed"}]
    /\ supervisor \in [Requests -> {"none", "watching", "done", "cancelled"}]
    /\ active \in BOOLEAN

\* No pipeline streams behind the server's back: one that has not been told
\* to stop is the session, or its START_UDP is about to make it the session.
\* At most one is the session, so at most one survives the requests in flight.
NoOrphan ==
    \A p \in Requests :
        stopChannel[p] = "open" => session = p \/ requests[p].phase = "spawned"

\* A pipeline that is told to stop, or whose runtime is gone, ends.
StoppedPipelinesEnd ==
    \A p \in Requests :
        stopChannel[p] = "signalled" ~> SenderOver(p)

Over(p) == (sender[p] = "none" \/ SenderOver(p)) /\ supervisor[p] # "watching"
AllOver == service = "up" /\ \A p \in Requests : Over(p)

\* When every pipeline is over and no send has failed, STATUS no longer says
\* that audio is being sent, whichever thread of whichever session wrote the
\* flag last.
IdleNotActive == AllOver /\ (\A p \in Requests : sender[p] # "failed") => ~active

\* The end of an old session may clear the flag of the new one; the new one
\* sets it again as long as it streams.
StreamingIsShown ==
    \A p \in Requests :
        session = p /\ sender[p] = "streaming" ~> active \/ session # p \/ sender[p] # "streaming"
=============================================================================
