------------------------ MODULE AudioSessionProofs ------------------------
(***************************************************************************)
(* Proofs about AudioSession, for every number of requests: its types, and  *)
(* that no pipeline streams behind the server's back.                        *)
(***************************************************************************)
EXTENDS AudioSession, TLAPS

\* What NoOrphan needs to know of a request that is being issued: it is not
\* one whose pipeline is about to become the session.
UnissuedLast == \A r \in Requests : r > issued => requests[r].phase = "unissued"

IInv == TypeOK /\ UnissuedLast /\ NoOrphan

\* The part of TypeOK that is about requests.
RequestsType ==
    requests \in [Requests -> [command : {"none", "START", "STOP"},
                               phase : {"unissued", "received", "spawned", "answered",
                                        "failed", "cancelled"}]]

\* A step of one request's phase keeps the type and the other requests.
LEMMA PhaseType ==
    ASSUME TypeOK, NEW r \in Requests,
           NEW ph \in {"received", "spawned", "answered", "failed", "cancelled"},
           Phase(r, ph)
    PROVE  /\ RequestsType'
           /\ requests'[r].phase = ph
           /\ \A q \in Requests \ {r} : requests'[q] = requests[q]
  BY DEF TypeOK, Phase, RequestsType

\* Signalling a channel leaves at most the other channels open.
LEMMA SignalType ==
    ASSUME TypeOK, Signal(session)
    PROVE  /\ stopChannel' \in [Requests -> {"none", "open", "signalled"}]
           /\ \A p \in Requests :
                 stopChannel'[p] = "open" => p # session /\ stopChannel[p] = "open"
  <1>1. CASE session = 0
    BY <1>1 DEF TypeOK, Signal, Requests
  <1>2. CASE session # 0
    <2>1. session \in Requests
      BY <1>2, MaxRequestsAssumption DEF TypeOK, Requests
    <2> QED BY <1>2, <2>1 DEF TypeOK, Signal
  <1> QED BY <1>1, <1>2

LEMMA InitIInv == Init => IInv
  <1> SUFFICES ASSUME Init PROVE IInv
    OBVIOUS
  <1>1. TypeOK
    <2>1. RequestsType
      BY DEF Init, RequestsType
    <2>2. 0 \in 0 .. MaxRequests
      BY MaxRequestsAssumption
    <2>3. /\ stopChannel \in [Requests -> {"none", "open", "signalled"}]
          /\ sender \in [Requests -> {"none", "starting", "streaming", "ended", "unbound", "failed"}]
          /\ supervisor \in [Requests -> {"none", "watching", "done", "cancelled"}]
      BY DEF Init
    <2> QED BY <2>1, <2>2, <2>3 DEF Init, TypeOK, RequestsType
  <1>2. UnissuedLast /\ NoOrphan
    BY DEF Init, UnissuedLast, NoOrphan
  <1> QED BY <1>1, <1>2 DEF IInv

LEMMA NextIInv == IInv /\ [Next]_vars => IInv'
  <1> SUFFICES ASSUME IInv, [Next]_vars PROVE IInv'
    OBVIOUS
  <1> USE MaxRequestsAssumption
  <1>1. ASSUME NEW command \in {"START", "STOP"}, Issue(command)
        PROVE  IInv'
    <2> DEFINE new == [command |-> command, phase |-> "received"]
    <2>1. issued + 1 \in Requests /\ issued' = issued + 1
      BY <1>1 DEF IInv, TypeOK, Issue, Requests
    <2>2. requests' = [requests EXCEPT ![issued + 1] = new]
      BY <1>1 DEF Issue
    <2>3. TypeOK'
      BY <1>1, <2>1, <2>2 DEF IInv, TypeOK, Issue, pipelineVars, Requests
    <2>4. UnissuedLast'
      BY <2>1, <2>2 DEF IInv, TypeOK, UnissuedLast, Requests
    <2>5. requests[issued + 1].phase = "unissued"
      BY <2>1 DEF IInv, TypeOK, UnissuedLast, Requests
    <2>6. NoOrphan'
      BY <1>1, <2>1, <2>2, <2>5 DEF IInv, TypeOK, NoOrphan, Issue
    <2> QED BY <2>3, <2>4, <2>6 DEF IInv
  <1>2. ASSUME NEW r \in Requests, SpawnPipeline(r)
        PROVE  IInv'
    <2> USE DEF IInv
    <2>1. Phase(r, "spawned") /\ requests[r].phase = "received"
      BY <1>2 DEF SpawnPipeline
    <2>2. TypeOK'
      <3>1. RequestsType'
        BY <2>1, PhaseType
      <3>2. /\ stopChannel' \in [Requests -> {"none", "open", "signalled"}]
            /\ sender' \in [Requests -> {"none", "starting", "streaming", "ended", "unbound", "failed"}]
            /\ supervisor' \in [Requests -> {"none", "watching", "done", "cancelled"}]
        BY <1>2 DEF TypeOK, SpawnPipeline
      <3> QED BY <1>2, <3>1, <3>2 DEF TypeOK, RequestsType, SpawnPipeline
    <2>3. r <= issued
      BY <2>1 DEF TypeOK, UnissuedLast, Requests
    <2>4. UnissuedLast'
      <3>1. /\ \A q \in Requests \ {r} : requests'[q] = requests[q]
            /\ issued' = issued
        BY <1>2, <2>1, PhaseType DEF SpawnPipeline
      <3> QED BY <2>3, <3>1 DEF UnissuedLast, TypeOK, Requests
    <2>5. NoOrphan'
      BY <1>2, <2>1, PhaseType DEF NoOrphan, SpawnPipeline, TypeOK
    <2> QED BY <2>2, <2>4, <2>5
  <1>3. ASSUME NEW r \in Requests, SpawnFails(r)
        PROVE  IInv'
    <2> USE DEF IInv
    <2>1. Phase(r, "failed") /\ requests[r].phase = "received"
      BY <1>3 DEF SpawnFails
    <2>2. RequestsType'
      BY <2>1, PhaseType
    <2>5. TypeOK'
      BY <1>3, <2>2 DEF TypeOK, RequestsType, SpawnFails, pipelineVars
    <2>6. r <= issued
      BY <2>1 DEF TypeOK, UnissuedLast, Requests
    <2>7. UnissuedLast'
      <3>1. /\ \A q \in Requests \ {r} : requests'[q] = requests[q]
            /\ issued' = issued
        BY <1>3, <2>1, PhaseType DEF SpawnFails
      <3> QED BY <2>6, <3>1 DEF UnissuedLast, TypeOK, Requests
    <2>8. NoOrphan'
      BY <1>3, <2>1, PhaseType DEF NoOrphan, SpawnFails
    <2> QED BY <2>5, <2>7, <2>8
  <1>4. ASSUME NEW r \in Requests, Register(r)
        PROVE  IInv'
    <2> USE DEF IInv
    <2>1. Phase(r, "answered") /\ requests[r].phase = "spawned"
      BY <1>4 DEF Register
    <2>2. RequestsType'
      BY <2>1, PhaseType
    <2>3. stopChannel' \in [Requests -> {"none", "open", "signalled"}]
      BY <1>4, SignalType DEF Register
    <2>4. session' \in 0 .. MaxRequests
      BY <1>4 DEF Register, Requests
    <2>5. TypeOK'
      BY <1>4, <2>2, <2>3, <2>4 DEF TypeOK, RequestsType, Register, pipelineVars
    <2>6. r <= issued
      BY <2>1 DEF TypeOK, UnissuedLast, Requests
    <2>7. UnissuedLast'
      <3>1. /\ \A q \in Requests \ {r} : requests'[q] = requests[q]
            /\ issued' = issued
        BY <1>4, <2>1, PhaseType DEF Register
      <3> QED BY <2>6, <3>1 DEF UnissuedLast, TypeOK, Requests
    <2>8. NoOrphan'
      BY <1>4, <2>1, PhaseType, SignalType DEF NoOrphan, Register
    <2> QED BY <2>5, <2>7, <2>8
  <1>5. ASSUME NEW r \in Requests, HandleStop(r)
        PROVE  IInv'
    <2> USE DEF IInv
    <2>1. Phase(r, "answered") /\ requests[r].phase = "received"
      BY <1>5 DEF HandleStop
    <2>2. RequestsType'
      BY <2>1, PhaseType
    <2>3. stopChannel' \in [Requests -> {"none", "open", "signalled"}]
      BY <1>5, SignalType DEF HandleStop
    <2>4. session' \in 0 .. MaxRequests
      BY <1>5 DEF HandleStop, Requests
    <2>5. TypeOK'
      BY <1>5, <2>2, <2>3, <2>4 DEF TypeOK, RequestsType, HandleStop, pipelineVars
    <2>6. r <= issued
      BY <2>1 DEF TypeOK, UnissuedLast, Requests
    <2>7. UnissuedLast'
      <3>1. /\ \A q \in Requests \ {r} : requests'[q] = requests[q]
            /\ issued' = issued
        BY <1>5, <2>1, PhaseType DEF HandleStop
      <3> QED BY <2>6, <3>1 DEF UnissuedLast, TypeOK, Requests
    <2>8. NoOrphan'
      BY <1>5, <2>1, PhaseType, SignalType DEF NoOrphan, HandleStop
    <2> QED BY <2>5, <2>7, <2>8
  <1>6. ASSUME NEW p \in Requests, Pipeline(p) \/ SenderWindow(p) \/ SenderFails(p)
        PROVE  IInv'
    <2>1. UNCHANGED <<service, sessionVars, stopChannel>>
      BY <1>6 DEF Pipeline, SenderStarts, SenderBindFails, SenderEnds, SupervisorEnds,
                  SenderWindow, SenderFails
    <2>2. TypeOK'
      <3>1. sender' \in [Requests -> {"none", "starting", "streaming", "ended", "unbound", "failed"}]
        BY <1>6 DEF IInv, TypeOK, Pipeline, SenderStarts, SenderBindFails, SenderEnds,
                    SupervisorEnds, SenderWindow, SenderFails
      <3>2. supervisor' \in [Requests -> {"none", "watching", "done", "cancelled"}]
        BY <1>6 DEF IInv, TypeOK, Pipeline, SenderStarts, SenderBindFails, SenderEnds,
                    SupervisorEnds, SenderWindow, SenderFails
      <3>3. active' \in BOOLEAN
        BY <1>6 DEF IInv, TypeOK, Pipeline, SenderStarts, SenderBindFails, SenderEnds,
                    SupervisorEnds, SenderWindow, SenderFails
      <3> QED BY <2>1, <3>1, <3>2, <3>3 DEF IInv, TypeOK, sessionVars
    <2>3. UnissuedLast' /\ NoOrphan'
      BY <2>1 DEF IInv, UnissuedLast, NoOrphan, sessionVars
    <2> QED BY <2>2, <2>3 DEF IInv
  <1>7. CASE Shutdown \/ StartService
    BY <1>7 DEF IInv, TypeOK, UnissuedLast, NoOrphan, Shutdown, StartService, sessionVars,
                pipelineVars
  <1>8. CASE ControlStops
    <2>1. TypeOK'
      BY <1>8, SignalType DEF IInv, TypeOK, ControlStops, pipelineVars
    <2>2. UnissuedLast' /\ NoOrphan'
      BY <1>8, SignalType DEF IInv, UnissuedLast, NoOrphan, ControlStops
    <2> QED BY <2>1, <2>2 DEF IInv
  <1>9. CASE DropRuntime
    <2>1. \A p \in Requests : stopChannel'[p] # "open"
      BY <1>9 DEF DropRuntime
    <2>2. TypeOK'
      BY <1>9 DEF IInv, TypeOK, DropRuntime
    <2>3. UnissuedLast'
      BY <1>9 DEF IInv, TypeOK, UnissuedLast, DropRuntime, InFlight
    <2> QED BY <2>1, <2>2, <2>3 DEF IInv, NoOrphan
  <1>10. CASE UNCHANGED vars
    BY <1>10 DEF IInv, TypeOK, UnissuedLast, NoOrphan, vars, sessionVars, pipelineVars
  <1> QED BY <1>1, <1>2, <1>3, <1>4, <1>5, <1>6, <1>7, <1>8, <1>9, <1>10 DEF Next, Handle

LEMMA Inductive == Spec => []IInv
  BY InitIInv, NextIInv, PTL DEF Spec

\* Requests, channels, threads and the flag of the control server keep their
\* types, for every number of requests.
THEOREM TypeCorrect == Spec => []TypeOK
  <1>1. IInv => TypeOK
    BY DEF IInv
  <1> QED BY Inductive, <1>1, PTL

\* Whatever START_UDP, STOP_UDP and shutdown do at the same time, a pipeline
\* that has not been told to stop is the session, or about to become it
\* (start_udp_audio_session, stop_udp_audio_session).
THEOREM NoOrphanHolds == Spec => []NoOrphan
  <1>1. IInv => NoOrphan
    BY DEF IInv
  <1> QED BY Inductive, <1>1, PTL

-----------------------------------------------------------------------------
(* The active flag                                                          *)

\* Why IdleNotActive holds: as long as the flag is set there is a sender that
\* is still streaming, and will clear it when it ends, or one that has failed.
ActiveHasSender ==
    active => \E p \in Requests : sender[p] \in {"streaming", "failed"}

\* What TypeOK and NoOrphan need not know: a START_UDP not yet served has no
\* sender, so that spawning its pipeline replaces none.
NotYetSent ==
    \A r \in Requests : requests[r].phase \in {"unissued", "received"} => sender[r] = "none"

LEMMA NotYetSentStep ==
    ASSUME IInv, NotYetSent, [Next]_vars
    PROVE  NotYetSent'
  <1> USE DEF IInv, NotYetSent
  <1>1. ASSUME NEW command \in {"START", "STOP"}, Issue(command)
        PROVE  NotYetSent'
    <2>1. issued + 1 \in Requests /\ sender' = sender
      BY <1>1, MaxRequestsAssumption DEF TypeOK, Issue, Requests, pipelineVars
    <2>2. requests[issued + 1].phase = "unissued"
      BY <2>1 DEF TypeOK, UnissuedLast, Requests
    <2>3. \A q \in Requests \ {issued + 1} : requests'[q] = requests[q]
      BY <1>1, <2>1 DEF Issue, TypeOK
    <2> QED BY <2>1, <2>2, <2>3
  <1>2. ASSUME NEW r \in Requests, Handle(r)
        PROVE  NotYetSent'
    <2>1. PICK ph \in {"spawned", "failed", "answered"} : Phase(r, ph)
      BY <1>2 DEF Handle, SpawnPipeline, SpawnFails, Register, HandleStop
    <2>2. /\ requests'[r].phase = ph
          /\ \A q \in Requests \ {r} : requests'[q] = requests[q]
      BY <2>1, PhaseType
    <2>3. \A q \in Requests \ {r} : sender'[q] = sender[q]
      BY <1>2 DEF Handle, SpawnPipeline, SpawnFails, Register, HandleStop, TypeOK, pipelineVars
    <2> QED BY <2>2, <2>3
  <1>3. ASSUME NEW p \in Requests, Pipeline(p) \/ SenderWindow(p) \/ SenderFails(p)
        PROVE  NotYetSent'
    <2>1. requests' = requests
      BY <1>3 DEF Pipeline, SenderStarts, SenderBindFails, SenderEnds, SupervisorEnds,
                  SenderWindow, SenderFails, sessionVars
    <2>2. \A q \in Requests : sender[q] = "none" => sender'[q] = "none"
      BY <1>3 DEF Pipeline, SenderStarts, SenderBindFails, SenderEnds, SupervisorEnds,
                  SenderWindow, SenderFails, TypeOK
    <2> QED BY <2>1, <2>2
  <1>4. CASE Shutdown \/ ControlStops \/ StartService \/ UNCHANGED vars
    BY <1>4 DEF Shutdown, ControlStops, StartService, vars, sessionVars, pipelineVars
  <1>5. CASE DropRuntime
    BY <1>5 DEF DropRuntime, InFlight
  <1> QED BY <1>1, <1>2, <1>3, <1>4, <1>5 DEF Next

LEMMA ActiveHasSenderStep ==
    ASSUME TypeOK, NotYetSent, ActiveHasSender, [Next]_vars
    PROVE  ActiveHasSender'
  <1> USE DEF ActiveHasSender
  <1>1. ASSUME NEW r \in Requests, SpawnPipeline(r)
        PROVE  ActiveHasSender'
    BY <1>1 DEF SpawnPipeline, NotYetSent, TypeOK
  <1>2. ASSUME NEW p \in Requests, SenderStarts(p) \/ SenderWindow(p) \/ SenderFails(p)
        PROVE  ActiveHasSender'
    <2>1. sender'[p] \in {"streaming", "failed"}
      BY <1>2 DEF SenderStarts, SenderWindow, SenderFails, TypeOK
    <2> QED BY <2>1
  <1>3. ASSUME NEW p \in Requests, SenderBindFails(p)
        PROVE  ActiveHasSender'
    BY <1>3 DEF SenderBindFails, TypeOK
  <1>4. ASSUME NEW p \in Requests, SenderEnds(p) \/ SupervisorEnds(p)
        PROVE  ActiveHasSender'
    BY <1>4 DEF SenderEnds, SupervisorEnds
  <1>5. CASE UNCHANGED <<sender, active>>
    BY <1>5
  <1>6. ASSUME NEW r \in Requests, Handle(r), ~SpawnPipeline(r)
        PROVE  UNCHANGED <<sender, active>>
    BY <1>6 DEF Handle, SpawnFails, Register, HandleStop, pipelineVars
  <1>7. ASSUME \/ \E command \in {"START", "STOP"} : Issue(command)
               \/ Shutdown \/ ControlStops \/ DropRuntime \/ StartService \/ UNCHANGED vars
        PROVE  UNCHANGED <<sender, active>>
    BY <1>7 DEF Issue, Shutdown, ControlStops, DropRuntime, StartService, vars, pipelineVars
  <1> QED BY <1>1, <1>2, <1>3, <1>4, <1>5, <1>6, <1>7 DEF Next, Pipeline

\* When every pipeline is over and no send has failed, the flag that STATUS and
\* the admin page read is clear, whichever thread of whichever session wrote it
\* last (mark_udp_stream_inactive, reset_udp_stream, update_udp_send_window).
THEOREM IdleNotActiveHolds == Spec => []IdleNotActive
  <1>1. Init => NotYetSent /\ ActiveHasSender
    BY DEF Init, NotYetSent, ActiveHasSender
  <1>2. IInv /\ NotYetSent /\ ActiveHasSender /\ [Next]_vars => (NotYetSent /\ ActiveHasSender)'
    BY NotYetSentStep, ActiveHasSenderStep DEF IInv
  <1>3. ActiveHasSender => IdleNotActive
    BY DEF ActiveHasSender, IdleNotActive, AllOver, Over, SenderOver
  <1> QED BY Inductive, <1>1, <1>2, <1>3, PTL DEF Spec
=============================================================================
