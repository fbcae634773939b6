-------------------------- MODULE ServiceProofs --------------------------
(***************************************************************************)
(* Proofs about Service and the publisher in it, for any servers beside the  *)
(* publisher, any number of starts and of network changes: the context of    *)
(* the Windows callbacks outlives every notification that was cancelled, and  *)
(* when the tray says that the service is stopped, its runtime is gone.      *)
(***************************************************************************)
EXTENDS Service, TLAPS

-----------------------------------------------------------------------------
(* The inductive invariant                                                  *)

\* What the publisher owns wherever it is; a callback runs only for a
\* notification that is registered, because CancelMibChangeNotify2 waits, or
\* that it has failed to cancel.
Ownership ==
    /\ publisher \in {"off", "publish", "registerInterface", "over"} => registered = {}
    /\ publisher \in {"off", "over"} => context # "live"
    /\ publisher \in {"publish", "registerInterface"} => context = "none"
    /\ publisher \notin {"off", "publish", "registerInterface", "over"} => context = "live"
    /\ \A k \in Kinds : callback[k] # "idle" => k \in registered \union leaked

\* Calls of callbacks that have not sent their value yet.
Unsent(k) == IF callback[k] = "idle" THEN 0 ELSE 1

\* Every version of the channel comes from a change of its own, and no value
\* is greater than the number of times one has been sent: this bounds them.
Counting ==
    /\ version + Unsent("interface") + Unsent("address") <= network
    /\ value <= version
    /\ \A k \in Kinds : current[k] <= version /\ (callback[k] = "idle" => current[k] = 0)

\* The tasks live in the runtime, and the runtime in the service thread.
Runtime ==
    thread \in {"none", "building", "finished"} =>
        publisher \in {"off", "over"} /\ \A s \in Servers : server[s] = "off"

\* What the tray knows of the thread: between two clicks it has the handle of
\* every thread that has not been joined.
TrayKnows ==
    /\ tray = "boot" => ~handle /\ thread = "none" /\ menu = "none"
    /\ tray = "idle" => (handle <=> thread # "none") /\ (handle => menu # "stopped")
    /\ tray \in {"stopping", "quitting"} => ~handle /\ menu # "stopped"
    /\ tray = "exited" => thread = "none"

MdnsInv == MdnsTypeOK /\ Ownership /\ Counting
TrayType ==
    /\ tray \in {"boot", "idle", "stopping", "quitting", "exited"}
    /\ handle \in BOOLEAN /\ shutdown \in BOOLEAN
    /\ menu \in {"none", "running", "stopped"}
    /\ starts \in 0 .. MaxStarts
    /\ thread \in {"none", "building", "running", "dropping", "finished"}
    /\ server \in [Servers -> {"off", "running", "ok", "error"}]

IInv == MdnsInv /\ TrayType /\ Runtime /\ TrayKnows

-----------------------------------------------------------------------------
(* The publisher and the callbacks                                          *)

LEMMA MdnsInitially == MdnsInit => MdnsInv
  BY MaxChangesAssumption DEF MdnsInit, MdnsInv, MdnsTypeOK, Ownership, Counting, Unsent, Kinds

\* The state of a callback matters to the rest by these facts only.
LEMMA NetworkStep ==
    ASSUME MdnsInv, NEW k \in Kinds, NetworkChanges(k)
    PROVE  MdnsInv'
  <1> USE DEF MdnsInv
  <1> USE DEF NetworkChanges, publisherVars, watcherVars, channelVars
  <1>1. network' = network + 1 /\ network' \in 0 .. MaxChanges
    BY MaxChangesAssumption DEF MdnsTypeOK
  <1>2. CASE k \in registered \union leaked
    <2>1. /\ callback' = [callback EXCEPT ![k] = "called"] /\ told' = network + 1
          /\ callback[k] = "idle"
      BY <1>2
    <2>2. MdnsTypeOK'
      BY <1>1, <2>1 DEF MdnsTypeOK
    <2>3. Ownership'
      BY <1>2, <2>1 DEF Ownership, MdnsTypeOK
    <2>4. Counting'
      BY <1>1, <2>1 DEF Counting, MdnsTypeOK, Unsent, Kinds
    <2> QED BY <2>2, <2>3, <2>4
  <1>3. CASE k \notin registered \union leaked
    BY <1>1, <1>3 DEF MdnsTypeOK, Ownership, Counting, Unsent, Kinds
  <1> QED BY <1>2, <1>3

LEMMA CallbackStep ==
    ASSUME MdnsInv, NEW k \in Kinds, Callback(k)
    PROVE  MdnsInv'
  <1> USE DEF MdnsInv
  <1>1. CASE CallbackBorrows(k)
    <2> USE <1>1 DEF CallbackBorrows, publisherVars, watcherVars, channelVars
    <2>1. MdnsTypeOK'
      BY DEF MdnsTypeOK
    <2>2. Ownership'
      BY DEF Ownership, MdnsTypeOK
    <2>3. Counting'
      BY DEF Counting, MdnsTypeOK, Unsent, Kinds
    <2> QED BY <2>1, <2>2, <2>3
  <1>2. CASE CallbackSends(k)
    <2> USE <1>2 DEF CallbackSends, publisherVars, watcherVars
    <2>1. version' <= network /\ value' <= version'
      BY DEF Counting, MdnsTypeOK, Unsent, Kinds
    <2>2. MdnsTypeOK'
      BY <2>1, MaxChangesAssumption DEF MdnsTypeOK
    <2>3. Ownership'
      BY DEF Ownership, MdnsTypeOK
    <2>4. Counting'
      BY <2>1 DEF Counting, MdnsTypeOK, Unsent, Kinds
    <2> QED BY <2>2, <2>3, <2>4
  <1>3. CASE CallbackUsesFreed(k)
    <2> USE <1>3 DEF CallbackUsesFreed, publisherVars, watcherVars, channelVars
    <2>1. MdnsTypeOK'
      BY MaxChangesAssumption DEF MdnsTypeOK
    <2>2. Ownership'
      BY DEF Ownership, MdnsTypeOK
    <2>3. Counting'
      BY DEF Counting, MdnsTypeOK, Unsent, Kinds
    <2> QED BY <2>1, <2>2, <2>3
  <1> QED BY <1>1, <1>2, <1>3 DEF Callback

\* A step of the task that leaves callbacks and channel alone.
LEMMA PublisherStep ==
    ASSUME MdnsInv, PublisherRuns \/ SelectShutdown \/ SelectChange \/ Debounced \/ DropPublisher
    PROVE  MdnsInv'
  <1> USE DEF MdnsInv
  <1>1. UNCHANGED <<network, told, callbackVars, channelVars>>
    BY DEF PublisherRuns, Publish, RegisterInterface, RegisterAddress, Unpublish, Republish,
           Farewell, CancelNotify, FreeContext, SelectShutdown, SelectChange, Debounced,
           DropPublisher
  <1>2. Counting'
    BY <1>1 DEF Counting, Unsent, callbackVars, channelVars
  <1>3. CASE Publish \/ Republish \/ Farewell \/ DropPublisher
    BY <1>1, <1>2, <1>3 DEF Publish, Republish, Farewell, DropPublisher, Ends, MdnsTypeOK,
                            Ownership, callbackVars, channelVars, watcherVars
  <1>4. CASE RegisterInterface \/ RegisterAddress
    BY <1>1, <1>2, <1>4 DEF RegisterInterface, RegisterAddress, Ends, MdnsTypeOK, Ownership,
                            callbackVars, channelVars, watcherVars, Kinds
  <1>5. CASE Unpublish \/ SelectShutdown \/ SelectChange \/ Debounced
    BY <1>1, <1>2, <1>5 DEF Unpublish, SelectShutdown, SelectChange, Debounced, MdnsTypeOK,
                            Ownership, callbackVars, channelVars, watcherVars
  <1>6. ASSUME NEW k \in Kinds, CancelNotify(k)
        PROVE  MdnsInv'
    BY <1>1, <1>2, <1>6 DEF CancelNotify, MdnsTypeOK, Ownership, callbackVars, channelVars,
                            publisherVars
  <1>7. CASE FreeContext
    BY <1>1, <1>2, <1>7 DEF FreeContext, MdnsTypeOK, Ownership, callbackVars, channelVars
  <1> QED BY <1>3, <1>4, <1>5, <1>6, <1>7 DEF PublisherRuns

\* A publisher is spawned where there is none left.
LEMMA SpawnStep ==
    ASSUME MdnsInv, publisher \in {"off", "over"}, SpawnPublisher
    PROVE  MdnsInv'
  BY MaxChangesAssumption
     DEF MdnsInv, MdnsTypeOK, Ownership, Counting, Unsent, Kinds, SpawnPublisher

LEMMA MdnsUnchanged == ASSUME MdnsInv, UNCHANGED mdnsVars PROVE MdnsInv'
  BY DEF MdnsInv, MdnsTypeOK, Ownership, Counting, Unsent, mdnsVars, publisherVars, watcherVars,
         callbackVars, channelVars

-----------------------------------------------------------------------------
(* The service                                                              *)

LEMMA InitIInv == Init => IInv
  <1>1. Init => MdnsInv
    BY MdnsInitially DEF Init
  <1>2. Init => TrayType
    <2>1. 0 \in 0 .. MaxStarts
      BY MaxStartsAssumption
    <2>2. [s \in Servers |-> "off"] \in [Servers -> {"off", "running", "ok", "error"}]
      OBVIOUS
    <2> QED BY <2>1, <2>2 DEF Init, TrayType
  <1>3. Init => Runtime /\ TrayKnows
    BY DEF Init, MdnsInit, Runtime, TrayKnows
  <1> QED BY <1>1, <1>2, <1>3 DEF IInv

\* The clicks, which start, cancel and join the service thread.
LEMMA TrayStep ==
    ASSUME IInv,
           Boot \/ ClickOther \/ ClickToggleStops \/ ClickToggleStarts \/ ClickQuit \/ Join
    PROVE  IInv'
  <1>1. UNCHANGED <<server, mdnsVars>>
    BY DEF Boot, ClickOther, ClickToggleStops, ClickToggleStarts, ClickQuit, Join
  <1>2. MdnsInv'
    BY <1>1, MdnsUnchanged DEF IInv
  <1>3. publisher' = publisher /\ server' = server
    BY <1>1 DEF mdnsVars, publisherVars
  <1>4. CASE Boot
    <2>1. TrayType'
      <3>1. starts' \in 0 .. MaxStarts
        BY <1>4, MaxStartsAssumption DEF IInv, TrayType, Boot, Start
      <3>2. /\ handle' \in BOOLEAN /\ shutdown' \in BOOLEAN /\ thread' \in {"none", "building"}
            /\ menu' \in {"running", "stopped"}
        BY <1>4 DEF Boot, Start, MenuText
      <3> QED BY <1>3, <1>4, <3>1, <3>2 DEF IInv, TrayType, Boot
    <2>2. Runtime'
      BY <1>3, <1>4 DEF IInv, Boot, Start, Runtime, TrayKnows
    <2>3. TrayKnows'
      BY <1>4 DEF Boot, Start, MenuText, TrayKnows
    <2> QED BY <1>2, <2>1, <2>2, <2>3 DEF IInv
  <1>5. CASE ClickOther
    BY <1>2, <1>3, <1>5 DEF IInv, ClickOther, Finished, TrayType, Runtime, TrayKnows
  <1>6. CASE ClickToggleStops
    BY <1>2, <1>3, <1>6 DEF IInv, ClickToggleStops, Finished, TrayType, Runtime, TrayKnows
  <1>7. CASE ClickToggleStarts
    <2>1. TrayType'
      <3>1. starts' \in 0 .. MaxStarts
        BY <1>7, MaxStartsAssumption DEF IInv, TrayType, ClickToggleStarts, Start
      <3>2. /\ handle' \in BOOLEAN /\ shutdown' \in BOOLEAN /\ thread' \in {"none", "building"}
            /\ menu' \in {"running", "stopped"}
        BY <1>7 DEF ClickToggleStarts, Start, MenuText
      <3> QED BY <1>3, <1>7, <3>1, <3>2 DEF IInv, TrayType, ClickToggleStarts
    <2>2. Runtime'
      <3>1. thread \in {"none", "finished"}
        BY <1>7 DEF IInv, ClickToggleStarts, Finished, TrayKnows
      <3> QED BY <1>3, <3>1 DEF IInv, Runtime
    <2>3. TrayKnows'
      BY <1>7 DEF ClickToggleStarts, Start, MenuText, TrayKnows
    <2> QED BY <1>2, <2>1, <2>2, <2>3 DEF IInv
  <1>8. CASE ClickQuit
    BY <1>2, <1>3, <1>8 DEF IInv, ClickQuit, Finished, TrayType, Runtime, TrayKnows
  <1>9. CASE Join
    <2>1. TrayType'
      BY <1>3, <1>9 DEF IInv, Join, TrayType
    <2>2. Runtime'
      BY <1>3, <1>9 DEF IInv, Join, Runtime
    <2>3. TrayKnows'
      BY <1>9 DEF IInv, Join, TrayKnows
    <2> QED BY <1>2, <2>1, <2>2, <2>3 DEF IInv
  <1> QED BY <1>4, <1>5, <1>6, <1>7, <1>8, <1>9

\* The service thread, which builds the runtime and drops it.
LEMMA ServiceThreadStep ==
    ASSUME IInv, ServiceThread
    PROVE  IInv'
  <1>1. CASE BuildRuntime
    <2>1. UNCHANGED <<trayVars, shutdown>> /\ thread = "building"
      BY <1>1 DEF BuildRuntime
    <2>2. CASE /\ thread' = "running"
               /\ server' = [s \in Servers |-> "running"]
               /\ SpawnPublisher
      <3>1. MdnsInv'
        BY <2>1, SpawnStep, <2>2 DEF IInv, Runtime
      <3> QED BY <2>1, <2>2, <3>1 DEF IInv, TrayType, Runtime, TrayKnows, trayVars
    <2>3. CASE thread' = "finished" /\ UNCHANGED <<server, mdnsVars>>
      <3>1. MdnsInv' /\ publisher' = publisher
        BY <2>3, MdnsUnchanged DEF IInv, mdnsVars, publisherVars
      <3> QED BY <2>1, <2>3, <3>1 DEF IInv, TrayType, Runtime, TrayKnows, trayVars
    <2> QED BY <1>1, <2>2, <2>3 DEF BuildRuntime
  <1>2. CASE AppReturns \/ ThreadEnds
    <2>1. MdnsInv' /\ publisher' = publisher
      BY <1>2, MdnsUnchanged DEF IInv, AppReturns, ThreadEnds, mdnsVars, publisherVars
    <2>2. UNCHANGED <<trayVars, server>> /\ thread \in {"running", "dropping"}
          /\ shutdown' \in BOOLEAN /\ thread' \in {"dropping", "finished"}
      BY <1>2 DEF IInv, TrayType, AppReturns, ThreadEnds
    <2>3. thread' = "finished" => AllDropped
      BY <1>2 DEF AppReturns, ThreadEnds
    <2> QED BY <2>1, <2>2, <2>3 DEF IInv, AllDropped, TrayType, Runtime, TrayKnows, trayVars
  <1>3. ASSUME NEW s \in Servers, DropServer(s)
        PROVE  IInv'
    <2>1. MdnsInv'
      BY <1>3, MdnsUnchanged DEF IInv, DropServer
    <2> QED BY <1>3, <2>1 DEF IInv, DropServer, TrayType, Runtime, TrayKnows, trayVars
  <1>4. CASE DropMdns
    <2>1. MdnsInv'
      BY <1>4, PublisherStep DEF IInv, DropMdns
    <2> QED BY <1>4, <2>1 DEF IInv, DropMdns, TrayType, Runtime, TrayKnows, trayVars
  <1> QED BY <1>1, <1>2, <1>3, <1>4 DEF ServiceThread

\* The tasks, the publisher between two awaits also while it is dropped.
LEMMA TaskStep ==
    ASSUME IInv,
           \/ \E s \in Servers : ServerFails(s) \/ ServerShutsDown(s)
           \/ PublisherPolled \/ PublisherGoesOn
           \/ \E k \in Kinds : CallbackRuns(k) \/ NetworkChange(k)
    PROVE  IInv'
  <1>1. ASSUME NEW s \in Servers, ServerFails(s) \/ ServerShutsDown(s)
        PROVE  IInv'
    <2>1. MdnsInv' /\ publisher' = publisher
      BY <1>1, MdnsUnchanged DEF IInv, ServerFails, ServerShutsDown, mdnsVars, publisherVars
    <2> QED
      BY <1>1, <2>1 DEF IInv, ServerFails, ServerShutsDown, TrayType, Runtime, TrayKnows, trayVars
  <1>2. ASSUME PublisherPolled \/ PublisherGoesOn
        PROVE  IInv'
    <2>1. MdnsInv'
      BY <1>2, PublisherStep DEF IInv, PublisherPolled, PublisherGoesOn
    <2>2. UNCHANGED <<trayVars, thread, shutdown, server>>
      BY <1>2 DEF PublisherPolled, PublisherGoesOn
    <2>3. publisher \notin {"off", "over"}
      BY <1>2 DEF PublisherPolled, PublisherGoesOn, PublisherRuns, Publish, RegisterInterface,
                  RegisterAddress, Unpublish, Republish, Farewell, CancelNotify, FreeContext,
                  SelectShutdown, SelectChange, Debounced
    <2> QED BY <2>1, <2>2, <2>3 DEF IInv, TrayType, Runtime, TrayKnows, trayVars
  <1>3. ASSUME NEW k \in Kinds, CallbackRuns(k) \/ NetworkChange(k)
        PROVE  IInv'
    <2>1. MdnsInv'
      BY <1>3, CallbackStep, NetworkStep DEF IInv, CallbackRuns, NetworkChange
    <2>2. UNCHANGED <<publisher, trayVars, thread, shutdown, server>>
      BY <1>3 DEF CallbackRuns, NetworkChange, Callback, CallbackBorrows, CallbackSends,
                  CallbackUsesFreed, NetworkChanges, publisherVars
    <2> QED BY <2>1, <2>2 DEF IInv, TrayType, Runtime, TrayKnows, trayVars
  <1> QED BY <1>1, <1>2, <1>3

LEMMA NextIInv == IInv /\ [Next]_vars => IInv'
  <1>1. ASSUME IInv, UNCHANGED vars
        PROVE  IInv'
    <2>1. MdnsInv'
      BY <1>1, MdnsUnchanged DEF IInv, vars
    <2> QED
      BY <1>1, <2>1 DEF IInv, TrayType, Runtime, TrayKnows, vars, trayVars, mdnsVars, publisherVars
  <1>2. Exited => UNCHANGED vars
    BY DEF Exited
  <1> QED BY <1>1, <1>2, TrayStep, ServiceThreadStep, TaskStep DEF Next

LEMMA Inductive == Spec => []IInv
  BY InitIInv, NextIInv, PTL DEF Spec

\* However the publisher ends, by a failed publication, registration or refresh, a
\* shutdown, or a runtime that is dropped: of a notification whose cancellation did not
\* fail no callback is running, and none can be called, once the context is freed
\* (watch_network_changes and the Drop of NetworkChangeWatcher).
THEOREM ContextSafeHolds == Spec => []ContextSafe
  <1>1. IInv => ContextSafe
    BY DEF IInv, MdnsInv, Ownership, ContextSafe
  <1> QED BY Inductive, <1>1, PTL

\* When the menu says stopped, or the tray has quit, the thread of the service, the tasks
\* of its runtime and the publisher's context are gone, and both cancellations have been
\* tried, whichever clicks and failures led there (toggle_service, ServiceHandle::stop).
THEOREM StoppedRuntimeGoneHolds == Spec => []StoppedRuntimeGone
  <1>1. IInv => TypeOK
    BY DEF IInv, MdnsInv, TrayType, TypeOK
  <1>2. IInv => (menu = "stopped" \/ tray = "exited" => thread = "none")
    BY DEF IInv, TrayType, TrayKnows
  <1>3. IInv => StoppedRuntimeGone
    BY <1>1, <1>2 DEF IInv, MdnsInv, Ownership, Runtime, StoppedRuntimeGone
  <1> QED BY Inductive, <1>3, PTL
=============================================================================
