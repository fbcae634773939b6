------------------------------ MODULE Service ------------------------------
(***************************************************************************)
(* The life of the desktop service: the tray's event loop and the handle it  *)
(* keeps, tray.rs; the service thread with its tokio runtime; the three      *)
(* tasks of app::run, app.rs, of which the mDNS publisher is modelled by     *)
(* MdnsPublisher.                                                          *)
(*                                                                         *)
(* The tray looks at the service only when a menu item is clicked.  Any of   *)
(* the three tasks may end with an error, which ends the service; the        *)
(* runtime is dropped when app::run returns, and drops the tasks that are    *)
(* left.  What the control server does with sessions is AudioSession's.    *)
(***************************************************************************)
EXTENDS MdnsPublisher

CONSTANTS
    Servers,      \* the tasks beside the publisher: control_server::run, web_admin::run
    MaxStarts     \* bound: starts of the service in a behaviour

ASSUME MaxStartsAssumption == MaxStarts \in Nat \ {0}

VARIABLES
    tray,       \* the event loop: where it is
    handle,     \* service.is_some()
    menu,       \* what the menu says; "none" before it is built
    starts,     \* number of starts so far
    thread,     \* the service thread; "none" when it has been joined
    shutdown,   \* the cancellation token
    server      \* server task -> where it is

trayVars == <<tray, handle, menu, starts>>
vars == <<trayVars, thread, shutdown, server, mdnsVars>>

Init ==
    /\ tray = "boot" /\ handle = FALSE /\ menu = "none" /\ starts = 0
    /\ thread = "none" /\ shutdown = FALSE
    /\ server = [s \in Servers |-> "off"]
    /\ MdnsInit

MenuText(running) == IF running THEN "running" ELSE "stopped"

-----------------------------------------------------------------------------
(* The tray                                                                 *)

\* ServiceHandle::start; the thread may fail to spawn.
Start ==
    /\ starts < MaxStarts
    /\ starts' = starts + 1
    /\ shutdown' = FALSE
    /\ \/ thread' = "building" /\ handle' = TRUE
       \/ thread' = "none" /\ handle' = FALSE

\* run: start the service, then build the menu.
Boot ==
    /\ tray = "boot"
    /\ Start
    /\ menu' = MenuText(handle')
    /\ tray' = "idle"
    /\ UNCHANGED <<server, mdnsVars>>

\* refresh_finished_service: a thread that has ended is joined.
Finished == handle /\ thread = "finished"

\* An item that only refreshes, as far as the service goes: open the admin
\* page, which is disabled while the menu says stopped, and autostart.
ClickOther ==
    /\ tray = "idle" /\ Finished
    /\ thread' = "none" /\ handle' = FALSE /\ menu' = "stopped"
    /\ UNCHANGED <<tray, starts, shutdown, server, mdnsVars>>

\* toggle_service of a running service: cancel, then wait for the thread.
ClickToggleStops ==
    /\ tray = "idle" /\ handle /\ ~Finished
    /\ handle' = FALSE /\ shutdown' = TRUE
    /\ tray' = "stopping"
    /\ UNCHANGED <<menu, starts, thread, server, mdnsVars>>

\* toggle_service when there is none, or none any more after the refresh.
ClickToggleStarts ==
    /\ tray = "idle" /\ (~handle \/ Finished)
    /\ Start
    /\ menu' = MenuText(handle')
    /\ UNCHANGED <<tray, server, mdnsVars>>

\* Mutant of ClickQuit: joins without cancelling.
ClickQuitJoins ==
    /\ tray = "idle"
    /\ handle' = FALSE
    /\ IF handle /\ ~Finished
       THEN tray' = "quitting" /\ UNCHANGED <<thread, menu>>
       ELSE /\ tray' = "exited" /\ thread' = "none"
            /\ menu' = IF Finished THEN "stopped" ELSE menu
    /\ UNCHANGED <<starts, shutdown, server, mdnsVars>>

\* refresh, then stop the service if there still is one, and exit.
ClickQuit ==
    /\ tray = "idle"
    /\ handle' = FALSE
    /\ IF handle /\ ~Finished
       THEN tray' = "quitting" /\ shutdown' = TRUE /\ UNCHANGED <<thread, menu>>
       ELSE /\ tray' = "exited" /\ thread' = "none" /\ UNCHANGED shutdown
            /\ menu' = IF Finished THEN "stopped" ELSE menu
    /\ UNCHANGED <<starts, server, mdnsVars>>

\* Mutant of Join: cancelled is taken for stopped.
JoinNot ==
    /\ tray \in {"stopping", "quitting"}
    /\ IF tray = "stopping" THEN tray' = "idle" /\ menu' = "stopped"
                            ELSE tray' = "exited" /\ UNCHANGED menu
    /\ UNCHANGED <<handle, starts, thread, shutdown, server, mdnsVars>>

\* ServiceHandle::stop: thread.join() returns.
Join ==
    /\ tray \in {"stopping", "quitting"}
    /\ thread = "finished"
    /\ thread' = "none"
    /\ IF tray = "stopping" THEN tray' = "idle" /\ menu' = "stopped"
                            ELSE tray' = "exited" /\ UNCHANGED menu
    /\ UNCHANGED <<handle, starts, shutdown, server, mdnsVars>>

-----------------------------------------------------------------------------
(* The service thread: run_service and app::run                             *)

\* The runtime is built and the three tasks are spawned, or it is not built.
BuildRuntime ==
    /\ thread = "building"
    /\ \/ /\ thread' = "running"
          /\ server' = [s \in Servers |-> "running"]
          /\ SpawnPublisher
       \/ thread' = "finished" /\ UNCHANGED <<server, mdnsVars>>
    /\ UNCHANGED <<trayVars, shutdown>>

Failed == (\E s \in Servers : server[s] = "error") \/ (publisher = "over" /\ outcome = "error")
Ended == (\E s \in Servers : server[s] = "ok") \/ (publisher = "over" /\ outcome = "ok")

\* Mutant of AppReturns: a task that fails is not returned from the select.
AppReturnsUnlessFailed ==
    /\ thread = "running"
    /\ shutdown \/ Ended
    /\ shutdown' = TRUE
    /\ thread' = "dropping"
    /\ UNCHANGED <<trayVars, server, mdnsVars>>

\* The select: a failed task returns its error past the cancel; a task that
\* ended well, or the shutdown, cancels the children.
AppReturns ==
    /\ thread = "running"
    /\ \/ Failed /\ UNCHANGED shutdown
       \/ (shutdown \/ Ended) /\ shutdown' = TRUE
    /\ thread' = "dropping"
    /\ UNCHANGED <<trayVars, server, mdnsVars>>

\* The runtime drops a server at its await ...
DropServer(s) ==
    /\ thread = "dropping" /\ server[s] # "off"
    /\ server' = [server EXCEPT ![s] = "off"]
    /\ UNCHANGED <<trayVars, thread, shutdown, mdnsVars>>

\* ... and the publisher at one of its own.
DropMdns ==
    /\ thread = "dropping"
    /\ DropPublisher
    /\ UNCHANGED <<trayVars, thread, shutdown, server>>

AllDropped == publisher = "over" /\ \A s \in Servers : server[s] = "off"

ThreadEnds ==
    /\ thread = "dropping" /\ AllDropped
    /\ thread' = "finished"
    /\ UNCHANGED <<trayVars, shutdown, server, mdnsVars>>

ServiceThread ==
    \/ BuildRuntime \/ AppReturns
    \/ \E s \in Servers : DropServer(s)
    \/ DropMdns \/ ThreadEnds

-----------------------------------------------------------------------------
(* The tasks                                                                *)

\* The port is taken, the watcher thread cannot be spawned, accept fails.
ServerFails(s) ==
    /\ thread = "running" /\ server[s] = "running"
    /\ server' = [server EXCEPT ![s] = "error"]
    /\ UNCHANGED <<trayVars, thread, shutdown, mdnsVars>>

ServerShutsDown(s) ==
    /\ thread = "running" /\ shutdown /\ server[s] = "running"
    /\ server' = [server EXCEPT ![s] = "ok"]
    /\ UNCHANGED <<trayVars, thread, shutdown, mdnsVars>>

\* The publisher is polled as long as the runtime lives; what it does between
\* two awaits goes on while the runtime is being dropped.
PublisherPolled ==
    /\ thread = "running"
    /\ (shutdown /\ SelectShutdown) \/ SelectChange \/ Debounced
    /\ UNCHANGED <<trayVars, thread, shutdown, server>>

PublisherGoesOn == PublisherRuns /\ UNCHANGED <<trayVars, thread, shutdown, server>>

CallbackRuns(k) == Callback(k) /\ UNCHANGED <<trayVars, thread, shutdown, server>>

NetworkChange(k) == NetworkChanges(k) /\ UNCHANGED <<trayVars, thread, shutdown, server>>

Exited == tray = "exited" /\ UNCHANGED vars

Next ==
    \/ Boot \/ ClickOther \/ ClickToggleStops \/ ClickToggleStarts \/ ClickQuit \/ Join
    \/ ServiceThread
    \/ \E s \in Servers : ServerFails(s) \/ ServerShutsDown(s)
    \/ PublisherPolled \/ PublisherGoesOn
    \/ \E k \in Kinds : CallbackRuns(k) \/ NetworkChange(k)
    \/ Exited

\* Threads, tasks and callbacks run; nothing obliges the user to click.
Fairness ==
    /\ WF_vars(Boot) /\ WF_vars(Join)
    /\ WF_vars(ServiceThread)
    /\ \A s \in Servers : WF_vars(DropServer(s))
    /\ WF_vars(DropMdns)
    /\ WF_vars(PublisherPolled) /\ WF_vars(PublisherGoesOn)
    /\ \A k \in Kinds : WF_vars(CallbackRuns(k))

Spec == Init /\ [][Next]_vars /\ Fairness

-----------------------------------------------------------------------------
(* Properties                                                               *)

TypeOK ==
    /\ MdnsTypeOK
    /\ tray \in {"boot", "idle", "stopping", "quitting", "exited"}
    /\ handle \in BOOLEAN /\ shutdown \in BOOLEAN
    /\ menu \in {"none", "running", "stopped"}
    /\ starts \in 0 .. MaxStarts
    /\ thread \in {"none", "building", "running", "dropping", "finished"}
    /\ server \in [Servers -> {"off", "running", "ok", "error"}]

\* When the menu says stopped, and when the tray has quit, the runtime of the service is
\* gone: its thread, the servers on their ports, and the publisher, which is inside no
\* blocking call and has tried to cancel its notifications and freed its context.  The
\* next start meets none of these.  Threads the service has spawned beside the runtime are
\* not meant: the watcher of the audio devices parks for ever, a session's threads end on
\* their own (AudioSession), and a notification that could not be cancelled calls back.
StoppedRuntimeGone ==
    /\ TypeOK
    /\ menu = "stopped" \/ tray = "exited" =>
        /\ thread = "none"
        /\ \A s \in Servers : server[s] = "off"
        /\ publisher \in {"off", "over"} /\ registered = {} /\ context # "live"

\* A task that fails takes the whole service down, and with it the two others.
FailureEndsService == thread = "running" /\ Failed ~> thread \in {"finished", "none"}

\* Quit ends the program whatever the service is doing, a refresh of the
\* publisher that blocks included.
QuitEnds == tray = "quitting" ~> tray = "exited" /\ thread = "none"
=============================================================================
