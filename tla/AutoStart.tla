----------------------------- MODULE AutoStart -----------------------------
(***************************************************************************)
(* The state of the Android app's page, main.dart: it scans for servers as   *)
(* long as it does not play, and plays the first one by itself if the user   *)
(* wants that and nothing blocks it.                                        *)
(*                                                                         *)
(* Dart runs one turn after the other: a tap, a timer, or the continuation of*)
(* an await.  What it waits for runs elsewhere: threads of the activity,      *)
(* MainActivity.kt, which ask a server over the network, and the playback     *)
(* service.  Their answers, and the calls of the activity, arrive in Dart in  *)
(* the order in which the activity's main thread sends them, toDart here.     *)
(* Intents reach the service in order, later; so do its broadcasts the        *)
(* activity.                                                                *)
(*                                                                         *)
(* The service is reduced to what PlaybackService shows of it: it plays after *)
(* a START, and it reports when it stops.                                   *)
(***************************************************************************)
EXTENDS Naturals, Sequences

CONSTANTS
    MaxTaps,   \* bound: taps of the user
    MaxEnds    \* bound: playbacks that end by themselves

ASSUME BoundsAssumption == MaxTaps \in Nat /\ MaxEnds \in Nat

VARIABLES
    isPlaying, block, autoStart, timer,  \* the page: fields of these names
    scan,        \* the call of _scan: none, or what it waits for
    starting,    \* source -> threads of the activity that start playback for it
    querying,    \* reason -> stopped handlers that wait for the server's status
    toDart,      \* answers and calls on their way to Dart
    intents,     \* intents on their way to the service
    broadcasts,  \* the service's broadcasts on their way to the activity
    playing,     \* the service plays
    taps, ends,
    lastTap      \* the user's last word about playback

pageVars == <<isPlaying, block, autoStart, timer, scan>>
nativeVars == <<starting, querying, toDart>>
serviceVars == <<intents, broadcasts, playing, ends>>
userVars == <<taps, lastTap>>
vars == <<pageVars, nativeVars, serviceVars, userVars>>

Sources == {"manual", "auto"}
\* Why a playback may end by itself.
EndReasons == {"udp_timeout", "output_device_changed"}

\* _autoStartBlockReasonForStopReason.
BlockFor(reason) ==
    CASE reason = "user" -> "manualStop"
      [] reason = "output_device_changed" -> "outputDeviceChanged"
      [] OTHER -> "none"

Add(f, x) == [f EXCEPT ![x] = @ + 1]
Remove(f, x) == [f EXCEPT ![x] = @ - 1]

Init ==
    /\ isPlaying = FALSE /\ block = "none" /\ autoStart \in BOOLEAN /\ timer = "null"
    /\ scan = "asked"
    /\ starting = [s \in Sources |-> 0] /\ querying = [r \in EndReasons |-> 0]
    /\ toDart = <<>> /\ intents = <<>> /\ broadcasts = <<>>
    /\ playing = FALSE /\ taps = 0 /\ ends = 0 /\ lastTap = "none"

-----------------------------------------------------------------------------
(* Turns of Dart                                                            *)

\* _scanRetryTimer after _scheduleScanRetryIfNeeded.  A timer that has fired
\* is not null until _scan gets to clear it.
Scheduled(plays, scans, t, reschedule) ==
    CASE plays -> "null"
      [] ~plays /\ scans -> t
      [] ~plays /\ ~scans -> IF t # "null" /\ ~reschedule THEN t ELSE "active"

IsScanning == scan # "none"

Tap == taps < MaxTaps /\ taps' = taps + 1

\* _toggleManualPlayback or _toggleDevicePlayback, with a host that does not
\* play; nothing keeps the user from doing it while another start is awaited.
TapStart ==
    /\ Tap /\ lastTap' = "start"
    /\ starting' = Add(starting, "manual")
    /\ UNCHANGED <<pageVars, querying, toDart, serviceVars>>

\* _stop, up to its await; the activity sends the intent and answers at once.
TapStop ==
    /\ isPlaying
    /\ Tap /\ lastTap' = "stop"
    /\ block' = "manualStop"
    /\ intents' = Append(intents, "STOP")
    /\ toDart' = Append(toDart, <<"stopDone", "">>)
    /\ UNCHANGED <<isPlaying, autoStart, timer, scan, starting, querying,
                   broadcasts, playing, ends>>

ToggleAutoStart ==
    /\ Tap /\ autoStart' = ~autoStart
    /\ UNCHANGED <<isPlaying, block, timer, scan, nativeVars, serviceVars, lastTap>>

\* didChangeAppLifecycleState.
LifecycleChanges ==
    /\ timer' = Scheduled(isPlaying, IsScanning, timer, TRUE)
    /\ UNCHANGED <<isPlaying, block, autoStart, scan, nativeVars, serviceVars, userVars>>

\* The timer calls _scan.
TimerFires ==
    /\ timer = "active"
    /\ IF IsScanning \/ isPlaying
       THEN timer' = "fired" /\ UNCHANGED scan
       ELSE timer' = "null" /\ scan' = "asked"
    /\ UNCHANGED <<isPlaying, block, autoStart, nativeVars, serviceVars, userVars>>

\* The next message has arrived.
Arrives(kind, of) ==
    /\ toDart # <<>> /\ Head(toDart) = <<kind, of>>
    /\ toDart' = Tail(toDart)

CanAutoStart == autoStart /\ block = "none"

\* The finally of _scan, whatever isPlaying is then.
ScanEnds(plays, t) ==
    /\ scan' = "none"
    /\ timer' = Scheduled(plays, FALSE, t, FALSE)

\* _scan after its await: start the first server found, if that is wanted.
ScanAnswered(found) ==
    /\ Arrives("devices", found)
    /\ IF found = "some" /\ CanAutoStart /\ ~isPlaying
       THEN /\ starting' = Add(starting, "auto")
            /\ scan' = "start" /\ UNCHANGED timer
       ELSE ScanEnds(isPlaying, timer) /\ UNCHANGED starting
    /\ UNCHANGED <<isPlaying, block, autoStart, querying, serviceVars, userVars>>

\* _start after its await, and the rest of the _scan that awaits it.
Started(source) ==
    /\ Arrives("started", source)
    /\ isPlaying' = TRUE
    /\ block' = IF source = "manual" THEN "none" ELSE block
    /\ IF source = "auto" THEN ScanEnds(TRUE, "null") ELSE timer' = "null" /\ UNCHANGED scan
    /\ UNCHANGED <<autoStart, starting, querying, serviceVars, userVars>>

\* Mutant of StartFailed: _scan has no finally, the exception ends it.
StartFailedNoFinally(source) ==
    /\ Arrives("failed", source)
    /\ timer' = Scheduled(isPlaying, IsScanning, timer, TRUE) /\ UNCHANGED scan
    /\ UNCHANGED <<isPlaying, block, autoStart, starting, querying, serviceVars, userVars>>

\* The PlatformException of _start, and the rest of the _scan that awaits it.
StartFailed(source) ==
    /\ Arrives("failed", source)
    /\ LET t == Scheduled(isPlaying, IsScanning, timer, TRUE)
       IN  IF source = "auto" THEN ScanEnds(isPlaying, t) ELSE timer' = t /\ UNCHANGED scan
    /\ UNCHANGED <<isPlaying, block, autoStart, starting, querying, serviceVars, userVars>>

\* Mutant of StopDone: the scan is left to the stopped handler.
StopDoneNoScan ==
    /\ Arrives("stopDone", "")
    /\ isPlaying' = FALSE
    /\ UNCHANGED <<timer, block, autoStart, scan, starting, querying, serviceVars, userVars>>

\* _stop after its await.
StopDone ==
    /\ Arrives("stopDone", "")
    /\ isPlaying' = FALSE
    /\ timer' = Scheduled(FALSE, IsScanning, timer, TRUE)
    /\ UNCHANGED <<block, autoStart, scan, starting, querying, serviceVars, userVars>>

\* Mutant of Stop: playback that is blocked is taken to be stopped already.
StopUnlessBlocked(reason) ==
    /\ isPlaying' = (isPlaying /\ block # "none")
    /\ block' = BlockFor(reason)
    /\ timer' = Scheduled(isPlaying', IsScanning, timer, TRUE)
    /\ UNCHANGED <<autoStart, scan>>

\* The end of _handleNativeMethodCall.
Stop(reason) ==
    /\ isPlaying' = FALSE
    /\ block' = BlockFor(reason)
    /\ timer' = Scheduled(FALSE, IsScanning, timer, TRUE)
    /\ UNCHANGED <<autoStart, scan>>

\* playbackStopped: ask the server first, unless the user has stopped or the
\* page has no host; it has one if it plays.
StoppedAtOnce(reason) ==
    /\ Arrives("stopped", reason)
    /\ reason = "user" \/ ~isPlaying
    /\ Stop(reason)
    /\ UNCHANGED <<starting, querying, serviceVars, userVars>>

StoppedAsks(reason) ==
    /\ Arrives("stopped", reason) /\ reason # "user"
    /\ querying' = Add(querying, reason)
    /\ UNCHANGED <<pageVars, starting, serviceVars, userVars>>

StatusKnown(reason) ==
    /\ Arrives("status", reason)
    /\ Stop(reason)
    /\ UNCHANGED <<starting, querying, serviceVars, userVars>>

Receive ==
    \/ \E found \in {"some", "none"} : ScanAnswered(found)
    \/ \E source \in Sources : Started(source) \/ StartFailed(source)
    \/ StopDone \/ StoppedAtOnce("user")
    \/ \E reason \in EndReasons :
           StoppedAtOnce(reason) \/ StoppedAsks(reason) \/ StatusKnown(reason)

-----------------------------------------------------------------------------
(* The activity and the service                                             *)

Send(kind, of) == toDart' = Append(toDart, <<kind, of>>)

\* The thread of scanMdns is done; an exception is taken for no server.
ScanDone(found) ==
    /\ scan = "asked" /\ \A i \in 1 .. Len(toDart) : toDart[i][1] # "devices"
    /\ Send("devices", found)
    /\ UNCHANGED <<pageVars, starting, querying, serviceVars, userVars>>

\* The thread of start has asked the server for its frame length, or not
\* reached it: start the service and answer.
StartDone(source) ==
    /\ starting[source] > 0
    /\ starting' = Remove(starting, source)
    /\ intents' = Append(intents, "START")
    /\ Send("started", source)
    /\ UNCHANGED <<pageVars, querying, broadcasts, playing, ends, userVars>>

\* The thread answers an error.
StartBreaks(source) ==
    /\ starting[source] > 0
    /\ starting' = Remove(starting, source)
    /\ Send("failed", source)
    /\ UNCHANGED <<pageVars, querying, serviceVars, userVars>>

\* The thread of queryServerStatus is done; with an error, it makes no
\* difference.
QueryDone(reason) ==
    /\ querying[reason] > 0
    /\ querying' = Remove(querying, reason)
    /\ Send("status", reason)
    /\ UNCHANGED <<pageVars, starting, serviceVars, userVars>>

\* onStartCommand.  A stop is reported at least if it stops something.
HandleIntent ==
    /\ intents # <<>>
    /\ intents' = Tail(intents)
    /\ playing' = (Head(intents) = "START")
    /\ \/ UNCHANGED broadcasts /\ (Head(intents) = "START" \/ ~playing)
       \/ Head(intents) = "STOP" /\ broadcasts' = Append(broadcasts, "user")
    /\ UNCHANGED <<pageVars, nativeVars, ends, userVars>>

PlaybackEnds(reason) ==
    /\ playing /\ ends < MaxEnds
    /\ playing' = FALSE /\ ends' = ends + 1
    /\ broadcasts' = Append(broadcasts, reason)
    /\ UNCHANGED <<pageVars, nativeVars, intents, userVars>>

\* playbackStoppedReceiver passes the broadcast on.
BroadcastArrives ==
    /\ broadcasts # <<>>
    /\ broadcasts' = Tail(broadcasts)
    /\ Send("stopped", Head(broadcasts))
    /\ UNCHANGED <<pageVars, starting, querying, intents, playing, ends, userVars>>

Delivers ==
    \/ HandleIntent \/ BroadcastArrives
    \/ \E reason \in EndReasons : QueryDone(reason)

Next ==
    \/ TapStart \/ TapStop \/ ToggleAutoStart \/ LifecycleChanges \/ TimerFires
    \/ Receive \/ Delivers
    \/ \E found \in {"some", "none"} : ScanDone(found)
    \/ \E source \in Sources : StartDone(source) \/ StartBreaks(source)
    \/ \E reason \in EndReasons : PlaybackEnds(reason)

\* Turns run, threads and deliveries end.  There is a server to be found: scans
\* that never end finding none, and starts that always fail, are excluded.
Fairness ==
    /\ WF_vars(TimerFires) /\ WF_vars(Receive) /\ WF_vars(HandleIntent)
    /\ WF_vars(BroadcastArrives)
    /\ \A reason \in EndReasons : WF_vars(QueryDone(reason))
    /\ SF_vars(ScanDone("some"))
    /\ \A source \in Sources : SF_vars(StartDone(source))

Spec == Init /\ [][Next]_vars /\ Fairness

-----------------------------------------------------------------------------
(* Properties                                                               *)

Kinds == {"devices", "started", "failed", "stopDone", "stopped", "status"}

\* Types; there is one automatic start at a time, awaited by its scan.
TypeOK ==
    /\ {isPlaying, autoStart, playing} \subseteq BOOLEAN
    /\ block \in {"none", "manualStop", "outputDeviceChanged"}
    /\ timer \in {"null", "active", "fired"}
    /\ scan \in {"none", "asked", "start"}
    /\ starting \in [Sources -> Nat] /\ starting["auto"] <= 1
    /\ querying \in [EndReasons -> Nat]
    /\ \A i \in 1 .. Len(toDart) : toDart[i][1] \in Kinds
    /\ \A i \in 1 .. Len(intents) : intents[i] \in {"START", "STOP"}
    /\ \A i \in 1 .. Len(broadcasts) : broadcasts[i] \in EndReasons \cup {"user"}
    /\ taps \in 0 .. MaxTaps /\ ends \in 0 .. MaxEnds
    /\ lastTap \in {"none", "start", "stop"}

\* Whatever order starts, stops, reports and scans end in, the page never ends
\* up neither playing nor going to scan, and no timer goes off, or lingers after
\* it did, where it is not wanted.
ScansWhileIdle ==
    timer = IF isPlaying \/ IsScanning THEN "null" ELSE "active"

InFlight ==
    \/ toDart # <<>> \/ intents # <<>> \/ broadcasts # <<>>
    \/ \E reason \in EndReasons : querying[reason] > 0

\* The page does not go on showing a playback that has ended, however its end
\* overtakes, or is overtaken by, starts and stops.
ShownPlaying == TypeOK /\ (isPlaying => playing \/ InFlight)

\* If the user wants automatic starts, and nothing blocks them, the page and
\* the service play in the end, even after reports that came late.
AutoStartPlays ==
    <>[](autoStart /\ block = "none") => <>[](isPlaying /\ playing)

\* main.dart: "stopped manually, must be started again manually".
ManualStopStays ==
    [][lastTap = "stop" => starting'["auto"] <= starting["auto"]]_vars
=============================================================================
