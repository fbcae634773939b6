-------------------------- MODULE AutoStartProofs --------------------------
(***************************************************************************)
(* What holds of the page, main.dart, however many taps there are and        *)
(* however often playback ends by itself: it never stops looking for servers *)
(* while it does not play, and never goes on showing a playback that has      *)
(* ended.                                                                  *)
(*                                                                         *)
(* Every turn of Dart that changes isPlaying, or ends the scan, sees to the  *)
(* timer before it is over.  What this rests on is that the call of _scan is *)
(* never overtaken: there is one answer, on its way or to come, to what it   *)
(* waits for, and none when there is no scan.                              *)
(*                                                                         *)
(* A playback the page shows lasts, or its end is on its way: a start is     *)
(* reported to Dart no later than its end, for both pass through toDart, and  *)
(* who stops it reports that.                                              *)
(***************************************************************************)
EXTENDS AutoStart, TLAPS

\* The messages a scan waits for: the servers found, then the end of its start.
ForScan(m) == m[1] = "devices" \/ m \in {<<"started", "auto">>, <<"failed", "auto">>}

\* What a message is about: what a scan found, who started, why it stopped.
Words == {"", "some", "none"} \cup Sources \cup EndReasons \cup {"user"}

MessagesType ==
    /\ toDart \in Seq(Kinds \X Words)
    /\ starting \in [Sources -> Nat]

OneAnswer ==
    /\ \A i \in 1 .. Len(toDart) : ForScan(toDart[i]) =>
           /\ scan = IF toDart[i][1] = "devices" THEN "asked" ELSE "start"
           /\ starting["auto"] = 0
           /\ \A j \in 1 .. Len(toDart) : ForScan(toDart[j]) => j = i
    /\ starting["auto"] > 0 => starting["auto"] = 1 /\ scan = "start"

Expected == MessagesType /\ OneAnswer

Timed == isPlaying \in BOOLEAN /\ ScansWhileIdle

BroadcastsType == broadcasts \in Seq(EndReasons \cup {"user"})

\* The rest of the types.
PageType ==
    /\ autoStart \in BOOLEAN
    /\ block \in {"none", "manualStop", "outputDeviceChanged"}
    /\ scan \in {"none", "asked", "start"}

RestType ==
    /\ querying \in [EndReasons -> Nat]
    /\ intents \in Seq({"START", "STOP"}) /\ playing \in BOOLEAN
    /\ taps \in 0 .. MaxTaps /\ ends \in 0 .. MaxEnds
    /\ lastTap \in {"none", "start", "stop"}

\* The service plays, or is going to, or the activity has yet to hear that it ended.
StartOnItsWay == \E k \in 1 .. Len(intents) : intents[k] = "START"
Lasting == playing \/ broadcasts # <<>> \/ StartOnItsWay

\* A start that Dart is yet to be told of lasts, or its end follows it.
EndFollows ==
    \A i \in 1 .. Len(toDart) : toDart[i][1] = "started" =>
        \/ Lasting
        \/ \E j \in 1 .. Len(toDart) : j > i /\ toDart[j][1] \in {"stopped", "stopDone"}

\* So does the start that the page shows, or the page is asking after its end.
EndToCome ==
    isPlaying =>
        \/ Lasting
        \/ \E j \in 1 .. Len(toDart) : toDart[j][1] \in {"stopped", "stopDone", "status"}
        \/ \E reason \in EndReasons : querying[reason] > 0

ShownInv == PageType /\ RestType /\ EndFollows /\ EndToCome

IInv == Timed /\ Expected /\ BroadcastsType /\ ShownInv

-----------------------------------------------------------------------------
(* The answers on their way                                                 *)

\* A message that no scan waits for is sent, or nothing is.
LEMMA OtherSent ==
    ASSUME Expected, NEW m \in Kinds \X Words, ~ForScan(m),
           toDart' \in {toDart, Append(toDart, m)},
           starting' \in [Sources -> Nat], starting'["auto"] = starting["auto"],
           UNCHANGED scan
    PROVE  Expected'
  <1>1. MessagesType'
    <2>1. CASE toDart' = toDart
      BY <2>1 DEF Expected, MessagesType
    <2>2. CASE toDart' = Append(toDart, m)
      BY <2>2 DEF Expected, MessagesType
    <2> QED
      BY <2>1, <2>2
  <1>2. ASSUME NEW i \in 1 .. Len(toDart'), ForScan(toDart'[i])
        PROVE  i \in 1 .. Len(toDart) /\ toDart'[i] = toDart[i]
    <2>1. CASE toDart' = toDart
      BY <2>1
    <2>2. CASE toDart' = Append(toDart, m)
      <3>1. CASE i = Len(toDart) + 1
        BY <1>2, <2>2, <3>1 DEF Expected, MessagesType
      <3>2. CASE i # Len(toDart) + 1
        BY <1>2, <2>2, <3>2 DEF Expected, MessagesType
      <3> QED
        BY <3>1, <3>2
    <2> QED
      BY <2>1, <2>2
  <1>3. OneAnswer'
    <2>1. ASSUME NEW i \in 1 .. Len(toDart'), ForScan(toDart'[i])
          PROVE  /\ scan' = IF toDart'[i][1] = "devices" THEN "asked" ELSE "start"
                 /\ starting'["auto"] = 0
                 /\ \A j \in 1 .. Len(toDart') : ForScan(toDart'[j]) => j = i
      BY <1>2, <2>1 DEF Expected, OneAnswer
    <2> QED
      BY <2>1 DEF Expected, OneAnswer, ForScan
  <1> QED
    BY <1>1, <1>3 DEF Expected

\* A message that no scan waits for is taken.
LEMMA OtherArrives ==
    ASSUME Expected, toDart # <<>>, toDart' = Tail(toDart),
           starting' \in [Sources -> Nat], starting'["auto"] = starting["auto"],
           UNCHANGED scan
    PROVE  Expected'
  <1>1. MessagesType'
    BY DEF Expected, MessagesType
  <1>2. \A i \in 1 .. Len(toDart') : i + 1 \in 1 .. Len(toDart) /\ toDart'[i] = toDart[i + 1]
    BY DEF Expected, MessagesType
  <1> QED
    BY <1>1, <1>2 DEF Expected, OneAnswer, ForScan

\* The answer of the scan is taken: there is no other.
LEMMA AnswerArrives ==
    ASSUME Expected, toDart # <<>>, ForScan(Head(toDart)), toDart' = Tail(toDart)
    PROVE  /\ \A i \in 1 .. Len(toDart') : ~ForScan(toDart'[i])
           /\ toDart' \in Seq(Kinds \X Words)
           /\ starting["auto"] = 0
           /\ scan = IF Head(toDart)[1] = "devices" THEN "asked" ELSE "start"
  <1>1. 1 \in 1 .. Len(toDart) /\ Head(toDart) = toDart[1]
    BY DEF Expected, MessagesType
  <1>2. \A i \in 1 .. Len(toDart') : i + 1 \in 1 .. Len(toDart) /\ toDart'[i] = toDart[i + 1]
    BY DEF Expected, MessagesType
  <1>3. toDart' \in Seq(Kinds \X Words)
    BY DEF Expected, MessagesType
  <1>4. \A i \in 1 .. Len(toDart) : ForScan(toDart[i]) => i = 1
    BY <1>1 DEF Expected, OneAnswer
  <1>5. starting["auto"] = 0 /\ scan = IF toDart[1][1] = "devices" THEN "asked" ELSE "start"
    BY <1>1 DEF Expected, OneAnswer
  <1>6. ASSUME NEW i \in 1 .. Len(toDart') PROVE ~ForScan(toDart'[i])
    <2>1. i + 1 # 1
      OBVIOUS
    <2> QED
      BY <1>2, <1>4, <2>1
  <1> QED
    BY <1>1, <1>3, <1>5, <1>6

\* The answer of the scan is sent: there was none before.
LEMMA AnswerSent ==
    ASSUME Expected, NEW m \in Kinds \X Words, ForScan(m),
           \A i \in 1 .. Len(toDart) : ~ForScan(toDart[i]),
           toDart' = Append(toDart, m),
           starting' \in [Sources -> Nat], starting'["auto"] = 0,
           scan' = IF m[1] = "devices" THEN "asked" ELSE "start"
    PROVE  Expected'
  <1>1. MessagesType'
    BY DEF Expected, MessagesType
  <1>2. \A i \in 1 .. Len(toDart') :
           ForScan(toDart'[i]) => i = Len(toDart) + 1 /\ toDart'[i] = m
    BY DEF Expected, MessagesType
  <1> QED
    BY <1>1, <1>2 DEF Expected, OneAnswer, ForScan

\* Dart and the activity go on without a message or an answer.
LEMMA NothingSent ==
    ASSUME Expected, UNCHANGED <<toDart, starting, scan>>
    PROVE  Expected'
  BY DEF Expected, MessagesType, OneAnswer

\* A call of scanMdns or of a start for it is under way: no answer is.
LEMMA NoneYet ==
    ASSUME Expected,
           \/ scan = "none"
           \/ starting["auto"] > 0
           \/ scan = "asked" /\ \A i \in 1 .. Len(toDart) : toDart[i][1] # "devices"
    PROVE  /\ \A i \in 1 .. Len(toDart) : ~ForScan(toDart[i])
           /\ scan # "start" => starting["auto"] = 0
  <1>1. starting["auto"] \in Nat
    BY DEF Expected, MessagesType, Sources
  <1> QED
    BY <1>1 DEF Expected, OneAnswer

\* What Dart does with its messages.
LEMMA ReceiveExpected == ASSUME Expected, Receive PROVE Expected'
  <1>1. ASSUME NEW found \in {"some", "none"}, ScanAnswered(found) PROVE Expected'
    <2>1. /\ toDart # <<>> /\ Head(toDart) = <<"devices", found>> /\ toDart' = Tail(toDart)
          /\ \/ starting' = Add(starting, "auto") /\ scan' = "start"
             \/ starting' = starting /\ scan' = "none"
      BY <1>1 DEF ScanAnswered, Arrives, ScanEnds
    <2>2. /\ \A i \in 1 .. Len(toDart') : ~ForScan(toDart'[i])
          /\ toDart' \in Seq(Kinds \X Words)
          /\ starting["auto"] = 0
      BY <2>1, AnswerArrives DEF ForScan
    <2>3. starting' \in [Sources -> Nat] /\ (starting'["auto"] > 0 => starting'["auto"] = 1 /\ scan' = "start")
      BY <2>1, <2>2 DEF Expected, MessagesType, Add, Sources
    <2> QED
      BY <2>2, <2>3 DEF Expected, MessagesType, OneAnswer
  <1>2. ASSUME NEW source \in Sources, Started(source) \/ StartFailed(source) PROVE Expected'
    <2>1. /\ toDart # <<>> /\ toDart' = Tail(toDart) /\ starting' = starting
          /\ Head(toDart) \in {<<"started", source>>, <<"failed", source>>}
      BY <1>2 DEF Started, StartFailed, Arrives
    <2>2. CASE source = "auto"
      <3>1. scan' = "none"
        BY <1>2, <2>2 DEF Started, StartFailed, ScanEnds
      <3>2. /\ \A i \in 1 .. Len(toDart') : ~ForScan(toDart'[i])
            /\ toDart' \in Seq(Kinds \X Words)
            /\ starting["auto"] = 0
        BY <2>1, <2>2, AnswerArrives DEF ForScan
      <3> QED
        BY <2>1, <3>1, <3>2 DEF Expected, MessagesType, OneAnswer
    <2>3. CASE source # "auto"
      <3>1. scan' = scan
        BY <1>2, <2>3 DEF Started, StartFailed
      <3> QED
        BY <2>1, <3>1, OtherArrives DEF Expected, MessagesType
    <2> QED
      BY <2>2, <2>3
  <1>3. ASSUME NEW reason,
               StopDone \/ StoppedAtOnce(reason) \/ StoppedAsks(reason) \/ StatusKnown(reason)
        PROVE  Expected'
    <2>1. toDart # <<>> /\ toDart' = Tail(toDart) /\ starting' = starting /\ scan' = scan
      BY <1>3 DEF StopDone, StoppedAtOnce, StoppedAsks, StatusKnown, Arrives, Stop, pageVars
    <2> QED
      BY <2>1, OtherArrives DEF Expected, MessagesType
  <1> QED
    BY <1>1, <1>2, <1>3 DEF Receive

\* Taps, the life cycle and the timer.
LEMMA TurnExpected ==
    ASSUME Expected, TapStart \/ TapStop \/ ToggleAutoStart \/ LifecycleChanges \/ TimerFires
    PROVE  Expected'
  <1>1. CASE TapStart
    <2>1. toDart' = toDart /\ scan' = scan /\ starting' = Add(starting, "manual")
      BY <1>1 DEF TapStart, pageVars
    <2>2. starting' \in [Sources -> Nat] /\ starting'["auto"] = starting["auto"]
      BY <2>1 DEF Expected, MessagesType, Add, Sources
    <2> QED
      BY <2>1, <2>2 DEF Expected, MessagesType, OneAnswer
  <1>2. CASE TapStop
    <2>1. <<"stopDone", "">> \in Kinds \X Words /\ ~ForScan(<<"stopDone", "">>)
      BY DEF Kinds, ForScan, Words
    <2>2. toDart' = Append(toDart, <<"stopDone", "">>) /\ starting' = starting /\ scan' = scan
      BY <1>2 DEF TapStop
    <2> QED
      BY <2>1, <2>2, OtherSent DEF Expected, MessagesType
  <1>3. CASE ToggleAutoStart \/ LifecycleChanges
    BY <1>3, NothingSent DEF ToggleAutoStart, LifecycleChanges, nativeVars
  <1>4. CASE TimerFires
    <2>1. toDart' = toDart /\ starting' = starting
      BY <1>4 DEF TimerFires, nativeVars
    <2>2. CASE scan' = scan
      BY <2>1, <2>2, NothingSent
    <2>3. CASE scan' # scan
      <3>1. scan = "none" /\ scan' = "asked"
        BY <1>4, <2>3 DEF TimerFires, IsScanning
      <3>2. (\A i \in 1 .. Len(toDart) : ~ForScan(toDart[i])) /\ starting["auto"] = 0
        BY <3>1, NoneYet
      <3>3. MessagesType'
        BY <2>1 DEF Expected, MessagesType
      <3>4. OneAnswer'
        BY <2>1, <3>2 DEF OneAnswer, ForScan
      <3> QED
        BY <3>3, <3>4 DEF Expected
    <2> QED
      BY <2>2, <2>3
  <1> QED
    BY <1>1, <1>2, <1>3, <1>4

LEMMA HeadOfBroadcasts ==
    ASSUME BroadcastsType, broadcasts # <<>>
    PROVE  Head(broadcasts) \in Words
  <1>1. Head(broadcasts) \in EndReasons \cup {"user"}
    BY DEF BroadcastsType
  <1> QED
    BY <1>1 DEF Words

\* The threads of the activity, the service and its broadcasts.
Threads ==
    \/ Delivers
    \/ \E found \in {"some", "none"} : ScanDone(found)
    \/ \E source \in Sources : StartDone(source) \/ StartBreaks(source)
    \/ \E reason \in EndReasons : PlaybackEnds(reason)

\* None of them sends an answer nobody waits for.
LEMMA NativeExpected ==
    ASSUME Expected, BroadcastsType, Threads
    PROVE  Expected'
  <1>1. CASE HandleIntent \/ \E reason \in EndReasons : PlaybackEnds(reason)
    BY <1>1, NothingSent DEF HandleIntent, PlaybackEnds, nativeVars, pageVars
  <1>2. CASE BroadcastArrives
    <2> DEFINE m == <<"stopped", Head(broadcasts)>>
    <2>1. m \in Kinds \X Words /\ ~ForScan(m)
      <3>1. Head(broadcasts) \in Words
        BY <1>2, HeadOfBroadcasts DEF BroadcastArrives
      <3> QED
        BY <3>1 DEF Kinds, ForScan
    <2>2. toDart' = Append(toDart, m) /\ starting' = starting /\ scan' = scan
      BY <1>2 DEF BroadcastArrives, Send, pageVars
    <2>3. starting' \in [Sources -> Nat] /\ starting'["auto"] = starting["auto"]
      BY <2>2 DEF Expected, MessagesType
    <2> HIDE DEF m
    <2> QED
      BY <2>1, <2>2, <2>3, OtherSent
  <1>3. ASSUME NEW reason \in EndReasons, QueryDone(reason) PROVE Expected'
    <2> DEFINE m == <<"status", reason>>
    <2>1. m \in Kinds \X Words /\ ~ForScan(m)
      BY DEF EndReasons, Kinds, ForScan, Words
    <2>2. toDart' = Append(toDart, m) /\ starting' = starting /\ scan' = scan
      BY <1>3 DEF QueryDone, Send, pageVars
    <2>3. starting' \in [Sources -> Nat] /\ starting'["auto"] = starting["auto"]
      BY <2>2 DEF Expected, MessagesType
    <2> HIDE DEF m
    <2> QED
      BY <2>1, <2>2, <2>3, OtherSent
  <1>4. ASSUME NEW found \in {"some", "none"}, ScanDone(found) PROVE Expected'
    <2> DEFINE m == <<"devices", found>>
    <2>1. m \in Kinds \X Words /\ ForScan(m) /\ m[1] = "devices"
      BY DEF Kinds, ForScan, Words
    <2>2. toDart' = Append(toDart, m) /\ starting' = starting /\ scan' = scan /\ scan = "asked"
      BY <1>4 DEF ScanDone, Send, pageVars
    <2>3. (\A i \in 1 .. Len(toDart) : ~ForScan(toDart[i])) /\ starting["auto"] = 0
      BY <1>4, NoneYet DEF ScanDone
    <2>4. starting' \in [Sources -> Nat] /\ starting'["auto"] = 0
      BY <2>2, <2>3 DEF Expected, MessagesType
    <2> HIDE DEF m
    <2> QED
      BY <2>1, <2>2, <2>3, <2>4, AnswerSent
  <1>5. ASSUME NEW source \in Sources, StartDone(source) \/ StartBreaks(source) PROVE Expected'
    <2>1. PICK kind \in {"started", "failed"} :
             /\ toDart' = Append(toDart, <<kind, source>>) /\ scan' = scan
             /\ starting[source] > 0 /\ starting' = Remove(starting, source)
      BY <1>5 DEF StartDone, StartBreaks, Send, pageVars
    <2>2. <<kind, source>> \in Kinds \X Words
      BY DEF Kinds, Sources, Words
    <2>3. starting' \in [Sources -> Nat]
      BY <2>1 DEF Expected, MessagesType, Remove
    <2>4. CASE source = "auto"
      <3>1. scan = "start" /\ starting'["auto"] = 0
        BY <2>1, <2>4 DEF Expected, MessagesType, OneAnswer, Remove
      <3>2. \A i \in 1 .. Len(toDart) : ~ForScan(toDart[i])
        BY <2>1, <2>4, NoneYet
      <3>3. ForScan(<<kind, source>>) /\ <<kind, source>>[1] # "devices"
        BY <2>4 DEF ForScan
      <3> QED
        BY <2>1, <2>2, <2>3, <3>1, <3>2, <3>3, AnswerSent
    <2>5. CASE source # "auto"
      <3>1. starting'["auto"] = starting["auto"]
        BY <2>1, <2>5 DEF Expected, MessagesType, Remove, Sources
      <3>2. ~ForScan(<<kind, source>>)
        BY <2>5 DEF ForScan
      <3> QED
        BY <2>1, <2>2, <2>3, <3>1, <3>2, OtherSent
    <2> QED
      BY <2>4, <2>5
  <1> QED
    BY <1>1, <1>2, <1>3, <1>4, <1>5 DEF Threads, Delivers

\* A broadcast names a reason.
LEMMA BroadcastsKeep == ASSUME BroadcastsType, [Next]_vars PROVE BroadcastsType'
  <1>1. CASE HandleIntent
    <2>1. broadcasts' = broadcasts \/ broadcasts' = Append(broadcasts, "user")
      BY <1>1 DEF HandleIntent
    <2>2. "user" \in EndReasons \cup {"user"}
      OBVIOUS
    <2> QED
      BY <2>1, <2>2 DEF BroadcastsType
  <1>2. ASSUME NEW reason \in EndReasons, PlaybackEnds(reason) PROVE BroadcastsType'
    <2>1. broadcasts' = Append(broadcasts, reason)
      BY <1>2 DEF PlaybackEnds
    <2> QED
      BY <2>1 DEF BroadcastsType
  <1>3. CASE BroadcastArrives
    BY <1>3 DEF BroadcastArrives, BroadcastsType
  <1>4. CASE \/ TapStart \/ TapStop \/ ToggleAutoStart \/ LifecycleChanges \/ TimerFires
            \/ Receive \/ (\E reason \in EndReasons : QueryDone(reason))
            \/ (\E found \in {"some", "none"} : ScanDone(found))
            \/ (\E source \in Sources : StartDone(source) \/ StartBreaks(source))
            \/ UNCHANGED vars
    <2>1. broadcasts' = broadcasts
      BY <1>4 DEF TapStart, TapStop, ToggleAutoStart, LifecycleChanges, TimerFires, Receive,
             ScanAnswered, Started, StartFailed, StopDone, StoppedAtOnce, StoppedAsks, StatusKnown,
             QueryDone, ScanDone, StartDone, StartBreaks, vars, serviceVars
    <2> QED
      BY <2>1 DEF BroadcastsType
  <1> QED
    BY <1>1, <1>2, <1>3, <1>4 DEF Next, Delivers

-----------------------------------------------------------------------------
(* The timer                                                                *)

\* What _scheduleScanRetryIfNeeded makes of the timer.
LEMMA RescheduledRight ==
    ASSUME NEW plays \in BOOLEAN, NEW scans \in BOOLEAN, NEW t, (~plays /\ scans) => t = "null"
    PROVE  Scheduled(plays, scans, t, TRUE) = IF plays \/ scans THEN "null" ELSE "active"
  BY DEF Scheduled

\* A scan that ends leaves the timer as it should be.
LEMMA ScanEndsRight ==
    ASSUME NEW plays \in BOOLEAN, NEW t \in {"null", "active"}, ScanEnds(plays, t)
    PROVE  scan' = "none" /\ timer' = IF plays THEN "null" ELSE "active"
  BY DEF ScanEnds, Scheduled

\* What the page does not see.
LEMMA Unseen == ASSUME Timed, UNCHANGED <<isPlaying, timer, scan>> PROVE Timed'
  BY DEF Timed, ScansWhileIdle, IsScanning

\* Taps, the life cycle and the timer.
LEMMA TurnKeeps ==
    ASSUME Timed, TapStart \/ TapStop \/ ToggleAutoStart \/ LifecycleChanges \/ TimerFires
    PROVE  Timed'
  <1>1. CASE TapStart \/ TapStop \/ ToggleAutoStart
    BY <1>1, Unseen DEF TapStart, TapStop, ToggleAutoStart, pageVars
  <1>2. CASE LifecycleChanges
    <2>1. timer' = IF isPlaying \/ IsScanning THEN "null" ELSE "active"
      BY <1>2, RescheduledRight DEF LifecycleChanges, Timed, ScansWhileIdle, IsScanning
    <2> QED
      BY <1>2, <2>1 DEF LifecycleChanges, Timed, ScansWhileIdle, IsScanning
  <1>3. CASE TimerFires
    BY <1>3 DEF TimerFires, Timed, ScansWhileIdle, IsScanning
  <1> QED
    BY <1>1, <1>2, <1>3

\* The end of a scan, or of a start.
LEMMA AnswerKeeps ==
    ASSUME Timed, Expected,
           \/ \E found \in {"some", "none"} : ScanAnswered(found)
           \/ \E source \in Sources : Started(source) \/ StartFailed(source)
    PROVE  Timed'
  <1>1. ASSUME NEW found \in {"some", "none"}, ScanAnswered(found) PROVE Timed'
    <2>1. isPlaying' = isPlaying /\ scan = "asked" /\ timer = "null"
      <3>1. toDart # <<>> /\ Head(toDart) = <<"devices", found>> /\ toDart' = Tail(toDart)
        BY <1>1 DEF ScanAnswered, Arrives
      <3>2. scan = "asked"
        BY <3>1, AnswerArrives DEF ForScan
      <3> QED
        BY <1>1, <3>2 DEF ScanAnswered, Timed, ScansWhileIdle, IsScanning
    <2>2. CASE found = "some" /\ CanAutoStart /\ ~isPlaying
      BY <1>1, <2>1, <2>2 DEF ScanAnswered, Timed, ScansWhileIdle, IsScanning
    <2>3. CASE ~(found = "some" /\ CanAutoStart /\ ~isPlaying)
      <3>1. scan' = "none" /\ timer' = IF isPlaying THEN "null" ELSE "active"
        BY <1>1, <2>1, <2>3, ScanEndsRight DEF ScanAnswered, Timed
      <3> QED
        BY <2>1, <3>1 DEF Timed, ScansWhileIdle, IsScanning
    <2> QED
      BY <2>2, <2>3
  <1>2. ASSUME NEW source \in Sources, Started(source) PROVE Timed'
    <2>1. isPlaying' = TRUE /\ timer' = "null"
      <3>1. CASE source = "auto"
        BY <1>2, <3>1, ScanEndsRight DEF Started
      <3>2. CASE source # "auto"
        BY <1>2, <3>2 DEF Started
      <3> QED
        BY <1>2, <3>1, <3>2 DEF Started
    <2> QED
      BY <2>1 DEF Timed, ScansWhileIdle
  <1>3. ASSUME NEW source \in Sources, StartFailed(source) PROVE Timed'
    <2> DEFINE t == Scheduled(isPlaying, IsScanning, timer, TRUE)
    <2>1. isPlaying' = isPlaying
          /\ IF source = "auto" THEN ScanEnds(isPlaying, t) ELSE timer' = t /\ scan' = scan
      BY <1>3 DEF StartFailed
    <2>2. t = IF isPlaying \/ IsScanning THEN "null" ELSE "active"
      BY RescheduledRight DEF Timed, ScansWhileIdle, IsScanning
    <2> HIDE DEF t
    <2>3. CASE source = "auto"
      <3>1. t \in {"null", "active"}
        BY <2>2
      <3>2. scan' = "none" /\ timer' = IF isPlaying THEN "null" ELSE "active"
        BY <2>1, <2>3, <3>1, ScanEndsRight DEF Timed
      <3> QED
        BY <2>1, <3>2 DEF Timed, ScansWhileIdle, IsScanning
    <2>4. CASE source # "auto"
      BY <2>1, <2>2, <2>4 DEF Timed, ScansWhileIdle, IsScanning
    <2> QED
      BY <2>3, <2>4
  <1> QED
    BY <1>1, <1>2, <1>3

\* Stops: the page's own, and those it is told of.
LEMMA StopKeeps ==
    ASSUME Timed, NEW reason,
           StopDone \/ StoppedAtOnce(reason) \/ StoppedAsks(reason) \/ StatusKnown(reason)
    PROVE  Timed'
  <1>1. CASE StoppedAsks(reason)
    BY <1>1, Unseen DEF StoppedAsks, pageVars
  <1>2. CASE StopDone \/ Stop(reason)
    <2>1. isPlaying' = FALSE /\ scan' = scan /\ timer' = Scheduled(FALSE, IsScanning, timer, TRUE)
      BY <1>2 DEF StopDone, Stop
    <2>2. IsScanning => timer = "null"
      BY DEF Timed, ScansWhileIdle
    <2>3. timer' = IF IsScanning THEN "null" ELSE "active"
      BY <2>1, <2>2, RescheduledRight DEF IsScanning
    <2> QED
      BY <2>1, <2>3 DEF Timed, ScansWhileIdle, IsScanning
  <1> QED
    BY <1>1, <1>2 DEF StoppedAtOnce, StatusKnown

-----------------------------------------------------------------------------
(* What the page shows                                                      *)

\* A turn of Dart, a thread of the activity, the service, or nothing.
Turns == TapStart \/ TapStop \/ ToggleAutoStart \/ LifecycleChanges \/ TimerFires

LEMMA StepKinds == [Next]_vars => Turns \/ Receive \/ Threads \/ UNCHANGED vars
  BY DEF Next, Turns, Threads

LEMMA SourceFacts == Sources = {"manual", "auto"} /\ EndReasons = {"udp_timeout", "output_device_changed"}
  BY DEF Sources, EndReasons

LEMMA PageTypeStep ==
    ASSUME PageType, [Next]_vars
    PROVE  PageType'
  <1> USE DEF PageType
  <1>1. CASE Turns
    <2>1. CASE TapStart \/ TapStop \/ LifecycleChanges \/ TimerFires
      BY <2>1 DEF TapStart, TapStop, LifecycleChanges, TimerFires, pageVars
    <2>2. CASE ToggleAutoStart
      BY <2>2 DEF ToggleAutoStart
    <2> QED
      BY <1>1, <2>1, <2>2 DEF Turns
  <1>2. CASE Receive
    <2>1. ASSUME NEW found \in {"some", "none"}, ScanAnswered(found) PROVE PageType'
      BY <2>1 DEF ScanAnswered, ScanEnds
    <2>2. ASSUME NEW source \in Sources, Started(source) \/ StartFailed(source) PROVE PageType'
      BY <2>2 DEF Started, StartFailed, ScanEnds
    <2>3. ASSUME NEW reason, StopDone \/ StoppedAtOnce(reason) \/ StoppedAsks(reason) \/ StatusKnown(reason)
          PROVE  PageType'
      <3>1. BlockFor(reason) \in {"none", "manualStop", "outputDeviceChanged"}
        BY DEF BlockFor
      <3> QED
        BY <2>3, <3>1 DEF StopDone, StoppedAtOnce, StoppedAsks, StatusKnown, Stop, pageVars
    <2> QED
      BY <1>2, <2>1, <2>2, <2>3 DEF Receive
  <1>3. CASE Threads
    BY <1>3 DEF Threads, Delivers, HandleIntent, BroadcastArrives, QueryDone, ScanDone, StartDone,
           StartBreaks, PlaybackEnds, pageVars
  <1>4. CASE UNCHANGED vars
    BY <1>4 DEF vars, pageVars
  <1> QED
    BY <1>1, <1>2, <1>3, <1>4, StepKinds

LEMMA RestTypeStep ==
    ASSUME RestType, [Next]_vars
    PROVE  RestType'
  <1> USE BoundsAssumption DEF RestType
  <1>1. CASE TapStart \/ TapStop \/ ToggleAutoStart
    <2>1. taps' \in 0 .. MaxTaps
      <3>1. taps \in Nat /\ taps < MaxTaps /\ taps' = taps + 1
        <4>1. taps < MaxTaps /\ taps' = taps + 1
          BY <1>1 DEF TapStart, TapStop, ToggleAutoStart, Tap
        <4> QED
          BY <4>1
      <3> QED
        BY <3>1
    <2>2. /\ UNCHANGED <<querying, playing, ends>> /\ lastTap' \in {lastTap, "start", "stop"}
          /\ intents' \in {intents, Append(intents, "STOP")}
      BY <1>1 DEF TapStart, TapStop, ToggleAutoStart, nativeVars, serviceVars
    <2>3. intents' \in Seq({"START", "STOP"})
      BY <2>2
    <2> QED
      BY <2>1, <2>2, <2>3
  <1>2. CASE LifecycleChanges \/ TimerFires \/ UNCHANGED vars
    BY <1>2 DEF LifecycleChanges, TimerFires, vars, nativeVars, serviceVars, userVars
  <1>3. CASE Receive
    <2>1. ASSUME NEW reason \in EndReasons, StoppedAsks(reason) PROVE RestType'
      BY <2>1 DEF StoppedAsks, Add, serviceVars, userVars
    <2>2. CASE ~\E reason \in EndReasons : StoppedAsks(reason)
      BY <1>3, <2>2 DEF Receive, ScanAnswered, Started, StartFailed, StopDone, StoppedAtOnce,
                        StatusKnown, serviceVars, userVars
    <2> QED
      BY <2>1, <2>2
  <1>4. CASE Threads
    <2>1. CASE HandleIntent
      <3>1. intents' \in Seq({"START", "STOP"}) /\ playing' \in BOOLEAN
        BY <2>1 DEF HandleIntent
      <3> QED
        BY <2>1, <3>1 DEF HandleIntent, nativeVars, userVars
    <2>2. ASSUME NEW reason \in EndReasons, PlaybackEnds(reason) PROVE RestType'
      <3>1. ends \in Nat /\ ends < MaxEnds /\ ends' = ends + 1 /\ playing' = FALSE
        BY <2>2 DEF PlaybackEnds
      <3>2. ends' \in 0 .. MaxEnds
        BY <3>1
      <3> QED
        BY <2>2, <3>1, <3>2 DEF PlaybackEnds, nativeVars, userVars
    <2>3. ASSUME NEW reason \in EndReasons, QueryDone(reason) PROVE RestType'
      BY <2>3 DEF QueryDone, Remove, serviceVars, userVars
    <2>4. ASSUME NEW source \in Sources, StartDone(source) PROVE RestType'
      BY <2>4 DEF StartDone, userVars
    <2>5. CASE \/ BroadcastArrives \/ \E found \in {"some", "none"} : ScanDone(found)
               \/ \E source \in Sources : StartBreaks(source)
      BY <2>5 DEF BroadcastArrives, ScanDone, StartBreaks, serviceVars, userVars
    <2> QED
      BY <1>4, <2>1, <2>2, <2>3, <2>4, <2>5 DEF Threads, Delivers
  <1> QED
    BY <1>1, <1>2, <1>3, <1>4, StepKinds DEF Turns

\* What Dart takes is the first of its messages, and the service does not notice.
LEMMA ReceiveTakes ==
    ASSUME Receive
    PROVE  toDart # <<>> /\ toDart' = Tail(toDart) /\ UNCHANGED serviceVars
  BY DEF Receive, ScanAnswered, Started, StartFailed, StopDone, StoppedAtOnce, StoppedAsks,
         StatusKnown, Arrives

\* A playback that lasts is over only with a report on its way to Dart.
LEMMA LastingKept ==
    ASSUME RestType, BroadcastsType, [Next]_vars, Lasting
    PROVE  Lasting' \/ \E of \in Words : toDart' = Append(toDart, <<"stopped", of>>)
  <1> USE DEF RestType, Lasting, StartOnItsWay
  <1>1. CASE HandleIntent
    <2>1. CASE broadcasts # <<>>
      <3>1. broadcasts' # <<>>
        BY <1>1, <2>1 DEF HandleIntent, BroadcastsType
      <3> QED
        BY <3>1
    <2>2. CASE Head(intents) = "START"
      BY <1>1, <2>2 DEF HandleIntent
    <2>3. CASE playing /\ Head(intents) # "START"
      <3>1. broadcasts' # <<>>
        BY <1>1, <2>3 DEF HandleIntent, BroadcastsType
      <3> QED
        BY <3>1
    <2>4. CASE StartOnItsWay /\ Head(intents) # "START"
      <3>1. PICK k \in 1 .. Len(intents) : intents[k] = "START"
        BY <2>4
      <3>2. /\ intents' = Tail(intents) /\ intents # <<>>
            /\ k # 1
        BY <1>1, <2>4, <3>1 DEF HandleIntent
      <3>3. k - 1 \in 1 .. Len(intents') /\ intents'[k - 1] = intents[k]
        BY <3>1, <3>2
      <3> QED
        BY <3>1, <3>3
    <2> QED
      BY <2>1, <2>2, <2>3, <2>4
  <1>2. CASE BroadcastArrives
    <2>1. Head(broadcasts) \in Words /\ toDart' = Append(toDart, <<"stopped", Head(broadcasts)>>)
      BY <1>2, HeadOfBroadcasts DEF BroadcastArrives, Send
    <2> QED
      BY <2>1
  <1>3. ASSUME NEW reason \in EndReasons, PlaybackEnds(reason) PROVE Lasting'
    <2>1. broadcasts' = Append(broadcasts, reason) /\ broadcasts \in Seq(EndReasons \cup {"user"})
      BY <1>3 DEF PlaybackEnds, BroadcastsType
    <2>2. broadcasts' # <<>>
      BY <2>1
    <2> QED
      BY <2>2
  <1>4. ASSUME NEW word \in {"START", "STOP"}, intents' = Append(intents, word), UNCHANGED <<playing, broadcasts>>
        PROVE  Lasting'
    <2>1. StartOnItsWay => StartOnItsWay'
      <3> SUFFICES ASSUME NEW k \in 1 .. Len(intents), intents[k] = "START"
                   PROVE  StartOnItsWay'
        OBVIOUS
      <3>1. k \in 1 .. Len(intents') /\ intents'[k] = intents[k]
        BY <1>4
      <3> QED
        BY <3>1
    <2> QED
      BY <1>4, <2>1
  <1>5. CASE TapStop \/ \E source \in Sources : StartDone(source)
    BY <1>4, <1>5 DEF TapStop, StartDone
  <1>6. CASE \/ TapStart \/ ToggleAutoStart \/ LifecycleChanges \/ TimerFires \/ UNCHANGED vars \/ Receive
             \/ (\E reason \in EndReasons : QueryDone(reason))
             \/ (\E found \in {"some", "none"} : ScanDone(found))
             \/ (\E source \in Sources : StartBreaks(source))
    <2>1. UNCHANGED <<playing, broadcasts, intents>>
      BY <1>6, ReceiveTakes DEF TapStart, ToggleAutoStart, LifecycleChanges, TimerFires, vars,
                                QueryDone, ScanDone, StartBreaks, serviceVars
    <2> QED
      BY <2>1
  <1> QED
    BY <1>1, <1>2, <1>3, <1>5, <1>6, StepKinds DEF Turns, Threads, Delivers

\* What is sent to Dart comes last; a start that is reported lasts.
LEMMA OthersSend ==
    ASSUME RestType, BroadcastsType, [Next]_vars, ~Receive
    PROVE  /\ isPlaying' = isPlaying
           /\ \/ toDart' = toDart /\ querying' = querying
              \/ \E kind \in Kinds, of \in Words :
                    /\ toDart' = Append(toDart, <<kind, of>>)
                    /\ kind = "started" => Lasting'
                    /\ kind # "status" => querying' = querying
  <1>1. CASE Turns \/ UNCHANGED vars
    <2>1. isPlaying' = isPlaying /\ querying' = querying
      BY <1>1 DEF Turns, TapStart, TapStop, ToggleAutoStart, LifecycleChanges, TimerFires, vars,
                  pageVars, nativeVars
    <2>2. CASE TapStop
      BY <2>1, <2>2 DEF TapStop, Kinds, Words
    <2>3. CASE ~TapStop
      BY <1>1, <2>1, <2>3 DEF Turns, TapStart, ToggleAutoStart, LifecycleChanges, TimerFires, vars,
                              nativeVars
    <2> QED
      BY <2>2, <2>3
  <1>2. CASE Threads
    <2>0. isPlaying' = isPlaying
      BY <1>2 DEF Threads, Delivers, HandleIntent, BroadcastArrives, QueryDone, ScanDone, StartDone,
             StartBreaks, PlaybackEnds, pageVars
    <2>1. CASE HandleIntent \/ \E reason \in EndReasons : PlaybackEnds(reason)
      BY <2>0, <2>1 DEF HandleIntent, PlaybackEnds, nativeVars
    <2>2. CASE BroadcastArrives
      <3>1. Head(broadcasts) \in Words /\ "stopped" \in Kinds /\ querying' = querying
            /\ toDart' = Append(toDart, <<"stopped", Head(broadcasts)>>)
        BY <2>2, HeadOfBroadcasts DEF BroadcastArrives, Send, Kinds
      <3> QED
        BY <2>0, <3>1
    <2>3. ASSUME NEW reason \in EndReasons, QueryDone(reason)
          PROVE  toDart' = Append(toDart, <<"status", reason>>) /\ reason \in Words /\ "status" \in Kinds
      BY <2>3 DEF QueryDone, Send, Words, Kinds
    <2>4. ASSUME NEW found \in {"some", "none"}, ScanDone(found)
          PROVE  toDart' = Append(toDart, <<"devices", found>>) /\ found \in Words /\ "devices" \in Kinds
                 /\ querying' = querying
      BY <2>4 DEF ScanDone, Send, Words, Kinds
    <2>5. ASSUME NEW source \in Sources, StartBreaks(source)
          PROVE  toDart' = Append(toDart, <<"failed", source>>) /\ source \in Words /\ "failed" \in Kinds
                 /\ querying' = querying
      BY <2>5 DEF StartBreaks, Send, Words, Kinds
    <2>6. ASSUME NEW source \in Sources, StartDone(source)
          PROVE  toDart' = Append(toDart, <<"started", source>>) /\ source \in Words /\ "started" \in Kinds
                 /\ querying' = querying /\ Lasting'
      <3>1. intents' = Append(intents, "START")
        BY <2>6 DEF StartDone
      <3>2. Len(intents) + 1 \in 1 .. Len(intents') /\ intents'[Len(intents) + 1] = "START"
        BY <3>1 DEF RestType
      <3>3. Lasting'
        BY <3>2 DEF Lasting, StartOnItsWay
      <3> QED
        BY <2>6, <3>3 DEF StartDone, Send, Words, Kinds
    <2> QED
      BY <1>2, <2>0, <2>1, <2>2, <2>3, <2>4, <2>5, <2>6 DEF Threads, Delivers
  <1> QED
    BY <1>1, <1>2, StepKinds

\* Where a message was that Dart has not taken yet.
LEMMA MessagesMove ==
    ASSUME MessagesType
    PROVE  /\ toDart # <<>> /\ toDart' = Tail(toDart) =>
                 /\ \A i \in 1 .. Len(toDart') : i + 1 \in 1 .. Len(toDart) /\ toDart'[i] = toDart[i + 1]
                 /\ \A j \in 1 .. Len(toDart) : j # 1 => j - 1 \in 1 .. Len(toDart') /\ toDart'[j - 1] = toDart[j]
           /\ \A kind \in Kinds, of \in Words : toDart' = Append(toDart, <<kind, of>>) =>
                 /\ \A i \in 1 .. Len(toDart) : i \in 1 .. Len(toDart') /\ toDart'[i] = toDart[i]
                 /\ Len(toDart') = Len(toDart) + 1 /\ Len(toDart) \in Nat
                 /\ toDart'[Len(toDart) + 1][1] = kind
                 /\ \A i \in 1 .. Len(toDart') : i \in 1 .. Len(toDart) \/ i = Len(toDart) + 1
  <1> USE DEF MessagesType
  <1>1. ASSUME toDart # <<>>, toDart' = Tail(toDart)
        PROVE  /\ \A i \in 1 .. Len(toDart') : i + 1 \in 1 .. Len(toDart) /\ toDart'[i] = toDart[i + 1]
               /\ \A j \in 1 .. Len(toDart) : j # 1 => j - 1 \in 1 .. Len(toDart') /\ toDart'[j - 1] = toDart[j]
    BY <1>1
  <1>2. ASSUME NEW kind \in Kinds, NEW of \in Words, toDart' = Append(toDart, <<kind, of>>)
        PROVE  /\ \A i \in 1 .. Len(toDart) : i \in 1 .. Len(toDart') /\ toDart'[i] = toDart[i]
               /\ Len(toDart') = Len(toDart) + 1 /\ Len(toDart) \in Nat
               /\ toDart'[Len(toDart) + 1][1] = kind
               /\ \A i \in 1 .. Len(toDart') : i \in 1 .. Len(toDart) \/ i = Len(toDart) + 1
    BY <1>2
  <1> QED
    BY <1>1, <1>2

LEMMA EndFollowsStep ==
    ASSUME MessagesType, RestType, BroadcastsType, EndFollows, [Next]_vars
    PROVE  EndFollows'
  <1> SUFFICES ASSUME NEW i \in 1 .. Len(toDart'), toDart'[i][1] = "started"
               PROVE  \/ Lasting'
                      \/ \E j \in 1 .. Len(toDart') : j > i /\ toDart'[j][1] \in {"stopped", "stopDone"}
    BY DEF EndFollows
  <1>1. CASE Receive
    <2>1. /\ i + 1 \in 1 .. Len(toDart) /\ toDart[i + 1][1] = "started"
          /\ Lasting' <=> Lasting
      BY <1>1, ReceiveTakes, MessagesMove DEF Lasting, StartOnItsWay, serviceVars
    <2>2. ASSUME NEW j \in 1 .. Len(toDart), j > i + 1, toDart[j][1] \in {"stopped", "stopDone"}
          PROVE  \E k \in 1 .. Len(toDart') : k > i /\ toDart'[k][1] \in {"stopped", "stopDone"}
      <3>1. j - 1 \in 1 .. Len(toDart') /\ toDart'[j - 1] = toDart[j] /\ j - 1 > i
        BY <1>1, <2>2, ReceiveTakes, MessagesMove
      <3> QED
        BY <2>2, <3>1
    <2> QED
      BY <2>1, <2>2 DEF EndFollows
  <1>2. CASE ~Receive /\ toDart' = toDart
    <2>1. Lasting => Lasting'
      <3>1. \A of \in Words : toDart' # Append(toDart, <<"stopped", of>>)
        <4>1. "stopped" \in Kinds /\ Len(toDart) \in Nat /\ Len(toDart) # Len(toDart) + 1
          BY DEF Kinds, MessagesType
        <4> QED
          BY <1>2, <4>1, MessagesMove
      <3> QED
        BY <3>1, LastingKept
    <2> QED
      BY <1>2, <2>1 DEF EndFollows
  <1>3. ASSUME ~Receive, NEW kind \in Kinds, NEW of \in Words, toDart' = Append(toDart, <<kind, of>>),
               kind = "started" => Lasting'
        PROVE  \/ Lasting'
               \/ \E j \in 1 .. Len(toDart') : j > i /\ toDart'[j][1] \in {"stopped", "stopDone"}
    <2>1. /\ \A j \in 1 .. Len(toDart) : j \in 1 .. Len(toDart') /\ toDart'[j] = toDart[j]
          /\ Len(toDart') = Len(toDart) + 1 /\ Len(toDart) \in Nat
          /\ toDart'[Len(toDart) + 1][1] = kind
          /\ i \in 1 .. Len(toDart) \/ i = Len(toDart) + 1
      BY <1>3, MessagesMove
    <2>2. CASE i = Len(toDart) + 1
      BY <1>3, <2>1, <2>2
    <2>3. CASE i \in 1 .. Len(toDart)
      <3>1. toDart[i][1] = "started"
        BY <2>1, <2>3
      <3>2. CASE \E j \in 1 .. Len(toDart) : j > i /\ toDart[j][1] \in {"stopped", "stopDone"}
        BY <2>1, <3>2
      <3>3. ASSUME NEW word \in Words, toDart' = Append(toDart, <<"stopped", word>>)
            PROVE  \E j \in 1 .. Len(toDart') : j > i /\ toDart'[j][1] \in {"stopped", "stopDone"}
        <4>1. toDart'[Len(toDart) + 1][1] = "stopped"
          BY <3>3, MessagesMove DEF Kinds
        <4>2. Len(toDart) + 1 \in 1 .. Len(toDart') /\ Len(toDart) + 1 > i
          BY <2>1, <2>3
        <4> QED
          BY <4>1, <4>2
      <3> QED
        BY <2>3, <3>1, <3>2, <3>3, LastingKept DEF EndFollows
    <2> QED
      BY <2>1, <2>2, <2>3
  <1> QED
    BY <1>1, <1>2, <1>3, OthersSend

\* An end that is not taken by this step is still to come.
LEMMA EndToComeStep ==
    ASSUME MessagesType, RestType, BroadcastsType, EndFollows, EndToCome, [Next]_vars
    PROVE  EndToCome'
  <1> DEFINE Ends == {"stopped", "stopDone", "status"}
  <1>1. CASE Receive
    <2>0. /\ toDart # <<>> /\ toDart' = Tail(toDart)
          /\ Lasting => Lasting'
          /\ 1 \in 1 .. Len(toDart) /\ Head(toDart) = toDart[1]
      BY <1>1, ReceiveTakes DEF Lasting, StartOnItsWay, serviceVars, MessagesType
    <2>1. ASSUME NEW j \in 1 .. Len(toDart), j # 1, toDart[j][1] \in Ends
          PROVE  \E k \in 1 .. Len(toDart') : toDart'[k][1] \in Ends
      BY <2>0, <2>1, MessagesMove
    <2>2. ASSUME NEW source \in Sources, Started(source) PROVE EndToCome'
      <3>1. toDart[1][1] = "started"
        BY <2>0, <2>2 DEF Started, Arrives
      <3>2. Lasting \/ \E j \in 1 .. Len(toDart) : j > 1 /\ toDart[j][1] \in {"stopped", "stopDone"}
        BY <2>0, <3>1 DEF EndFollows
      <3>3. Lasting \/ \E j \in 1 .. Len(toDart) : j # 1 /\ toDart[j][1] \in Ends
        BY <3>2
      <3> QED
        BY <2>0, <2>1, <3>3 DEF EndToCome
    <2>3. CASE (\E found \in {"some", "none"} : ScanAnswered(found)) \/ (\E source \in Sources : StartFailed(source))
      <3>1. UNCHANGED <<isPlaying, querying>>
        BY <2>3 DEF ScanAnswered, StartFailed
      <3>2. Head(toDart)[1] \in {"devices", "failed"}
        <4>1. ASSUME NEW found, ScanAnswered(found) PROVE Head(toDart)[1] = "devices"
          <5>1. Head(toDart) = <<"devices", found>>
            BY <4>1 DEF ScanAnswered, Arrives
          <5> QED
            BY <5>1
        <4>2. ASSUME NEW source, StartFailed(source) PROVE Head(toDart)[1] = "failed"
          <5>1. Head(toDart) = <<"failed", source>>
            BY <4>2 DEF StartFailed, Arrives
          <5> QED
            BY <5>1
        <4> QED
          BY <2>3, <4>1, <4>2
      <3> QED
        BY <2>0, <2>1, <3>1, <3>2 DEF EndToCome
    <2>4. ASSUME NEW reason, StopDone \/ StoppedAtOnce(reason) \/ StatusKnown(reason) PROVE EndToCome'
      BY <2>4 DEF StopDone, StoppedAtOnce, StatusKnown, Stop, EndToCome
    <2>5. ASSUME NEW reason \in EndReasons, StoppedAsks(reason) PROVE EndToCome'
      <3>1. querying'[reason] > 0
        BY <2>5 DEF StoppedAsks, Add, RestType
      <3> QED
        BY <3>1 DEF EndToCome
    <2> QED
      BY <1>1, <2>2, <2>3, <2>4, <2>5 DEF Receive
  <1>2. CASE ~Receive /\ toDart' = toDart /\ querying' = querying /\ isPlaying' = isPlaying
    <2>1. Lasting => Lasting'
      <3>1. \A of \in Words : toDart' # Append(toDart, <<"stopped", of>>)
        <4>1. "stopped" \in Kinds /\ Len(toDart) \in Nat /\ Len(toDart) # Len(toDart) + 1
          BY DEF Kinds, MessagesType
        <4> QED
          BY <1>2, <4>1, MessagesMove
      <3> QED
        BY <3>1, LastingKept
    <2> QED
      BY <1>2, <2>1 DEF EndToCome
  <1>3. ASSUME ~Receive, isPlaying' = isPlaying,
               NEW kind \in Kinds, NEW of \in Words, toDart' = Append(toDart, <<kind, of>>),
               kind # "status" => querying' = querying
        PROVE  EndToCome'
    <2>1. /\ \A j \in 1 .. Len(toDart) : j \in 1 .. Len(toDart') /\ toDart'[j] = toDart[j]
          /\ Len(toDart) + 1 \in 1 .. Len(toDart') /\ toDart'[Len(toDart) + 1][1] = kind
      BY <1>3, MessagesMove
    <2>2. CASE kind \in Ends
      BY <2>1, <2>2 DEF EndToCome
    <2>3. CASE kind \notin Ends
      <3>1. Lasting => Lasting'
        <4>1. ASSUME NEW word \in Words, toDart' = Append(toDart, <<"stopped", word>>) PROVE FALSE
          <5>1. toDart'[Len(toDart) + 1][1] = "stopped"
            BY <4>1, MessagesMove DEF Kinds
          <5> QED
            BY <2>1, <2>3, <5>1
        <4> QED
          BY <4>1, LastingKept
      <3> QED
        BY <1>3, <2>1, <2>3, <3>1 DEF EndToCome
    <2> QED
      BY <2>2, <2>3
  <1> QED
    BY <1>1, <1>2, <1>3, OthersSend

LEMMA ShownStep ==
    ASSUME IInv, [Next]_vars
    PROVE  ShownInv'
  BY PageTypeStep, RestTypeStep, EndFollowsStep, EndToComeStep DEF IInv, Expected, ShownInv

-----------------------------------------------------------------------------
(* The invariant                                                            *)

\* A page that opens scans at once.
LEMMA InitEstablishes == Init => IInv
  <1> SUFFICES ASSUME Init PROVE IInv
    OBVIOUS
  <1>1. Timed
    BY DEF Init, Timed, ScansWhileIdle, IsScanning
  <1>2. MessagesType /\ BroadcastsType
    BY DEF Init, MessagesType, BroadcastsType
  <1>3. starting["auto"] = 0 /\ Len(toDart) = 0
    BY DEF Init, Sources
  <1>4. OneAnswer
    BY <1>3 DEF OneAnswer
  <1>5. PageType /\ RestType
    <2>1. PageType
      BY DEF Init, PageType
    <2>2. RestType
      <3>1. querying \in [EndReasons -> Nat] /\ intents \in Seq({"START", "STOP"})
        BY DEF Init
      <3>2. playing \in BOOLEAN /\ lastTap \in {"none", "start", "stop"}
        BY DEF Init
      <3>3. taps \in 0 .. MaxTaps /\ ends \in 0 .. MaxEnds
        BY BoundsAssumption DEF Init
      <3> QED
        BY <3>1, <3>2, <3>3 DEF RestType
    <2> QED
      BY <2>1, <2>2
  <1>6. EndFollows /\ EndToCome
    <2>1. EndFollows
      <3>1. \A i \in 1 .. Len(toDart) : FALSE
        BY <1>3
      <3> QED
        BY <3>1 DEF EndFollows
    <2>2. EndToCome
      BY DEF Init, EndToCome
    <2> QED
      BY <2>1, <2>2
  <1> QED
    BY <1>1, <1>2, <1>4, <1>5, <1>6 DEF IInv, Expected, ShownInv

\* Every step keeps the invariant.
LEMMA NextKeeps == IInv /\ [Next]_vars => IInv'
  <1> SUFFICES ASSUME IInv, [Next]_vars PROVE IInv'
    OBVIOUS
  <1> USE ShownStep DEF IInv
  <1>1. CASE TapStart \/ TapStop \/ ToggleAutoStart \/ LifecycleChanges \/ TimerFires
    BY <1>1, TurnKeeps, TurnExpected, BroadcastsKeep
  <1>2. CASE Receive
    <2>1. Timed'
      BY <1>2, AnswerKeeps, StopKeeps DEF Receive
    <2> QED
      BY <1>2, <2>1, ReceiveExpected, BroadcastsKeep
  <1>3. CASE Threads
    <2>1. UNCHANGED <<isPlaying, timer, scan>>
      BY <1>3 DEF Threads, Delivers, HandleIntent, BroadcastArrives, QueryDone, ScanDone, StartDone,
             StartBreaks, PlaybackEnds, pageVars
    <2> QED
      BY <1>3, <2>1, Unseen, NativeExpected, BroadcastsKeep
  <1>4. CASE UNCHANGED vars
    <2>1. UNCHANGED <<isPlaying, timer, scan, toDart, starting>>
      BY <1>4 DEF vars, pageVars, nativeVars
    <2> QED
      BY <2>1, Unseen, NothingSent, BroadcastsKeep
  <1>5. CASE Next
    <2>1. \/ TapStart \/ TapStop \/ ToggleAutoStart \/ LifecycleChanges \/ TimerFires
          \/ Receive \/ Threads
      BY <1>5 DEF Next, Threads
    <2> QED
      BY <1>1, <1>2, <1>3, <2>1
  <1> QED
    BY <1>4, <1>5

\* The page is never left neither playing nor going to scan, nor with a timer
\* it does not want, whatever order starts, stops, reports and scans end in:
\* _start, _stop, _scan and _handleNativeMethodCall, across their awaits.
THEOREM AlwaysScansWhileIdle == Spec => []ScansWhileIdle
  <1>1. IInv => ScansWhileIdle
    BY DEF IInv, Timed
  <1> QED
    BY InitEstablishes, NextKeeps, <1>1, PTL DEF Spec

LEMMA TypesFollow == IInv => TypeOK
  <1> SUFFICES ASSUME IInv PROVE TypeOK
    OBVIOUS
  <1> USE DEF IInv
  <1>1. {isPlaying, autoStart, playing} \subseteq BOOLEAN
    BY DEF Timed, ShownInv, PageType, RestType
  <1>2. timer \in {"null", "active", "fired"}
    BY DEF Timed, ScansWhileIdle
  <1>3. starting \in [Sources -> Nat] /\ starting["auto"] <= 1
    BY DEF Expected, MessagesType, OneAnswer, Sources
  <1>4. \A i \in 1 .. Len(toDart) : toDart[i][1] \in Kinds
    BY DEF Expected, MessagesType
  <1>5. \A i \in 1 .. Len(intents) : intents[i] \in {"START", "STOP"}
    BY DEF ShownInv, RestType
  <1>6. \A i \in 1 .. Len(broadcasts) : broadcasts[i] \in EndReasons \cup {"user"}
    BY DEF BroadcastsType
  <1> QED
    BY <1>1, <1>2, <1>3, <1>4, <1>5, <1>6 DEF TypeOK, ShownInv, PageType, RestType

\* The page does not go on showing a playback that has ended: its end is reported after its
\* start, whichever of _start, _stop and _handleNativeMethodCall the reports meet.
THEOREM ShownPlayingHolds == Spec => []ShownPlaying
  <1>1. IInv => ShownPlaying
    <2> SUFFICES ASSUME IInv, isPlaying PROVE playing \/ InFlight
      BY TypesFollow DEF ShownPlaying
    <2>1. StartOnItsWay => intents # <<>>
      BY DEF StartOnItsWay, IInv, ShownInv, RestType
    <2>2. (\E j \in 1 .. Len(toDart) : toDart[j][1] \in {"stopped", "stopDone", "status"}) => toDart # <<>>
      OBVIOUS
    <2> QED
      BY <2>1, <2>2 DEF IInv, ShownInv, EndToCome, Lasting, InFlight
  <1> QED
    BY InitEstablishes, NextKeeps, <1>1, PTL DEF Spec
=============================================================================
