------------------------ MODULE WasapiCaptureProofs ------------------------
(***************************************************************************)
(* Proofs about WasapiCapture, for any size of the engine's buffers: a       *)
(* capture that failed to start or was dropped has left nothing behind, the  *)
(* streams end before what they use, and no packet is slept on.              *)
(*                                                                         *)
(* What they rest on is that the thread's scope is a prefix of one stack,     *)
(* Scope, whose height is determined by the setup's step on the way up; on   *)
(* the way down a stream runs only below the guard, or the client, that will  *)
(* end it.                                                                 *)
(***************************************************************************)
EXTENDS WasapiCapture, SequenceTheorems, TLAPS

-----------------------------------------------------------------------------
(* The inductive invariant                                                  *)

\* All that the scope ever owns, in order.
Scope == <<"com", "enumerator", "device", "captureClient", "renderClient", "mixFormat",
           "captureEvent", "renderEvent", "captureService", "renderService",
           "captureRunning", "renderRunning">>

Names == Ownable \union {"captureRunning", "renderRunning"}

\* The step of the setup -> how much of it the scope owns then.
Height == <<0, 1, 2, 3, 4, 5, 6, 6, 6, 6, 6, 7, 8, 8, 8, 9, 10, 10, 10, 10, 10>>

\* Where the guard, and the client, of a stream are in the scope.
GuardAt == [capture |-> 11, render |-> 12]
ClientAt == [capture |-> 4, render |-> 5]

LoopPlaces == {"loop", "wait", "packets", "copy", "padding", "silence", "write"}
SetupPlaces == {"none", "setup"}
EndPlaces == {"unwind", "ended"}

Places ==
    /\ owner \in {"spawn", "recv", "streams", "join", "joinFailed", "failed", "dropped"}
    /\ thread \in SetupPlaces \union LoopPlaces \union EndPlaces
    /\ answer \in {"none", "ok", "error"} /\ stop \in BOOLEAN /\ failed \in BOOLEAN
    /\ step \in 1 .. 21
    /\ owner = "spawn" => thread = "none"
    /\ owner = "failed" => thread \in {"none", "ended"}
    /\ owner = "dropped" => thread = "ended"
    /\ thread = "none" => step = 1

OwnedPrefix ==
    /\ owned \in Seq(Names) /\ Len(owned) <= 12
    /\ \A i \in 1 .. Len(owned) : owned[i] = Scope[i]

OwnedHeight ==
    /\ thread \in SetupPlaces => Len(owned) = Height[step]
    /\ thread \in LoopPlaces => Len(owned) = 12
    /\ thread = "ended" => Len(owned) = 0

\* The answer is given when the guards are about to be created; from then on a
\* stream runs only as long as its guard is owned, before as long as its client is.
StreamsGuarded ==
    /\ running \subseteq Clients
    /\ thread \in SetupPlaces => answer = "none"
    /\ thread \in LoopPlaces => answer = "ok"
    /\ thread \in SetupPlaces => \A c \in running : step >= 20
    /\ thread \in SetupPlaces /\ "render" \in running => step = 21
    /\ thread \in EndPlaces /\ "render" \in running => answer = "ok"
    /\ \A c \in running : ClientAt[c] <= Len(owned)
    /\ answer = "ok" => \A c \in running : GuardAt[c] <= Len(owned)

\* Between the steps a buffer is out only while it is filled or read; a return with an
\* error may leave it out, but not longer than its client.
BuffersReturned ==
    /\ handedOut \subseteq Clients
    /\ thread \in SetupPlaces /\ step # 18 => handedOut = {}
    /\ thread = "copy" => handedOut = {"capture"}
    /\ thread = "write" => handedOut = {"render"}
    /\ thread \in LoopPlaces \ {"copy", "write"} => handedOut = {}
    /\ thread = "unwind" /\ ~failed => handedOut = {}
    /\ \A c \in handedOut : ClientAt[c] <= Len(owned)

\* Silence is written for room that is there still, for the engine only makes more.
Frames ==
    /\ padding \in 0 .. BufferFrames /\ available \in 0 .. BufferFrames
    /\ thread \in {"silence", "write"} => padding + available <= BufferFrames

Packets ==
    /\ waiting \in 0 .. MaxWaiting /\ signalled \subseteq Clients
    /\ thread = "copy" => waiting > 0
    /\ thread \notin {"packets", "copy"} \union EndPlaces /\ waiting > 0 => "capture" \in signalled

IInv ==
    /\ Places
    /\ OwnedPrefix /\ OwnedHeight /\ StreamsGuarded
    /\ BuffersReturned /\ Frames /\ Packets

-----------------------------------------------------------------------------
(* The stack                                                                *)

LEMMA SetupLength == Len(Setup) = 20
  BY DEF Setup

LEMMA ScopeInjective ==
    ASSUME NEW i \in 1 .. 12, NEW j \in 1 .. 12, Scope[i] = Scope[j]
    PROVE  i = j
  BY DEF Scope

LEMMA SetupComplete == ASSUME NEW s \in 20 .. 21 PROVE Height[s] = 10
  <1>1. s = 20 \/ s = 21
    OBVIOUS
  <1>2. Height[20] = 10 /\ Height[21] = 10
    BY DEF Height
  <1> QED BY <1>1, <1>2

\* Each call of the setup puts on the stack what comes next there.
LEMMA SetupClimbs ==
    ASSUME NEW s \in 1 .. 20
    PROVE  /\ Height[s] \in Nat /\ Height[s] <= 10
           /\ Setup[s] \in Ownable => Setup[s] = Scope[Height[s] + 1] /\ Height[s + 1] = Height[s] + 1
           /\ Setup[s] \notin Ownable => Height[s + 1] = Height[s]
  BY DEF Setup, Ownable, Scope, Height

LEMMA AppendToPrefix ==
    ASSUME OwnedPrefix, Len(owned) < 12,
           NEW name \in Names, name = Scope[Len(owned) + 1], owned' = Append(owned, name)
    PROVE  OwnedPrefix' /\ Len(owned') = Len(owned) + 1
  <1>1. /\ owned' \in Seq(Names) /\ Len(owned') = Len(owned) + 1 /\ Len(owned) \in Nat
        /\ owned'[Len(owned) + 1] = name
        /\ \A i \in 1 .. Len(owned) : owned'[i] = owned[i]
    BY AppendProperties DEF OwnedPrefix
  <1> QED BY <1>1 DEF OwnedPrefix

LEMMA FrontFacts ==
    ASSUME NEW S, NEW q \in Seq(S), q # <<>>
    PROVE  \E n \in Nat :
              /\ n >= 1 /\ Len(q) = n /\ Front(q) \in Seq(S) /\ Len(Front(q)) = n - 1
              /\ \A i \in 1 .. n - 1 : Front(q)[i] = q[i]
  <1>1. PICK n \in Nat : Len(q) = n /\ n >= 1
    OBVIOUS
  <1>2. \A i \in 1 .. n - 1 : q[i] \in S
    BY <1>1
  <1>3. 1 \in Int /\ n - 1 \in Int
    OBVIOUS
  <1>4. /\ SubSeq(q, 1, n - 1) \in Seq(S)
        /\ Len(SubSeq(q, 1, n - 1)) = IF 1 <= n - 1 THEN n - 1 - 1 + 1 ELSE 0
        /\ \A i \in 1 .. n - 1 - 1 + 1 : SubSeq(q, 1, n - 1)[i] = q[1 + i - 1]
    BY <1>2, <1>3, SubSeqProperties
  <1>5. Front(q) = SubSeq(q, 1, n - 1)
    BY <1>1 DEF Front
  <1>6. Len(Front(q)) = n - 1
    BY <1>1, <1>4, <1>5
  <1>7. \A i \in 1 .. n - 1 : Front(q)[i] = q[i]
    <2> TAKE i \in 1 .. n - 1
    <2>1. SubSeq(q, 1, n - 1)[i] = q[1 + i - 1] /\ 1 + i - 1 = i
      BY <1>4
    <2> QED BY <1>5, <2>1
  <1> QED BY <1>1, <1>4, <1>5, <1>6, <1>7

LEMMA FrontOfPrefix ==
    ASSUME OwnedPrefix, owned # <<>>, owned' = Front(owned)
    PROVE  \E n \in 1 .. 12 :
              /\ Len(owned) = n /\ Len(owned') = n - 1
              /\ OwnedPrefix' /\ Last(owned) = Scope[n]
  <1>1. /\ owned \in Seq(Names) /\ Len(owned) <= 12
        /\ \A i \in 1 .. Len(owned) : owned[i] = Scope[i]
    BY DEF OwnedPrefix
  <1>2. PICK n \in Nat : /\ n >= 1 /\ Len(owned) = n
                         /\ owned' \in Seq(Names) /\ Len(owned') = n - 1
                         /\ \A i \in 1 .. n - 1 : owned'[i] = owned[i]
    BY <1>1, FrontFacts
  <1>3. \A i \in 1 .. n : owned[i] = Scope[i]
    BY <1>1, <1>2
  <1>4. n <= 12
    BY <1>1, <1>2
  <1>5. OwnedPrefix'
    BY <1>2, <1>3, <1>4 DEF OwnedPrefix
  <1>6. Last(owned) = Scope[n]
    BY <1>2, <1>3 DEF Last
  <1> QED BY <1>2, <1>4, <1>5, <1>6

\* The two guards complete the scope.
LEMMA GuardsComplete ==
    ASSUME OwnedPrefix, Len(owned) = 10, owned' = owned \o <<GuardOf.capture, GuardOf.render>>
    PROVE  OwnedPrefix' /\ Len(owned') = 12
  <1> DEFINE guards == <<"captureRunning", "renderRunning">>
  <1>1. /\ guards \in Seq(Names) /\ Len(guards) = 2
        /\ guards[1] = "captureRunning" /\ guards[2] = "renderRunning"
    BY DEF Names
  <1>2. owned' = owned \o guards
    BY DEF GuardOf
  <1> HIDE DEF guards
  <1>3. /\ owned' \in Seq(Names) /\ Len(owned') = 12
        /\ \A i \in 1 .. 12 : owned'[i] = IF i <= 10 THEN owned[i] ELSE guards[i - 10]
    <2>1. owned \in Seq(Names)
      BY DEF OwnedPrefix
    <2>2. /\ owned \o guards \in Seq(Names)
          /\ Len(owned \o guards) = Len(owned) + Len(guards)
          /\ \A i \in 1 .. Len(owned) + Len(guards) :
                 (owned \o guards)[i] = IF i <= Len(owned) THEN owned[i] ELSE guards[i - Len(owned)]
      BY <1>1, <2>1, ConcatProperties
    <2>3. Len(owned) + Len(guards) = 12
      BY <1>1
    <2> QED BY <1>1, <1>2, <2>2, <2>3
  <1>4. owned'[11] = Scope[11] /\ owned'[12] = Scope[12]
    BY <1>1, <1>3 DEF Scope
  <1>5. \A i \in 1 .. 10 : owned'[i] = Scope[i]
    BY <1>3 DEF OwnedPrefix
  <1>6. \A i \in 1 .. 12 : i \in 1 .. 10 \/ i = 11 \/ i = 12
    OBVIOUS
  <1> QED BY <1>3, <1>4, <1>5, <1>6 DEF OwnedPrefix

-----------------------------------------------------------------------------
(* Which steps touch what                                                   *)

\* The steps of the event loop that stay in it.
LoopStep ==
    \/ (CheckStop /\ ~stop)
    \/ Wait \/ GetPacket \/ ReleasePacket \/ ReadPadding \/ GetSilenceBuffer \/ WriteSilence

\* The steps of the control thread and of the engine.
OthersStep == Spawn \/ RecvAnswer \/ Drop \/ Join \/ PacketArrives \/ RenderPeriod \/ Done \/ UNCHANGED vars

\* The steps that start to return.
ReturnStep == (CheckStop /\ stop) \/ SetupFails \/ LoopFails

LEMMA StepKinds ==
    ASSUME [Next]_vars
    PROVE  SetupStep \/ Started \/ LoopStep \/ ReturnStep \/ Unwind \/ End \/ OthersStep
  BY DEF Next, CaptureThread, LoopStep, ReturnStep, OthersStep

LEMMA LoopStays ==
    ASSUME LoopStep
    PROVE  /\ thread \in LoopPlaces /\ thread' \in LoopPlaces
           /\ UNCHANGED <<owner, answer, stop, step, owned, failed, running>>
  BY DEF LoopStep, CheckStop, Wait, GetPacket, ReleasePacket, ReadPadding, GetSilenceBuffer,
         WriteSilence, Goto, LoopPlaces

LEMMA ReturnStarts ==
    ASSUME ReturnStep
    PROVE  /\ thread \in LoopPlaces \union {"setup"} /\ thread' = "unwind"
           /\ UNCHANGED <<owner, answer, stop, step, owned, running, bufferVars, engineVars>>
           /\ (thread # "loop" => failed')
           /\ thread = "setup" => step <= Len(Setup)
  BY DEF ReturnStep, CheckStop, SetupFails, LoopFails, Fails, Goto, LoopPlaces, bufferVars,
         engineVars

LEMMA OthersStay ==
    ASSUME OthersStep
    PROVE  /\ UNCHANGED <<step, owned, failed, running, bufferVars, answer>>
           /\ thread' = thread \/ (owner = "spawn" /\ owner' = "recv" /\ thread' = "setup")
  BY DEF OthersStep, Spawn, RecvAnswer, Drop, Join, PacketArrives, RenderPeriod, Done, vars,
         threadVars

-----------------------------------------------------------------------------
(* The parts of the invariant                                               *)

LEMMA PlacesStep ==
    ASSUME IInv, [Next]_vars
    PROVE  Places'
  <1> USE DEF IInv, Places
  <1>1. CASE SetupStep
    BY <1>1, SetupLength DEF SetupStep
  <1>2. CASE Started
    BY <1>2 DEF Started, LoopPlaces
  <1>3. CASE LoopStep
    BY <1>3, LoopStays DEF LoopPlaces
  <1>4. CASE ReturnStep
    BY <1>4, ReturnStarts DEF ReturnStep, CheckStop, SetupFails, LoopFails, Fails, Goto,
                              LoopPlaces, EndPlaces
  <1>5. CASE Unwind
    BY <1>5 DEF Unwind
  <1>6. CASE End
    BY <1>6 DEF End, EndPlaces
  <1>7. CASE OthersStep
    BY <1>7 DEF OthersStep, Spawn, RecvAnswer, Drop, Join, PacketArrives, RenderPeriod, Done, vars,
                threadVars, SetupPlaces
  <1> QED BY <1>1, <1>2, <1>3, <1>4, <1>5, <1>6, <1>7, StepKinds

LEMMA OwnedStep ==
    ASSUME IInv, [Next]_vars
    PROVE  OwnedPrefix' /\ OwnedHeight'
  <1> USE DEF IInv
  <1>1. CASE SetupStep
    <2>1. /\ thread = "setup" /\ thread' = thread /\ step \in 1 .. 20 /\ step' = step + 1
          /\ owned' = IF Setup[step] \in Ownable THEN Append(owned, Setup[step]) ELSE owned
      BY <1>1, SetupLength DEF SetupStep, Call, Places
    <2>2. Len(owned) = Height[step]
      BY <2>1 DEF OwnedHeight, SetupPlaces
    <2>3. OwnedPrefix' /\ Len(owned') = Height[step']
      <3>1. CASE Setup[step] \in Ownable
        <4>1. /\ Setup[step] = Scope[Height[step] + 1] /\ Height[step'] = Height[step] + 1
              /\ Height[step] \in Nat /\ Height[step] <= 10
          BY <2>1, <3>1, SetupClimbs
        <4>2. /\ Setup[step] = Scope[Len(owned) + 1] /\ Height[step'] = Len(owned) + 1
              /\ Len(owned) < 12
          BY <2>2, <4>1
        <4>3. Setup[step] \in Names
          BY <3>1 DEF Names
        <4>4. OwnedPrefix' /\ Len(owned') = Len(owned) + 1
          BY <2>1, <3>1, <4>2, <4>3, AppendToPrefix
        <4> QED BY <4>2, <4>4
      <3>2. CASE Setup[step] \notin Ownable
        BY <2>1, <2>2, <3>2, SetupClimbs DEF OwnedPrefix
      <3> QED BY <3>1, <3>2
    <2> QED BY <2>1, <2>3 DEF OwnedHeight, SetupPlaces, LoopPlaces
  <1>2. CASE Started
    <2>1. Len(owned) = 10
      <3>1. step = 21 /\ thread = "setup"
        BY <1>2, SetupLength DEF Started, Places
      <3> QED BY <3>1 DEF OwnedHeight, SetupPlaces, Height
    <2>2. OwnedPrefix' /\ Len(owned') = 12
      BY <1>2, <2>1, GuardsComplete DEF Started
    <2> QED BY <1>2, <2>2 DEF Started, OwnedHeight, SetupPlaces, LoopPlaces
  <1>3. CASE LoopStep
    BY <1>3, LoopStays DEF OwnedPrefix, OwnedHeight, LoopPlaces, SetupPlaces
  <1>4. CASE ReturnStep
    BY <1>4, ReturnStarts DEF OwnedPrefix, OwnedHeight, LoopPlaces, SetupPlaces
  <1>5. CASE Unwind
    BY <1>5, FrontOfPrefix DEF Unwind, OwnedHeight, LoopPlaces, SetupPlaces
  <1>6. CASE End
    BY <1>6 DEF End, OwnedPrefix, OwnedHeight, LoopPlaces, SetupPlaces
  <1>7. CASE OthersStep
    BY <1>7, OthersStay DEF OwnedPrefix, OwnedHeight, Places, LoopPlaces, SetupPlaces
  <1> QED BY <1>1, <1>2, <1>3, <1>4, <1>5, <1>6, <1>7, StepKinds

LEMMA ScopeOfClient ==
    ASSUME NEW c \in Clients
    PROVE  /\ ClientAt[c] \in Nat /\ ClientAt[c] <= 5 /\ Scope[ClientAt[c]] = ClientOf[c]
           /\ GuardAt[c] \in Nat /\ GuardAt[c] \in 11 .. 12 /\ Scope[GuardAt[c]] = GuardOf[c]
  BY DEF Clients, ClientAt, GuardAt, ClientOf, GuardOf, Scope

LEMMA SetupStarts ==
    ASSUME NEW s \in 1 .. 20, Setup[s] \in {"startCapture", "startRender"}
    PROVE  /\ s >= 19 /\ Height[s + 1] = 10
           /\ Setup[s] = "startRender" => s = 20
  BY DEF Setup, Height

LEMMA StreamsStep ==
    ASSUME IInv, [Next]_vars
    PROVE  StreamsGuarded'
  <1> USE DEF IInv
  <1>1. CASE SetupStep
    <2>1. /\ thread = "setup" /\ UNCHANGED <<thread, answer>> /\ step \in 1 .. 20 /\ step' = step + 1
          /\ running \subseteq running' /\ running' \subseteq running \union Clients
          /\ running' # running => Setup[step] \in {"startCapture", "startRender"}
          /\ "render" \in running' => "render" \in running \/ Setup[step] = "startRender"
          /\ Len(owned') = Height[step']
      BY <1>1, SetupLength, OwnedStep DEF SetupStep, Call, Places, Clients, OwnedHeight, SetupPlaces
    <2>2. CASE running' = running /\ running = {}
      BY <2>1, <2>2 DEF StreamsGuarded, SetupPlaces, LoopPlaces, EndPlaces
    <2>3. CASE running' # running \/ running # {}
      <3>1. step \in Nat /\ step >= 19 /\ Height[step + 1] = 10
        <4>1. CASE running' # running
          <5>1. step >= 19 /\ Height[step + 1] = 10
            BY <2>1, <4>1, SetupStarts
          <5> QED BY <2>1, <5>1
        <4>2. CASE running # {}
          BY <2>1, <4>2 DEF StreamsGuarded, SetupPlaces, Height
        <4> QED BY <2>3, <4>1, <4>2
      <3>2. running' \subseteq Clients
        BY <2>1 DEF StreamsGuarded
      <3>3. \A c \in running' : step' >= 20 /\ ClientAt[c] <= Len(owned')
        BY <2>1, <3>1, <3>2, ScopeOfClient
      <3>4. "render" \in running' => step' = 21
        <4>1. "render" \notin running
          BY <2>1 DEF StreamsGuarded, SetupPlaces
        <4>2. ASSUME "render" \in running'
              PROVE  step = 20
          <5>1. Setup[step] = "startRender"
            BY <2>1, <4>1, <4>2
          <5>2. Setup[step] \in {"startCapture", "startRender"}
            BY <5>1
          <5> QED BY <2>1, <5>1, <5>2, SetupStarts
        <4> QED BY <2>1, <4>2
      <3> QED BY <2>1, <3>2, <3>3, <3>4 DEF StreamsGuarded, SetupPlaces, LoopPlaces, EndPlaces
    <2> QED BY <2>2, <2>3
  <1>2. CASE Started
    <2>1. /\ Len(owned') = 12 /\ thread' = "loop" /\ answer' = "ok" /\ running' = running
      BY <1>2, OwnedStep DEF Started, OwnedHeight, LoopPlaces
    <2>2. \A c \in running' : ClientAt[c] <= Len(owned') /\ GuardAt[c] <= Len(owned')
      BY <2>1, ScopeOfClient DEF StreamsGuarded
    <2> QED BY <2>1, <2>2 DEF StreamsGuarded, SetupPlaces, LoopPlaces, EndPlaces
  <1>3. CASE LoopStep
    BY <1>3, LoopStays DEF StreamsGuarded, LoopPlaces, SetupPlaces, EndPlaces
  <1>4. CASE ReturnStep
    <2>1. /\ thread \in LoopPlaces \union {"setup"} /\ thread' = "unwind"
          /\ UNCHANGED <<answer, owned, running>>
          /\ thread = "setup" => step <= 20
      BY <1>4, ReturnStarts, SetupLength
    <2>2. "render" \in running => answer = "ok"
      <3>1. CASE thread = "setup"
        BY <2>1, <3>1 DEF StreamsGuarded, SetupPlaces
      <3>2. CASE thread \in LoopPlaces
        BY <3>2 DEF StreamsGuarded
      <3> QED BY <2>1, <3>1, <3>2
    <2> QED BY <2>1, <2>2 DEF StreamsGuarded, LoopPlaces, SetupPlaces
  <1>5. CASE Unwind
    <2>1. /\ thread' = "unwind" /\ answer' = answer
          /\ running' = running \ {c \in Clients : Last(owned) \in {GuardOf[c], ClientOf[c]}}
      BY <1>5 DEF Unwind
    <2>2. PICK n \in Nat : Len(owned) = n /\ Len(owned') = n - 1 /\ Last(owned) = Scope[n]
      <3>1. owned # <<>> /\ owned' = Front(owned)
        BY <1>5 DEF Unwind
      <3>2. \E n \in 1 .. 12 : Len(owned) = n /\ Len(owned') = n - 1 /\ Last(owned) = Scope[n]
        BY <3>1, FrontOfPrefix
      <3> QED BY <3>2
    <2>3. ASSUME NEW c \in running'
          PROVE  c \in running /\ Scope[n] # GuardOf[c] /\ Scope[n] # ClientOf[c]
      BY <2>1, <2>2 DEF StreamsGuarded
    <2>4. ASSUME NEW c \in running'
          PROVE  ClientAt[c] <= n - 1 /\ (answer = "ok" => GuardAt[c] <= n - 1)
      <3>1. c \in Clients /\ ClientAt[c] <= n /\ (answer = "ok" => GuardAt[c] <= n)
        BY <2>2, <2>3 DEF StreamsGuarded
      <3>2. n # ClientAt[c] /\ n # GuardAt[c]
        BY <2>3, <3>1, ScopeOfClient
      <3> QED BY <3>1, <3>2, ScopeOfClient
    <2>5. thread = "unwind"
      BY <1>5 DEF Unwind
    <2> QED BY <2>1, <2>2, <2>3, <2>4, <2>5 DEF StreamsGuarded, LoopPlaces, SetupPlaces, EndPlaces
  <1>6. CASE End
    <2>1. thread = "unwind" /\ thread' = "ended" /\ UNCHANGED <<owned, running>>
      BY <1>6 DEF End
    <2>2. answer = "ok" => answer' = "ok"
      BY <1>6 DEF End
    <2>3. answer' = "ok" => answer = "ok"
      BY <1>6 DEF End
    <2> QED BY <2>1, <2>2, <2>3 DEF StreamsGuarded, LoopPlaces, SetupPlaces, EndPlaces
  <1>7. CASE OthersStep
    BY <1>7, OthersStay DEF StreamsGuarded, LoopPlaces, SetupPlaces, EndPlaces, Places
  <1> QED BY <1>1, <1>2, <1>3, <1>4, <1>5, <1>6, <1>7, StepKinds

LEMMA SetupPrimes ==
    ASSUME NEW s \in 1 .. 20, Setup[s] = "primeBuffer"
    PROVE  s = 17 /\ Height[s + 1] = 10
  <1>1. s = 17
    BY DEF Setup
  <1>2. Height[18] = 10
    BY DEF Height
  <1> QED BY <1>1, <1>2

LEMMA BuffersStep ==
    ASSUME IInv, [Next]_vars
    PROVE  BuffersReturned'
  <1> USE DEF IInv, BuffersReturned
  <1>1. CASE SetupStep
    <2>1. /\ thread = "setup" /\ thread' = thread /\ step \in 1 .. 20 /\ step' = step + 1
          /\ handedOut' # {} => handedOut' = {"render"} /\ Setup[step] = "primeBuffer"
          /\ Len(owned') = Height[step']
      BY <1>1, SetupLength, OwnedStep DEF SetupStep, Call, Places, OwnedHeight, SetupPlaces
    <2>2. ASSUME handedOut' # {}
          PROVE  step' = 18 /\ handedOut' = {"render"} /\ Len(owned') = 10
      <3>1. Setup[step] = "primeBuffer" /\ handedOut' = {"render"}
        BY <2>1, <2>2
      <3>2. step = 17 /\ Height[step + 1] = 10
        BY <2>1, <3>1, SetupPrimes
      <3> QED BY <2>1, <3>1, <3>2
    <2>3. ASSUME NEW c \in handedOut'
          PROVE  c \in Clients /\ ClientAt[c] <= Len(owned')
      <3>1. c = "render" /\ Len(owned') = 10
        BY <2>2
      <3> QED BY <3>1 DEF Clients, ClientAt
    <2> QED BY <2>1, <2>2, <2>3 DEF LoopPlaces
  <1>2. CASE Started
    BY <1>2, SetupLength DEF Started, bufferVars, Places, SetupPlaces, LoopPlaces
  <1>3. CASE LoopStep
    <2>1. thread \in LoopPlaces /\ thread' \in LoopPlaces /\ UNCHANGED owned /\ Len(owned) = 12
      BY <1>3, LoopStays DEF OwnedHeight
    <2>2. /\ thread' = "copy" => handedOut' = {"capture"}
          /\ thread' = "write" => handedOut' = {"render"}
          /\ thread' \notin {"copy", "write"} => handedOut' = {}
      <3>1. CASE CheckStop \/ Wait
        BY <3>1 DEF CheckStop, Wait, Goto, bufferVars, LoopPlaces
      <3>2. CASE GetPacket
        BY <3>2 DEF GetPacket, Goto, LoopPlaces
      <3>3. CASE ReleasePacket
        BY <3>3 DEF ReleasePacket, Goto
      <3>4. CASE ReadPadding
        BY <3>4 DEF ReadPadding, Goto, LoopPlaces
      <3>5. CASE GetSilenceBuffer
        BY <3>5 DEF GetSilenceBuffer, Goto, LoopPlaces
      <3>6. CASE WriteSilence
        BY <3>6 DEF WriteSilence, Goto
      <3> QED BY <1>3, <3>1, <3>2, <3>3, <3>4, <3>5, <3>6 DEF LoopStep
    <2>3. handedOut' \subseteq Clients
      BY <2>2 DEF Clients
    <2>4. ASSUME NEW c \in handedOut'
          PROVE  c \in Clients /\ ClientAt[c] <= 12
      <3>1. c \in Clients
        BY <2>3
      <3>2. ClientAt[c] \in Nat /\ ClientAt[c] <= 5
        BY <3>1, ScopeOfClient
      <3> QED BY <3>1, <3>2
    <2> QED BY <2>1, <2>2, <2>3, <2>4 DEF LoopPlaces, SetupPlaces
  <1>4. CASE ReturnStep
    <2>1. thread' = "unwind" /\ UNCHANGED <<owned, handedOut>>
      BY <1>4, ReturnStarts DEF bufferVars
    <2>2. ~failed' => handedOut' = {}
      BY <1>4, ReturnStarts DEF bufferVars, LoopPlaces
    <2> QED BY <2>1, <2>2 DEF LoopPlaces, SetupPlaces
  <1>5. CASE Unwind
    <2>1. /\ thread = "unwind" /\ UNCHANGED <<thread, failed>>
          /\ handedOut' = handedOut \ {c \in Clients : Last(owned) = ClientOf[c]}
      BY <1>5 DEF Unwind
    <2>2. PICK n \in Nat : Len(owned) = n /\ Len(owned') = n - 1 /\ Last(owned) = Scope[n]
      <3>1. owned # <<>> /\ owned' = Front(owned)
        BY <1>5 DEF Unwind
      <3>2. \E n \in 1 .. 12 : Len(owned) = n /\ Len(owned') = n - 1 /\ Last(owned) = Scope[n]
        BY <3>1, FrontOfPrefix
      <3> QED BY <3>2
    <2>3. ASSUME NEW c \in handedOut'
          PROVE  ClientAt[c] <= n - 1
      <3>1. c \in Clients /\ ClientAt[c] <= n /\ Scope[n] # ClientOf[c]
        BY <2>1, <2>2
      <3>2. n # ClientAt[c]
        BY <3>1, ScopeOfClient
      <3> QED BY <3>1, <3>2, ScopeOfClient
    <2> QED BY <2>1, <2>2, <2>3 DEF LoopPlaces, SetupPlaces
  <1>6. CASE End
    <2>1. thread' = "ended" /\ UNCHANGED <<owned, handedOut>>
      BY <1>6 DEF End, bufferVars
    <2> QED BY <2>1 DEF LoopPlaces, SetupPlaces
  <1>7. CASE OthersStep
    <2>1. /\ UNCHANGED <<step, owned, failed, handedOut>>
          /\ thread' = thread \/ (thread = "none" /\ thread' = "setup")
      BY <1>7, OthersStay DEF bufferVars, Places
    <2> QED BY <2>1 DEF SetupPlaces, LoopPlaces
  <1> QED BY <1>1, <1>2, <1>3, <1>4, <1>5, <1>6, <1>7, StepKinds

LEMMA LessUsed ==
    ASSUME NEW b \in Nat, NEW p \in Nat, NEW q \in Nat, NEW a \in Nat, q <= p, p + a <= b
    PROVE  q + a <= b
  OBVIOUS

LEMMA FramesStep ==
    ASSUME IInv, [Next]_vars
    PROVE  Frames'
  <1> USE EngineAssumption DEF IInv, Frames
  <1>1. CASE SetupStep
    BY <1>1 DEF SetupStep, Call
  <1>2. CASE Started \/ Unwind \/ End
    BY <1>2 DEF Started, Unwind, End, bufferVars, engineVars
  <1>3. CASE ReadPadding
    BY <1>3 DEF ReadPadding, Goto, engineVars
  <1>4. CASE WriteSilence
    BY <1>4 DEF WriteSilence, Goto
  <1>5. CASE LoopStep /\ ~ReadPadding /\ ~WriteSilence
    BY <1>5 DEF LoopStep, CheckStop, Wait, GetPacket, ReleasePacket, GetSilenceBuffer,
                Goto, bufferVars, engineVars
  <1>6. CASE ReturnStep
    BY <1>6, ReturnStarts DEF engineVars, bufferVars
  <1>7. CASE RenderPeriod
    <2>1. /\ padding' \in Nat /\ (padding' = padding \/ padding' = padding - 1)
          /\ UNCHANGED <<thread, available>>
      BY <1>7 DEF RenderPeriod, threadVars, bufferVars
    <2>2. padding \in Nat /\ padding' \in 0 .. BufferFrames /\ padding' <= padding
      BY <2>1
    <2>3. ASSUME thread \in {"silence", "write"}
          PROVE  padding' + available <= BufferFrames
      <3>1. padding + available <= BufferFrames /\ available \in Nat /\ BufferFrames \in Nat
        BY <2>3
      <3> QED BY <2>1, <2>2, <3>1, LessUsed
    <2> QED BY <2>1, <2>2, <2>3
  <1>8. CASE OthersStep /\ ~RenderPeriod
    BY <1>8 DEF OthersStep, Spawn, RecvAnswer, Drop, Join, PacketArrives, Done, vars, threadVars,
                bufferVars, engineVars
  <1> QED BY <1>1, <1>2, <1>3, <1>4, <1>5, <1>6, <1>7, <1>8, StepKinds

LEMMA PacketsStep ==
    ASSUME IInv, [Next]_vars
    PROVE  Packets'
  <1> USE EngineAssumption DEF IInv, Packets
  <1>1. CASE SetupStep
    BY <1>1 DEF SetupStep, bufferVars
  <1>2. CASE Started \/ Unwind \/ End
    BY <1>2 DEF Started, Unwind, End, bufferVars, engineVars, EndPlaces
  <1>3. CASE Wait
    BY <1>3 DEF Wait, Goto, bufferVars, EndPlaces, Clients
  <1>4. CASE GetPacket
    BY <1>4 DEF GetPacket, Goto, bufferVars, engineVars, EndPlaces
  <1>5. CASE ReleasePacket
    BY <1>5 DEF ReleasePacket, Goto
  <1>6. CASE LoopStep /\ ~Wait /\ ~GetPacket /\ ~ReleasePacket
    BY <1>6 DEF LoopStep, CheckStop, ReadPadding, GetSilenceBuffer, WriteSilence,
                Goto, bufferVars, engineVars, EndPlaces
  <1>7. CASE ReturnStep
    BY <1>7, ReturnStarts DEF engineVars, bufferVars, EndPlaces
  <1>8. CASE PacketArrives
    BY <1>8 DEF PacketArrives, threadVars, bufferVars, Clients
  <1>9. CASE RenderPeriod
    BY <1>9 DEF RenderPeriod, threadVars, bufferVars, Clients
  <1>10. CASE OthersStep /\ ~PacketArrives /\ ~RenderPeriod
    BY <1>10 DEF OthersStep, Spawn, RecvAnswer, Drop, Join, Done, vars, threadVars,
                 bufferVars, engineVars, Places, EndPlaces
  <1> QED BY <1>1, <1>2, <1>3, <1>4, <1>5, <1>6, <1>7, <1>8, <1>9, <1>10, StepKinds

-----------------------------------------------------------------------------
(* The theorems                                                             *)

LEMMA InitInvariant == Init => IInv
  <1> SUFFICES ASSUME Init PROVE IInv
    OBVIOUS
  <1> USE EngineAssumption DEF Init
  <1>1. Places
    <2>1. stop \in BOOLEAN /\ failed \in BOOLEAN
      OBVIOUS
    <2> QED BY <2>1 DEF Places, SetupPlaces
  <1>2. BuffersReturned /\ Frames /\ Packets
    BY DEF BuffersReturned, Frames, Packets, LoopPlaces
  <1>3. OwnedPrefix /\ OwnedHeight /\ StreamsGuarded
    BY DEF OwnedPrefix, OwnedHeight, SetupPlaces, LoopPlaces, EndPlaces, Height, StreamsGuarded
  <1> QED BY <1>1, <1>2, <1>3 DEF IInv

THEOREM Invariant == Spec => []IInv
  <1>1. IInv /\ [Next]_vars => IInv'
    BY PlacesStep, OwnedStep, StreamsStep, BuffersStep, FramesStep, PacketsStep DEF IInv
  <1> QED BY InitInvariant, <1>1, PTL DEF Spec

LEMMA TypeFollows == IInv => TypeOK
  <1> SUFFICES ASSUME IInv PROVE TypeOK
    OBVIOUS
  <1> USE DEF IInv
  <1>1. DOMAIN owned = 1 .. Len(owned) /\ \A i \in 1 .. Len(owned) : i \in 1 .. 12 /\ owned[i] \in Names
    BY DEF OwnedPrefix
  <1>2. Range(owned) \subseteq Ownable \union Range(GuardOf)
    <2>1. Range(owned) \subseteq Names
      BY <1>1 DEF Range
    <2>2. Names \subseteq Ownable \union Range(GuardOf)
      BY DEF Names, Range, GuardOf
    <2> QED BY <2>1, <2>2
  <1>3. IsInjective(owned)
    BY <1>1, ScopeInjective DEF IsInjective, OwnedPrefix
  <1>4. step \in 1 .. Len(Setup) + 1
    BY SetupLength DEF Places
  <1>5. handedOut \subseteq Clients
    BY DEF BuffersReturned
  <1>6. thread \in {"none", "setup", "loop", "wait", "packets", "copy", "padding", "silence", "write",
                   "unwind", "ended"}
    BY DEF Places, SetupPlaces, LoopPlaces, EndPlaces
  <1>7. stop \in BOOLEAN /\ failed \in BOOLEAN
    BY DEF Places
  <1> QED BY <1>2, <1>3, <1>4, <1>5, <1>6, <1>7
          DEF TypeOK, Places, StreamsGuarded, Frames, Packets

\* A capture whose start failed, or that was dropped, has left nothing behind, whichever call
\* of its setup or its loop failed: LoopbackStreams::drop and the scope of
\* run_wasapi_loopback.
THEOREM NothingLeftHolds == Spec => []NothingLeft
  <1>1. IInv => NothingLeft
    <2> SUFFICES ASSUME IInv, owner \in {"failed", "dropped"}
                 PROVE  thread \in {"none", "ended"} /\ owned = <<>> /\ running = {} /\ handedOut = {}
      BY TypeFollows DEF NothingLeft
    <2> USE DEF IInv
    <2>1. thread \in {"none", "ended"}
      BY DEF Places
    <2>2. Len(owned) = 0
      BY <2>1 DEF Places, OwnedHeight, SetupPlaces, Height
    <2>3. owned = <<>>
      BY <2>2 DEF OwnedPrefix
    <2>4. running = {}
      BY <2>2, ScopeOfClient DEF StreamsGuarded, ClientAt, Clients
    <2>5. handedOut = {}
      BY <2>2, ScopeOfClient DEF BuffersReturned, ClientAt, Clients
    <2> QED BY <2>1, <2>3, <2>4, <2>5
  <1> QED BY <1>1, Invariant, PTL

\* Whichever call of run_wasapi_loopback fails, the order in which its scope is dropped
\* keeps the client of a stream that runs, and the handle of its event, but for the
\* capture's when the second Start fails; and a buffer's client as long as the buffer.
THEOREM EventsOutliveStreamsHolds == Spec => []EventsOutliveStreams
  <1>1. IInv => EventsOutliveStreams
    <2> SUFFICES ASSUME IInv PROVE EventsOutliveStreams
      OBVIOUS
    <2> USE DEF IInv
    <2>1. \A i \in 1 .. Len(owned) : owned[i] = Scope[i] /\ Owns(Scope[i])
      BY DEF OwnedPrefix, Owns, Range
    <2>2. ASSUME NEW c \in Clients, ClientAt[c] <= Len(owned)
          PROVE  Owns("com") /\ Owns(ClientOf[c])
      <3>1. PICK n \in Nat : n = Len(owned)
        BY DEF OwnedPrefix
      <3>2. 1 \in 1 .. n /\ ClientAt[c] \in 1 .. n
        BY <2>2, <3>1 DEF Clients, ClientAt
      <3>3. Scope[1] = "com"
        BY DEF Scope
      <3> QED BY <2>1, <3>1, <3>2, <3>3, ScopeOfClient
    <2>3. \A c \in running : c \in Clients /\ ClientAt[c] <= Len(owned)
      BY DEF StreamsGuarded
    <2>4. \A c \in handedOut : c \in Clients /\ ClientAt[c] <= Len(owned)
      BY DEF BuffersReturned
    <2>5. ASSUME NEW c \in running
          PROVE  Owns(EventOf[c]) \/ StartFailedHalfway(c)
      <3>1. ASSUME Len(owned) >= 8
            PROVE  Owns(EventOf[c])
        <4>1. PICK n \in Nat : n = Len(owned)
          BY DEF OwnedPrefix
        <4>2. 7 \in 1 .. n /\ 8 \in 1 .. n
          BY <3>1, <4>1
        <4>3. Scope[7] = "captureEvent" /\ Scope[8] = "renderEvent"
          BY DEF Scope
        <4> QED BY <2>1, <2>3, <4>1, <4>2, <4>3 DEF Clients, EventOf
      <3>2. CASE thread \in SetupPlaces
        <4>1. step \in 20 .. 21 /\ Len(owned) = Height[step]
          BY <3>2 DEF StreamsGuarded, OwnedHeight, Places
        <4>2. Len(owned) = 10
          BY <4>1, SetupComplete
        <4> QED BY <3>1, <4>2
      <3>3. CASE thread \in LoopPlaces
        <4>1. Len(owned) = 12
          BY <3>3 DEF OwnedHeight
        <4>2. Len(owned) >= 8
          BY <4>1
        <4> QED BY <3>1, <4>2
      <3>4. CASE thread = "ended"
        BY <2>3, <3>4, ScopeOfClient DEF OwnedHeight, ClientAt, Clients
      <3>5. CASE thread = "unwind"
        <4>1. CASE answer = "ok"
          <5>1. GuardAt[c] <= Len(owned) /\ c \in Clients
            BY <4>1, <2>3 DEF StreamsGuarded
          <5>2. PICK n \in Nat : n = Len(owned)
            BY DEF OwnedPrefix
          <5>3. n >= 8
            BY <5>1, <5>2 DEF GuardAt, Clients
          <5> QED BY <3>1, <5>2, <5>3
        <4>2. CASE answer # "ok"
          BY <2>3, <3>5, <4>2 DEF StreamsGuarded, EndPlaces, Clients, StartFailedHalfway
        <4> QED BY <4>1, <4>2
      <3> QED BY <3>2, <3>3, <3>4, <3>5 DEF Places, EndPlaces
    <2>6. ASSUME handedOut # {}
          PROVE  \/ thread \in {"copy", "write"}
                 \/ thread = "setup" /\ Setup[step] = "primeRelease"
                 \/ thread = "unwind" /\ failed
      <3>1. CASE thread \in SetupPlaces
        <4>1. step = 18 /\ thread # "none"
          BY <2>6, <3>1 DEF BuffersReturned, Places
        <4>2. Setup[18] = "primeRelease"
          BY DEF Setup
        <4> QED BY <3>1, <4>1, <4>2 DEF SetupPlaces
      <3>2. CASE thread \in LoopPlaces
        BY <2>6, <3>2 DEF BuffersReturned
      <3>3. CASE thread = "unwind"
        BY <2>6, <3>3 DEF BuffersReturned
      <3>4. CASE thread = "ended"
        BY <2>4, <2>6, <3>4, ScopeOfClient DEF OwnedHeight, ClientAt, Clients
      <3> QED BY <3>1, <3>2, <3>3, <3>4 DEF Places, EndPlaces
    <2> QED BY <2>2, <2>3, <2>4, <2>5, <2>6 DEF EventsOutliveStreams
  <1> QED BY <1>1, Invariant, PTL

\* The thread never sleeps on packets: process_capture_packets drains them all, and one
\* that comes later signals the event again.
THEOREM NoPacketForgottenHolds == Spec => []NoPacketForgotten
  <1>1. IInv => NoPacketForgotten
    BY DEF IInv, NoPacketForgotten, Packets, EndPlaces
  <1> QED BY <1>1, Invariant, PTL
=============================================================================
