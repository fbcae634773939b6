# AudioLink: a TLA+ verification project

AudioLink plays the sound of a Windows computer on an Android phone in the same
network. A desktop program (`src/Rust`) captures the default output device with
WASAPI loopback and sends 48 kHz stereo PCM over UDP; an Android app
(`src/Flutter`, Dart user interface over a Kotlin service) starts and stops the
stream over a TCP control connection, receives the packets into a jitter buffer
and writes them to an AudioTrack. This directory models the parts of the two
programs where several threads, tasks or messages meet, and the arithmetic on
which both ends have to agree.

`K` below is `PcmAudioService.kt`.

## 1. Inventory

| component | state | operations | interacts with | correct when |
|---|---|---|---|---|
| Jitter buffer, class `JitterBuffer` of K | ring of slots, `bufferedFrames`, `stopped` | `put`, `take`, `fecFor`, `release`, `stop`, queries, timed waits; all synchronized | receiver thread puts, playback thread takes and writes the frame **outside** the lock | a held frame is never overwritten; the counter is exact; nothing that is still to be played is dropped; stopped is final |
| One stream, `playStartedStream` of K | `expectedSequence`, `receiverRunning`, `receiverError`, target watermark, duplicate filter | receive loop, filling loop, play loop, FEC, loss, stretch, `finally` | two threads over the buffer; main thread stops them | every sequence is played, cut short or counted lost, once, in order; stop and timeout end both threads; no packet is stuck |
| Playback service, K | `running`, `playbackThread`, `udpSocket`, `audioTrack`, `playbackStoppedNotified` | start, stop, reconnect loop, warm-up, output-device callback | main thread, playback threads, control connections | the app is told when it ends, nothing stays open, the server stops streaming |
| Auto buffer, duplicate filter, K | window of intervals, target; ring and set of sequences | record, target, increase; is duplicate, mark handled | both threads, unsynchronized | target stays in range; a repeated packet within the history is dropped |
| Page of the app, `main.dart`, `MainActivity.kt` | `_isPlaying`, block reason, scan timer, the scan in progress | start, stop, scan, automatic start, `playbackStopped` | platform channel, every await; threads of the activity; the service's broadcasts | never neither playing nor scanning; what is shown is true in the end |
| mDNS scan, `MdnsDiscovery.kt` | listener, latch, devices found | scan | Android NSD callbacks | the scan ends |
| Volume control, `main.dart`, `control_server.rs` | displayed volume and mute | debounce, send, apply the answer | one connection per command | display and computer agree in the end |
| WASAPI capture, `audio_capture.rs` | about twenty COM calls, two streams, two events | setup, loop, drain, silence, drop | control thread, audio engine | every failure undoes what was acquired; the start is answered; a drop returns |
| Pipeline, `audio_capture.rs` | queue, `producer_alive`, `sender_thread`, restart and stop channels | capture, push, pop, send, restart, stop | capture, control and sender threads, supervisor task, device watcher | no lost wake-up, order, newest kept, everything ends |
| Sender, packet format, `audio_capture.rs`, `audio_protocol.rs`, K | resampler's rest, `pending`, `FrameSizer`, sequence, previous packet | resample, cut, number, copy; parse | server writes, app parses | no sample lost, repeated or kept for ever; both ends read the same |
| Control server, `control_server.rs` | `AudioSession` (stop channel, target) | one task per connection: START_UDP, STOP_UDP, STATUS, volume, media keys | pipelines, statistics, shutdown | no pipeline runs that nobody can stop |
| Statistics and admin page, `audio_stats.rs`, `web_admin.rs` | static atomics, `AUDIO_STREAM_ACTIVE` first of all | reset, update, clear, mark inactive | written by the threads of every session, read by STATUS and the page | the flag agrees with reality when things settle |
| Device watcher, `audio_device_events.rs` | watch channel of a version | COM callback, start, failure | supervisor of each pipeline | a session follows the device |
| mDNS publisher, `mdns_discovery.rs`, `network_events.rs` | daemon, watch channel, context of the callbacks | publish, debounce, republish, shut down | Windows callbacks | a change is published in the end; the context outlives the callbacks |
| Service and tray, `app.rs`, `tray.rs` | thread, cancellation token, menu | start, stop, refresh, quit | the three tasks of the service | "stopped" means that the runtime is gone |

Hard behaviour: two threads over an unlocked frame; unsynchronized helper
objects; park and unpark; chains of parties that must all end; commands served
concurrently; a join that gives up, and joins that do not; flags written by the
threads of two sessions; state read before an await and used after it; memory
freed by hand under callbacks. `PROJECT.json` lists the hazards one by one at
their lines, with the properties that cover them.

## 2. Modules

| module | models | builds on |
|---|---|---|
| `JitterBuffer` | the buffer with its most general client | |
| `Playout` | what playing one stream promises (abstract) | |
| `PlaybackStream` | the receiver and playback threads of one stream | extends `JitterBuffer`; implements its specification and `Playout` |
| `PlaybackService` | the Android service: main thread, playback threads, sockets and tracks | |
| `AutoStart` | the page of the app, the activity's threads, the service as it sees it | |
| `PcmPipe` | one pipeline of the server: its threads, its queue and how it ends | |
| `WasapiCapture` | one capture thread with the audio engine and its owner | |
| `UdpPacket` | the bytes of a packet, written by one end and read by the other | |
| `UdpSender` | the audio from the captured frames to the packets | extends `UdpPacket` |
| `AudioSession` | the control server, its pipelines from outside, the active flag | |
| `MdnsPublisher` | the publisher task, the network watcher, the callbacks | |
| `Service` | tray, service thread, runtime and tasks | extends `MdnsPublisher` |
| `PlaybackStreamProofs` | theorems about the jitter buffer, the stream and the playout | extends `PlaybackStream` |
| `PlaybackServiceProofs`, `AutoStartProofs`, `PcmPipeProofs`, `WasapiCaptureProofs`, `UdpSenderProofs`, `AudioSessionProofs`, `ServiceProofs` | theorems | extend the module of that name; `ServiceProofs` covers `MdnsPublisher` too |

Definitions called a mutant in their comment are not part of a model: they are
variants of the definition they follow, each with one plausible mistake, and
show that a property would notice it.

### State and actions

*JitterBuffer.* `slots`, `bufferedFrames`, `stopped` are the fields of the class.
`held` is the `JitterFrame` the one consumer has taken and not released. Each
method is synchronized and thus one action: `Put`, `Take` (with `dropBefore` as
its first effect), `FecFor`, `Release`, `Stop`. A payload is identified with the
sequence of its packet, so `sequence` and `fecSequence` of a slot stand for the
bytes in its two arrays too.

*PlaybackStream.* `rpc` and `ppc` say where the receiver and the playback thread
are; labels name the code between two accesses to shared state. Watermark and
timed waits are guards (`AwaitFrames`) or may end any time (`AwaitSequence`).
The network is any subset of packets `0..Last` in any order with repetition,
packet `s` carrying the copy of `s-1`. `StopRunning` and `CloseResources` are
the two steps of `stopPlayback` the stream can see. `seen` is the duplicate
filter: as its `HashSet` is not synchronized, an insertion that overlaps one of
the other thread may be lost. `played` and `cut` are what is written to the
track, whole or cut short by `writeFully`, and `lost` is what is added to the loss
statistics.

*PlaybackService.* The main thread is idle or at a step of `stopPlayback`, with
the cause it handles; a playback thread is at a step of `playOneConnection` or
of the loop around it, in its warm-up or its playback stage. `running`, `field`
and `notified` exist per service instance, as `onDestroy` and a later START
replace the object while an old thread may still hold it. `udpSocket` and
`audioTrack` are one field; reading it to close and clearing it are two steps,
so the two threads that call `closePlaybackResources` may overlap. The
server streams or does not; `pending` are the commands whose client has given up
on them before they were executed, which a task of the server may still do
(`ExecuteLate`).

*AutoStart.* A turn of Dart, up to its next await, is one action; `scan` is what
the call of `_scan` waits for. `starting` and `querying` count the threads of
`MainActivity` that talk to a server for a start or a status, and `toDart` is
the main thread's queue of what they answer and of `playbackStopped`. Intents
reach the service later and in order, and its broadcasts the activity. Host
fields are left out: with them the page only chooses which server to play.

*PcmPipe.* One program counter for each of the capture, control and sender
threads, the supervisor task and the function that starts them. `token` is the
park token of the sender. Drop of `LoopbackStreams` is two steps, the stop flag
and the join. The device watch channel is a version and the version seen;
`device` is the device itself, which changes before the callback tells, and
`watcher` the thread that holds the channel's sender and may have failed.

*WasapiCapture.* The calls of the setup are the sequence `Setup`; what the
scope of the thread owns is the stack `owned`, from which a return, early or not,
drops. `running`, `signalled`, `waiting` and `padding` are the audio engine's:
streams, auto-reset events, packets not yet read and silence not yet played.

*UdpPacket, UdpSender.* A source frame is its number, and a frame of the stream
the number of the one it is computed from. `unresampled`, `pending`, `carried`,
`previousFec`, `sequence` and `timestamp` are the variables of `StreamResampler`,
`send_pcm_udp` and `FrameSizer`; `refused` is the chunk `push_latest_pcm` holds
between a push that a full queue refused and the next, while the sender may take
chunks; `taken` and `packets` record what came in and
went out. `Datagram` lays out the bytes and `Parse` takes them apart with the
receiver's own offsets. The receiver's frame length is taken to be the sender's,
which publishes it as `frame_ms` and has the receiver's `DEFAULT_FRAME_MS` of 10.

*AudioSession.* A request is a record with its command and how far it is served.
A START_UDP spawns its pipeline and registers it under the mutex in two steps. A
pipeline is its stop channel, sender and supervisor. `active` is the static
flag. The service may be shut down, its runtime dropped, and started again.

*MdnsPublisher, Service.* The network is the number of its last change,
`advertised` the one the daemon was published with. A callback is two steps,
reading the channel's value and sending it increased, which is how two kinds of
callback send the same value. `context` is the block the watcher allocates for
them, and `leaked` are the notifications it failed to cancel. The tray's loop, the handle's thread, the runtime that polls or drops the
three tasks, and the blocking calls inside the publisher are separate steps; the
control server and the admin page are tasks that run, fail or shut down.

## 3. Runs

| run | instance | shows |
|---|---|---|
| `jitter_buffer` | 3 slots, sequences 0..4 | what the marks protect, the counter, and that a stopped buffer stays empty |
| `stream` | 2 slots, packets 0..2, watermark 0, 1 or 2, moving | the threads hold one frame at a time, as the buffer needs, and account for every sequence (two refinements); what is still to be played is not discarded; no packet is stuck; stop and timeout end the stream |
| `playback_service` | 2 intents, joins that expire, an opening that fails halfway, commands that fail or are executed late | nothing left open but the track of a failed opening, every end reported, no stream left on the server unless a STOP_UDP failed or a START_UDP was late |
| `auto_start` | 3 taps, 1 playback that ends by itself | the page goes on scanning, shows no dead playback, and plays in the end |
| `auto_start_manual_stop` | 2 taps, 1 such end | **violated**: automatic start after a manual stop |
| `pcm_pipe` | queue of 2, 3 chunks, a device change before and one during the session, a watcher that may fail | wake-ups, order, newest kept, everything ends, the capture follows the device |
| `pcm_pipe_restart` | 1 earlier change | **violated**: a capture restarted for an old change |
| `wasapi_capture` | buffer of 3 frames, 2 packets, every call may fail | nothing left behind, no client or buffer gone before its stream, and no event but in one failing start, no packet slept on, start and drop return |
| `udp_sender` | 1.5 frames of the stream per packet, source at 2/3 of the rate, 6 frames, queue of 2, 1 change of device | no sample lost or repeated, packets chained, both ends agree on the bytes, order kept, delay bounded |
| `audio_session` | 3 requests, failing sends and binds, a service stopped and started | no orphan pipeline, every stopped one ends; the active flag ends up right unless a send failed |
| `service` | 2 starts, 3 network changes, 1 further server, cancellations that fail | stopped means that the runtime is gone, failures and quit end everything, the context outlives every notification that was cancelled, the latest network is published |
| `service_cancel_fails` | 1 start, 2 network changes | **violated**: a notification that could not be cancelled calls back into the freed context |

Every module has one invariant of its types, `TypeOK`: it is part of an invariant
of a run, or of the inductive invariant of a proof, or both.

Bounds. The buffer's cases are two packets in one slot, a packet older than the
one expected, a gap and a frame held while its slot is wanted: three slots and
five numbers have all of them at once, and the proofs drop the bound. Packets
0..2 through two slots wrap the ring, are lost and arrive in any order. `Seqs`
of the stream run reaches one beyond `Last`: the expected sequence advances past
the last packet when waits time out. Two places in
the queue and three chunks make the producer overwrite; one change before and
one during the session are the two kinds there are. Three requests are a
session, the one that replaces it and a stop, or a stop between two starts. Two
intents with the callback and `onDestroy` on top are a start that replaces
another, a start and a stop, or a start of a service that is being destroyed, and
are enough for a thread that outlives its join to be revived beside another; the
proofs drop the bound. With everything that may fail or come late they make five
million states, too many for liveness, so this run checks safety only and states
no fairness. Three taps are a start, a stop and
a second start, or a start while another is awaited, with the automatic ones
between. In `udp_sender` a packet is alternately one and two frames long, as
with any rate that is no multiple of the frame, the carry takes both its values
and six source frames are three blocks of the resampler; the bytes are those of
a small packet, the layout is that of any. Three network changes are
one before the debounce, one during it and one during the refresh it leads to;
the second start meets what the first left. A publisher forgets what an earlier
one failed to cancel, for that calls back into the earlier one's context. `Servers` has one member: the
control server and the admin page are interchangeable there.

Fairness. Threads are scheduled by the operating system and tasks by tokio, so
each thread's own steps are weakly fair. A timed wait ends, and the socket's
3 s do expire. A user need not stop, click or tap, a device or network need not
change, packets need not arrive, a shutdown need not begin; what has begun goes
on. The capture thread waits without a timeout for an event: that the silent
render stream keeps signalling is assumed (`RenderPeriod`), and is why the code
keeps it running; without it a drop would never return. It also drains packets
without looking at the stop flag, so `ControlReturns` assumes that it is done
with them again and again. `AudioSession` assumes that a streaming sender
reaches its once-a-second statistics update, which needs the capture to deliver.
In `AutoStart` turns run and deliveries arrive; that there is a server is
assumed with strong fairness of a scan that finds one and of a start that
reaches it, for otherwise there is nothing to play.

Memory model. Shared flags, the queue and park tokens are sequentially
consistent in the models; the Kotlin locks and atomics and the
acquire/release atomics with park/unpark of the Rust code give what is used.

## 4. Findings

1. *Restart* (`control_server.rs`:39): every session after a device change
   starts by restarting its capture, for its receiver is a clone that has seen
   nothing. Marking old changes as seen when the session starts would trade this
   for losing changes during the startup: `CaptureFollowsDevice` fails then.
2. *Manual stop* (`main.dart`:210): start, then stop; the playback times out
   before the service handles STOP. The timeout's report clears the block the
   stop has set, no second report follows, and the next scan may start playback
   although the page has said that it must be started by hand.

3. *Failed cancellation* (`network_events.rs`:31, 78): a `CancelMibChangeNotify2`
   that fails is logged or ignored, and the context is freed while Windows still
   has the notification, although the comment at line 24 rests on both being
   cancelled. Leaving the context allocated then would cost a few bytes.

What the models make visible besides, without a statement in the repository
that it contradicts:

- When the join of `stopPlayback` expires there may be two playback threads: the
  next START sets the flag the old one reads, and both go on, each closing what the
  other has in the fields. Connecting may take 2 s and an answer 1 s more, longer
  than the join's second. `playback_service` shows what survives that.
- If opening fails after the track was created, the track may be left open: only
  the field refers to it, which another thread may clear (K:938).
- A START_UDP whose client has given up on it may be executed after the STOP_UDP
  that followed; the server then streams to nobody (`control_server.rs`:209). The
  same with a STOP_UDP, which then ends the next stream.
- A packet that is late by a whole ring takes the slot of a newer one that is still
  to be played: `put` does not compare them (K:1317).
- A frame that `writeFully` cuts short, because the track returned an error code or
  the stop came, is counted neither as played nor as lost (K:808).
- When the start of the silence fails, the event of the running capture is closed
  before the client that signals it (`audio_capture.rs`:404).
- The device watcher parks for ever, so each start of the service leaves a thread
  with a registered callback (`audio_device_events.rs`:57); a publisher dropped at
  its select does not shut its daemon down.
- Any `SocketTimeoutException`, also one of the control connection, ends
  playback as "3 s without audio" (K:394).
- A START handled while the playback it replaces gives up is reported as stopped
  and plays; a late report makes the page show a playback as stopped that goes on.
- After a burst of losses playback skips to the first packet it has, although
  that packet carries the copy of the one before it (K:601).
- A failing send leaves the active flag set (`audio_capture.rs`:1027).
- A click on "stop" when the service has just ended by itself starts it
  (`tray.rs`:158, 212).
- A resampling that fails midway repeats and loses audio (`audio_capture.rs`:817).

## 5. Proofs

Every safety invariant of the passing runs, the one action property
(`AheadIsKept`), and the two refinements are theorems: they hold for every value of the
constants that satisfies the assumptions of the module. Each proof has the same
shape. An inductive invariant, `IInv`, says what the actions rely on; it holds
initially; one lemma for each action, or for each of its parts, shows that a
step keeps it; the property follows from it. What each has to say besides the
property is the interesting part, for it is what the code relies on and does not
say.

**Jitter buffer** (`PlaybackStreamProofs`, first half; any number of slots, any
set of sequence numbers). `IInv` is `TypeOK`, `CountExact`, `HeldIntact`,
`OnlyHeldInUse` and `StoppedEmpty`. The counter is right after `Release` only
because the frame released was the held one (`HeldIntact`), which is left alone
by `Put` only because it is marked in use, and `OnlyHeldInUse` makes `Take`
safe, which does not look at the mark. The counter needs cardinalities: each
action changes the set of counted slots by a known set, and the library's
theorems on finite sets do the rest.

**Stream** (`PlaybackStreamProofs`, second half; any watermarks, any number of
packets). The methods of the buffer do not check that their client holds one
frame at a time and releases no other; `JBNext` asks it of its client, and the two
threads keep to it, on the paths of an exception too (`StreamImplementsBuffer`).
Hence what is proved of the buffer holds while a stream plays (`StreamFrameSafe`).
They implement `Playout` (`StreamImplementsPlayout`), in which playing, cutting or
skipping extends the accounted numbers by an interval that begins at the cursor,
so a stream accounts for every sequence number (`StreamAccounts`). What is
discarded is older than what is expected, and what is released is the frame held,
which is no longer ahead (`AheadIsKeptHolds`).
The invariant adds to the buffer's that the thread asks for a sequence only once
it has one (`SequenceKnown`) and that what it holds when it plays is the frame of
the sequence it expects (`HeldIsExpected`), without which a step would write one
number and account for another. These theorems take the sequence numbers to
be all natural numbers, `Seqs = Nat`: every wait that times out moves the
expected sequence on, so no bound on it is kept. The run's `Seqs` is finite only
to be written down, and the program's numbers are of 64 bits and do not wrap in
any session.

**Playback service** (`PlaybackServiceProofs`; any number of intents). Each
property is the end of a duty: what is open is that of a thread and its stage,
which is at a place from which it closes it (`HeldOpen`); what the server streams
is that of a thread that has a STOP_UDP yet to send, unless one failed or the
stream was begun late (`StreamOwned`); where the app has not been told, the main
thread is at work, or the flag is up, or a thread is at its notification
(`ReportPending`). When all have ended nobody is left with a duty. None of it
needs that a join waits long enough: the duties are a thread's own, however many
threads there are. The track of an opening that failed halfway is nobody's, and
is the exception of `NothingLeftOpen`.

**Page of the app** (`AutoStartProofs`; any number of taps, scans and playbacks).
That every turn leaves the timer right is a matter of cases, but for the end of a
scan, whose timer is right only if nobody has touched `scan` since it began to
wait. `OneAnswer` says so: there is one answer to what `scan` waits for, on its
way or to come, and none when it waits for nothing. `ShownPlaying` needs that
the end of a playback is on its way through one of four stations (`EndFollows`,
`EndToCome`): the service's broadcasts, the queue `toDart`, a status query, or
an intent that will start it again. Both inductions run over queues: a message
is appended behind the others or taken from the front, and the lemmas say for
each what becomes of the messages in it.

**Pipeline** (`PcmPipeProofs`; any capacity, any number of chunks and device
changes). `NoLostWakeup` rests on `WakeupPending`: from its first empty pop on the
sender is registered, and whatever came since has left it a token or is about
to. So the gap between the empty pop, the look at `producer_alive` and the park
is none. That the queue keeps its order although both threads pop needs that a
chunk not queued yet is newer than all that are or were (`NotYetQueued`), and
that there is one capture thread at a time (`OneCapture`).

**Capture** (`WasapiCaptureProofs`; any size of the engine's buffers and number of
packets). What the thread's scope owns is a prefix of one stack, `Scope`, whose
height is determined by the step of the setup on the way up (`OwnedPrefix`,
`OwnedHeight`). A stream runs only below its guard or, before there are guards,
its client (`StreamsGuarded`): unwinding from the top ends it before its event is
closed, unless the guards do not exist yet, which is the exception
`EventsOutliveStreams` names. A buffer that an error leaves between GetBuffer and
ReleaseBuffer is below its client likewise (`BuffersReturned`). No packet is slept on because the engine's event stays signalled for
packets the loop has not come to (`Packets`).

**Sender** (`UdpSenderProofs`; any two rates, any length of packets and chunks, any
capacity and multiplier). What waits and every packet is the audio taken from the
queue at its timestamp, frame by frame (`InPlace`), packets continue one another
(`Chained`), and the variables of the thread know the last of them (`UpToDate`),
except after a send that failed. The arithmetic is in lemmas: the frame sizer
never cuts a packet empty or longer than its buffers (`FrameSizes`), and whatever
the two rates there is a block the resampler can take (`BlockExists`), of which
it leaves less than one.

`CapturedOrder` has an invariant of its own, `OrderInv`, in terms of the number of
source frames that have gone into chunks (`Passed`). What waits for the resampler
are exactly the frames after that number (`Waiting`), and what was taken and what is
in line, in the queue or refused by it (`Line`), is in order and not after it
(`Ordered`). A chunk, however it was made, holds frames after it only, in order,
and none is left out of it (`Carries`), so it may be put at the end of the line.
Seen from the line a push always appends, whether the queue takes the chunk or
not, and the sender and `DropOldest` take from its front (`PushedLine`,
`TakenLine`, `DroppedLine`): this is why it does not matter how far the sender
comes between the refused push and the pop. That nothing is left out, when the
device's rate is not the higher one, rests on the arithmetic of the two rates
(`NoneLeftOut`): a whole number of blocks gives every frame, interpolation all but
perhaps the last, which is then mixed into the frame of its predecessor
(`interpolated` says that this may have happened). The same argument is false for a resampler that fails midway.

`ReceiverUnderstands` is about bytes. A number is written and read by recursive
functions over its bytes: that they exist, that every byte of the one is a byte
off the number, and that reading takes back what writing did, are inductions,
each over the set of the lengths for which it holds (`NatSet`). That set has 0
and with each length the next, hence, numbers having no infinite descent, every
length (`ShiftsExist`, `ReadBack`). Two, four and eight bytes hold a number below
the matching power of 256 (`FitsIn2`, `FitsIn4`, `FitsIn8`). The layout needs one
notion, that a part stands in the data at an offset (`Holds`): what is appended
stands at the end and leaves the rest where it was (`Joined`, `StillHolds`), so
nine appends later each field of the header is at the offset from which the
receiver reads it (`HeaderIs`). With the lengths known no test of the parser
refuses the packet and no part is cut off (`ParsedAsMeant`). The theorem assumes
what the casts to u32 and u16 in `write_udp_packet_header` rely on: that the
longest packet's PCM fits the two bytes of the FEC length (it has 1920 bytes), and
that eight bytes number the packets. With a rate or frame length thirty-five
times as high the first would not hold, and neither would the property. From it
and `Chained` follows `LostRecoveredHolds`: what the receiver reads as the copy in
a packet is, number and bytes, what it would have read from the packet before,
for all packets and not only the last.

**Control server** (`AudioSessionProofs`; any number of requests). For `NoOrphan`
the invariant adds `UnissuedLast`: a request not yet issued is in no phase, so
that issuing it cannot take the phase "spawned" away from a pipeline that relies
on it. After a signal the only channels open are others than the session's, so
replacing or clearing the session orphans nothing. `IdleNotActive` needs that a
raised flag has a sender that is still to lower it (`ActiveHasSender`).

**Service and publisher** (`ServiceProofs`; any servers, any number of starts and
network changes). A callback runs only for a notification that is registered,
because cancelling waits for it, or that could not be cancelled, and the context
lives from before the first registration until after both cancellations were
tried, at every place of the publisher (`Ownership`). Tasks live in the runtime, the runtime in the thread (`Runtime`),
and between two clicks the tray has the handle of every thread not joined
(`TrayKnows`): so the runtime of what it shows as stopped is gone. Versions of the channel are
bounded by the network's changes (`Counting`).

Assumptions. Beside those named above, only the ASSUMEs of the modules: bounds that
are natural numbers, capacities that are not zero, two rates that are not zero and
differ, packets of at least one frame, watermarks within the capacity. TLC
evaluates them in the runs.

Only model-checked, and why:

- all liveness: what eventually happens under fairness is out of the prover's
  reach;
- the three violations, which are about one behaviour each.

## 6. Not modelled

- *Volume control.* Commands travel on connections of their own, run in parallel
  and are answered with what the computer then has. An older answer may be shown
  after a newer one; nothing in the code prevents it or puts it right before the
  next refresh, and no other component reads what is set or shown.
- *Auto buffer and duplicate filter, their arithmetic.* `PlaybackStream` has the
  filter as a set and the target as any value of its range, which covers every
  controller; percentiles and the bounded history are not computed.
- *mDNS scan, its inside.* A fixed sleep and a wait of half a second: it ends by
  construction. `AutoStart` has its answer.
- *Statistics.* The gaps and the epoch that clears them are read by a person
  only; a gap measured before a click on "clear" may show after it.
- *STATUS, PING, GET, media keys, the ping responder.* Requests that change no
  state of the program.
- *The non-Windows stubs.* They answer with errors; the stub of the network
  watcher drops its sender, so the publisher's loop would spin.
- WASAPI and AudioTrack inside, sample formats, mixing, interpolation and the
  time stretch (signal processing with no state another part reads), thread
  priorities, the engine period query, settings, notification texts, layout,
  autostart registration, build and packaging.
