# TwinScreen in TLA+

TwinScreen turns an Android tablet into a second screen of a Windows PC. A host
process captures a monitor, encodes it and streams it over TCP; the tablet
decodes, shows it and sends touches back; an indirect display driver provides
the monitor. This directory holds TLA+ modules of the program, the TLC
configurations that check them on small instances, and theorems about them with
proofs checked by TLAPS. Paths below are relative to the repository; `H/` is
`host/src/`, `T/` is `tablet/app/src/main/java/com/twinscreen/tablet/`.

1. [The system](#1-the-system) - inventory of components
2. [Modules](#2-modules) - what models what
3. [Runs](#3-runs) - what TLC checks, bounds, fairness
4. [What the checks found](#4-what-the-checks-found)
5. [Proofs](#5-proofs)
6. [Limits](#6-limits) - checked only, or not modelled
7. [Plan](#7-plan)

## 1. The system

| Component | State | Operations | Hard to get right |
|---|---|---|---|
| Tablet client, `T/Client.kt` | socket and its stream, `connected`, `stopRequested`, video and audio queues, backoff | `run` (connect, handshake, receive, tear down, back off), `sendRaw`, `disconnect`, `nextFrame` | one thread connects and receives; UI and decoder threads write on the same stream and may disconnect at any point of the handshake |
| Tablet screens, `T/MainActivity.kt`, `T/RenderView.kt` | current client, rendering flag | connect, stop, callbacks posted from the client thread | callbacks of a client that was stopped meanwhile |
| Tablet players, `T/VideoPlayer.kt`, `T/AudioPlayer.kt` | codec, `configured`, `running` | start, stop, feed, render | a codec shared by three threads without a lock; frames dropped without asking for a keyframe |
| Tablet input, `T/InputSender.kt` | pointer ids | `onTouch` | order and completeness of DOWN, MOVE, UP |
| Host connection, `H/net/server.cpp` | listening and client socket, `seq_` | `WaitForClient`, `SendFrame`, `ReadFrame`, `Disconnect` | one client, taken once; a second one waits in the backlog unanswered; a poll that blocks on half a frame |
| Host main loop, `H/main.cpp` | encode size, `keyframe_pending`, scale step | capture, fit, scale, encode, send, adapt, audio, drain | every call may fail, and each failure leaves loop, encoder and scaler in another combination |
| Congestion controller, `H/main.cpp:106-121, 323-353` | two streaks, smoothed send time, scale step | one update per frame sent | flapping between sizes |
| Desktop capture, `H/capture/capture.cpp` | `dup_`, `next_reacquire_` | `Capture` | duplication lost with a mode change or a locked desktop |
| Video encoders, `H/encode/*` | session, size, input texture, keyframe request, pictures held back | `Start`, `Encode`, `RequestKeyframe`, `Resize`, `SetBitrate` | re-initialisation with state left over; output that belongs to an earlier input |
| GPU scaler, `H/util/scaler.cpp` | target texture and its size | `Scale` | cached size wrong after a failure |
| Audio, `H/audio/*` | capture thread, resampler phase, queue of 20 | `CaptureLoop`, `PopFrame`, AAC encode | overflow of the queue, drift of the resampler |
| Input injection, `H/input/inject.cpp` | synthetic pointer device | `InjectBatch` | contacts that never go up |
| NAL parsing, colour conversion | none | `SplitAnnexB`, `HasIdrSlice`, `BgraToNv12` | boundaries |
| Display driver, `driver/src/Driver.cpp` | monitors, one processing thread per swap chain, device cache | adapter and monitor creation, swap-chain assignment | joining a thread that is being replaced; stale devices |

How they interact. The host waits for one TCP connection, whose first frame must
be a handshake, answers with an ack and enters its loop; the tablet's client
thread connects, sends the handshake, waits for the ack and receives. Video,
audio and control travel as frames, a 24-byte header and a payload. The tablet
asks for keyframes by message; the host's loop passes the request to its encoder
and flags the next frame. When the connection ends the host process exits; the
tablet retries with a backoff. Within the tablet, queues connect the client
thread to the players, and callbacks posted to the UI thread connect it to the
screens. Within the host, everything is called by the main loop except the audio
capture thread. The driver has no channel to the host: the host captures the
monitor it creates.

Correct means: frames arrive whole and in order on one connection at a time; a
lost connection is retried and a disconnect ends it; a picture is shown at the
size it was coded at and can be decoded from where it starts; the encode size
follows congestion without flapping; capture and encoding survive what happens
to the desktop and to the size; the host ends with its client. `PROJECT.json`
lists the hazards, each at its line, with the property that covers it.

## 2. Modules

| Module | Models | Role |
|---|---|---|
| `TabletClient` | `T/Client.kt`, with the host's side of a session | component, composed with its environment |
| `MC_TabletClient` | | instance for TLC |
| `TabletClient_proofs` | | five invariants and the refinement of `ClientLife` |
| `AdaptiveScale` | congestion controller of `H/main.cpp` | component, and the abstract specification `HostLoop` implements |
| `ScreenCapture` | `H/capture/capture.cpp` | component: state and operations |
| `VideoEncoder` | `H/encode/*` | component: state and operations |
| `HostLoop` | `H/main.cpp` after the handshake, `H/util/scaler.cpp`, the loop's side of `H/net/server.cpp` | composes the three above |
| `MC_HostLoop` | | instance for TLC |
| `HostLoop_proofs` | | the controller's two theorems, refinement, types, two invariants |
| `SwapChains` | `driver/src/Driver.cpp`: adapter, swap chains, processing threads | component, composed with what Windows does |
| `MC_SwapChains` | | instance for TLC |
| `SwapChains_proofs` | | types, four invariants |
| `ClientLife` | what `T/Client.kt` promises to its callbacks | the abstract specification `TabletClient` implements and `TabletScreen` uses |
| `TabletScreen` | `T/MainActivity.kt`, with the clients as `ClientLife` | component |
| `TabletScreen_proofs` | | types, two invariants, an action property |
| `VideoPlayer` | `T/VideoPlayer.kt`, and the surface of `T/RenderView.kt` | component |
| `AudioPlayer` | `T/AudioPlayer.kt` | component |
| `Players_proofs` | | both players: types, three invariants |
| `AudioCapture` | `H/audio/capture.cpp`, `H/audio/aac.cpp`, the audio of `H/main.cpp` | component |
| `AudioCapture_proofs` | | types, four invariants; where the resampler's phase is defined |
| `InputPath` | `T/InputSender.kt` to `H/input/inject.cpp` | component, composed with its connection |
| `InputPath_proofs` | | types, three invariants |
| `Periphery`, `MC_Periphery` | | the five components above together, and their instance for TLC |
| `Periphery_proofs` | | the parts' theorems carried over to the composition |
| `Resampler` | the count of samples of `H/audio/capture.cpp` | pure algorithm, packet by packet |

**TabletClient.** `pc` is the client thread's place in `run`, `tryConnect` and
`receiveLoop`. `step[t]` is where a thread `t` is inside `sendRaw` or
`disconnect`; the client thread itself makes such calls, and its `pc` waits
meanwhile (`Go`). A `synchronized(socketLock)` block is one action, because
nothing in it blocks; the monitor of an output stream is held across writes that
block, so it is a variable. Sessions are numbered by successful connects:
`socket`, `out` and `sock` hold the number, 0 is null. Header and payload of a
frame are separate chunks on `wire`; the property about torn frames needs no finer
grain, as a header is written to the end before its payload is. `closed`
holds the sockets the tablet closed, `broken` those it can see to be reset. The
host is four states: down, listening, waiting for the first frame, serving. A
session made while the host serves another one stays in the backlog: established,
never answered, until the process exits. Stale bytes are never read: a reset
empties both directions.

**AdaptiveScale.** `level` is the side of the two thresholds the smoothed time
is on. As the smoothing keeps nine tenths, it cannot fall from above 18 ms to
below 6 ms in one frame (`NextLevels`). `dwell` counts the frames since the size
last moved and is not in the code; `NoFlapping` is about it.

**ScreenCapture.** `dup` is null, valid, or lost (valid until the next
`AcquireNextFrame` fails). The clock is one bit, `cooling`.

**VideoEncoder.** One module for the four encoders, `kind` tells them apart
where the code differs. A picture is a record: IDR or not, the size it was coded
at, and whether it shows the frame given to `Encode`. The last is computed from
`staging`, the size of the input texture an encoder keeps. `held` are pictures
QSV or AMF accepted and have not returned. `Encode` may return a picture, hold it
back, lose it, reject the frame, or fail before anything was submitted: these
are all the ways through the code of the four encoders.

**HostLoop.** One action per step and outcome of the loop, sizes being indices
into `kScaleSteps`. What the tablet sends is looked at only while the loop
drains, and the desktop only while it captures; so an event of either at another
time is indistinguishable from the same event at the beginning of that step, and
the actions of both are restricted to it. This is a reduction of the state space
and loses no behaviour of the loop.

**SwapChains.** `context` is the device context's life, from `DeviceAdd` to its
destructor; `call[m]` is where the call for monitor `m` is inside
`AssignSwapChain` or `UnassignSwapChain`, and `newProcessor`, `previousProcessor`
are its local variables (`processorToStop` is the second one as well, and so is
the element that the destructor of the context is at). `pc[n]` is processor `n`'s
thread inside `Run`, and `chain[n]` its swap chain: deleting it is counted, to see
it done twice. Processors are numbered, and a number is used again when nothing
is left of its last owner, so that a monitor may be assigned for ever. What
happens under a mutex is one action. Setting the terminate event belongs to the
step that takes a processor out of the map, acknowledging a frame to acquiring
it, deleting the swap chain to the return of `RunCore`: no other thread can tell.

Of Windows it is assumed that it serialises the calls for one monitor, deletes
the context when no call is in progress, passes a valid auto-reset event for
frames, presents nothing on a swap chain it is taking away, and that
`IddCxSwapChainSetDevice` refuses a device that was removed. `CreateEvent` and
`CreateThread` succeed.

**ClientLife.** Six places of a client's thread, and the two flags other threads
see. `TabletClient!Life` maps each `pc` to its place, and `ImplementsLife` says
that all of `TabletClient` is a behaviour of `ClientLife`; so `TabletScreen` can
have several clients without their sockets. What makes it more than a renaming
is where `disconnect()` falls: after a stop check has passed, the callback it
guards still comes, and no other does.

**TabletScreen.** One action per turn of the UI thread: a tap on Connect, on Back
or on Disconnect, a posted callback, `onDestroy()`. `posted` is the queue of
`runOnUiThread`. `created` holds the clients made, in order. A tap on Connect while the
first is connecting replaces the field `client` and leaves the first client
running, as the code does.

**VideoPlayer, AudioPlayer.** One action per call that another thread can fall
between: the field `codec` is read, then the codec is used, while `stop()` stops,
releases and clears it. No lock guards either, and only `running` is
volatile; the models are sequentially consistent, so a read of `codec` or `configured`
that is staler than these interleavings make it is left out. A codec has a state, and a call that
does not fit it throws: the dequeue calls catch the exception, the calls on buffers do not, and
a thread that `threw` ends the app and the behaviour. Each surface makes its own
players, so one pair lives once. A local variable that is not used again is reset,
which no other thread can see.

**AudioCapture.** The capture thread's places in `CaptureLoop()` against the main
thread's in `Start()`, the loop and `Stop()`; the mutex makes an operation on the
queue one action. A frame is the number it was captured under. `held` are frames the
transform has accepted and not returned.

**InputPath.** `touching` is the fingers and styluses on the glass, `activePointers`
InputSender's set, `contacts` what Windows has down. A batch is sent in the order of
the Kotlin set, which is any. `device` says what a stylus became in this process of
the host: a pen, touch, or nothing when no synthetic device could be made.

**Periphery.** The five share no variable, and what one causes in another is an
action that may happen there at any time: a failed write is `TabletScreen!Quietly`,
a surface comes and goes as the system likes, a session ends in
`InputPath!LinkDrops`. Their safety and liveness properties are about one component
each, so a behaviour follows one of them, `part`, from its initial state, and the others
stay. This checks the sum of the state spaces instead of the product and loses
nothing that a property here could tell.

**Resampler.** `phase_` is a fraction with denominator Source times Target, kept as an
integer, so that nothing is rounded; the code has a double.

## 3. Runs

| Run | Checks | Result |
|---|---|---|
| `client` | `TypeOK`, `WholeFrames`, `OneConnection`, `CurrentFrames`, `StoppedClean`; `ImplementsLife`; `StopCompletes`, `Reconnects` under `FairSpec` | holds, 0.42 million states |
| `client_stop_by_user` | `StopOnlyByUser` | violated |
| `client_disconnect` | `DisconnectFires` under `FairSpec` | violated |
| `host` | `TypeOK`, `DisplaySizeIsCoded`, `NewSizeIsFlagged`, `NoFlapping`; `HostLeaves` under `FairSpec` | holds, 1.9 million states |
| `capture_deaf` | `CaptureRecovers` under `WorkingSpec` | violated |
| `nvenc_dead` | `EncodesAfterResize` under `WorkingSpec` | violated |
| `encoder_frozen` | `EncodesGivenFrame` | violated |
| `keyframe_flag` | `KeyframeFlagTrue` | violated |
| `driver` | `TypeOK`, `ChainsAccounted`, `ThreadsHeld`, `NoThreadWithoutContext`, `ToldWhenJoined`; `CallsReturn` under `FairSpec` | holds, 23 thousand states |
| `driver_removed` | `DisplayConsumed` under `WorkingSpec` | violated |
| `periphery` | `TypeOK`, `NoClientForgotten`, `EndIsPosted`, `OneCodecLeft`, `OneDecoder`, `OneOfEach`, `FreshSound`, `SoundInOrder`, `StoppedSilent`, `StopSticks`, `PenFollows`, `EndsComing`, `DownsEnd`; `QuietAfterDestroy`; `ScreenReturns`, `VideoThreadsEnd`, `WorkerLeaves`, `StopReturns` under `FairSpec` | holds, 0.12 million states |
| `audio_rate` | `FixedRate` | violated |

Every property of a passing run has a mutant in the module, a definition with
the comment "Mutant:", which is a plausible slip at that place of the code; with
it in place of the real one TLC finds the property violated. The client can always
lose a link or restart a host, a host that has returned from `main` stutters
(`Exited`), and the driver can always be added again, so these runs check for deadlock.
`periphery` does not, because its components end: a player whose surface is gone, a
host that has stopped its audio, an app that threw. That they end when they should
is what its liveness properties say. `audio_rate` ends after its packets.

**Bounds, client.** Two sessions (`MaxSessions`): one that works or fails, and
the one after it, which is what reconnecting, leftovers of the earlier session
and the backlog need; a third connect is refused, which the code handles like any
refusal. One feed thread, so that three threads write (client, UI, feed). A queue
of one frame is full after the first; a socket buffer of two chunks is full in
the middle of a frame, so that a writer blocks holding the monitor.

**Bounds, host.** Three sizes: native, one that has a neighbour on both sides,
and the smallest. Two congested frames step down and three clear ones up, so
that the thresholds differ and a streak can be interrupted. One picture held back
survives the call that submitted it. One frame in the inbox: the drain loop
handles them one by one, and more may arrive while it runs. The theorems are for
every value of these constants.

**Bounds, driver.** Two monitors, so that one's calls overlap with the other's.
Two processors: one for each monitor, or both for a monitor whose swap chain is
replaced while the old thread runs. One retry after `ACCESS_LOST`, where the code
has five: the count is there, reaches its bound, and starts again. The theorems
are for any number of each. The refuting run needs one monitor only.

**Bounds, periphery.** Two clients (`Clients` = {1, 2}), one stopped or replaced and one current, and three
callbacks waiting (`MaxPosted`): what the first posted last and the
second first. Two decoders (`MaxMade`), so that one may fail and be replaced, and two
outputs per frame (`MaxOut`), a change of format and a sound. The video player needs no
bound: its code makes two codecs at most, so TLC sees all of it. A queue of two frames
(`MaxQueued`, 20 in the code) that five frames (`MaxFrames`) overrun, two frames in one
packet (`MaxPacked`), one held by the transform (`MaxHeld`). Two styluses whose ids,
1 and 17, share one of the sixteen touch contacts, a finger, and a wire of four
events (`MaxWire`): a DOWN, its CANCEL with another pointer's, and a new DOWN.

**Bounds, resampler.** Packets of 10 ms of 44.1 kHz, give or take a frame; the first is enough
to refute the property.

**Fairness, client (`FairSpec`).** Weak fairness of each thread: the scheduler
runs what can run, sleeps and connects (5 s timeout) end. Strong fairness of the
client thread's entry into a monitor: the other writers leave it again and again,
and a Java monitor does not pass one waiter over for ever in practice. A host
that runs accepts and reads (its loop polls every 2 ms), and one whose first frame is
no handshake exits (`main.cpp:193-197`). Nothing forces the host
to run, to stream, a link to last or to be found broken, or the user to act.

**Fairness, host.** `FairSpec` is weak fairness of the steps of the loop that do
not wait for the tablet; `Send`, which blocks while the tablet does not read, is
outside. `WorkingSpec`, used only where a property is refuted, assumes all that
one could wish of the surroundings: captures succeed now and then, an encoder
with a session returns a picture now and then, seconds pass, the tablet reads.
The counterexamples therefore cannot be blamed on the surroundings.

**Fairness, driver.** `FairSpec` is weak fairness of every processing thread and
of every call in progress. Windows is never obliged to call the driver or to
present a frame, and a call of the driver's into Windows may fail each time.
`WorkingSpec`, for refuting only, adds that a display is enabled again after its
swap chain ended, and that a device that is not removed is created and accepted
now and then.

**Fairness, periphery.** `ScreenFair`: the UI thread works through its queue.
`VideoFair`, `AudioFair`: a `stop()` that was begun goes on, and each thread of a player runs; a
call of codec or track returns, and so does a keyframe request (its write may block
while the host does not read; that the client gets out of it is `TabletClient`'s
concern). `CaptureFair`: the capture thread runs, its wait being limited to 100 ms, and
so does the main thread in `Stop()`. Nothing obliges the user, the system, a
client, or a decoder.

**What the properties say.** `WholeFrames`: on the wire a header is followed by
its own payload, unless its writer is just between the two or lost the
connection there. `OneConnection`: every session but the current one is closed,
and the current one too between attempts. `CurrentFrames`: the queue holds
frames of the current session only, and no more than its bound (a frame that the
feed thread has already taken is outside it). `StoppedClean`: a
client thread that has ended left nothing behind. `StopCompletes`: outside the
handshake, a requested stop ends the thread. `Reconnects`: a session that loses
its link, during the handshake or later, or that the host refused because a feed
thread's KEYFRAME_REQ overtook the handshake, is followed by another attempt or a stop.
`DisplaySizeIsCoded`: the header of a video frame gives the size the picture was coded at, although a
resize may fall between submitting and getting a picture, or fail half-way.
`NewSizeIsFlagged`: the first frame of a size is flagged as a keyframe, however
many encodes failed since. `NoFlapping`: the size moves down only after
`UpFrames` frames at the present size, and up only after `DownFrames`.
`HostLeaves`: the process ends once the connection is gone, wherever the loop is.
`ChainsAccounted`: a swap chain is deleted exactly once, and as soon as nothing
consumes it, whether no device could be made, its thread gave up while its
processor stays in the map, or another replaced it. `ThreadsHeld`: a processor is
in exactly one place, so that every thread gets joined and none is freed twice.
`NoThreadWithoutContext`: the context goes after the last thread. `ToldWhenJoined`: a
call that waits for a thread has told it to end, the auto-reset event was not spent on
anything else, and no thread is told that nobody waits for. `CallsReturn`:
a call that joins a thread comes back, although the thread looks at its terminate
event only when there is neither a buffer nor a frame event.
`ImplementsLife`: to its callbacks the client is `ClientLife`. `NoClientForgotten`: a
client that runs is the one the activity can stop, unless a second tap on Connect
replaced it; a late callback of an earlier client does not lose it.
`QuietAfterDestroy`: a destroyed activity ignores whatever is still posted.
`EndIsPosted`: while the activity shows a client that has ended, the callback that takes
the user back is still queued. `ScreenReturns`: and it does, so the connect screen
comes back.
`OneCodecLeft`: `configure()` may publish a codec behind `stop()`'s back, which nobody
releases, but at most one. `OneDecoder`: a running player has one decoder.
`OneOfEach`: nor do failing decoders and format changes pile up decoders or tracks.
`VideoThreadsEnd`, `WorkerLeaves`: the players' threads end after `stop()`, or throw.
`FreshSound`: after a stall the queue holds the newest sound, without a gap.
`SoundInOrder`: through queue and transform no frame overtakes another or comes
twice. `StoppedSilent`, `StopReturns`: `Stop()` returns, whatever the capture thread is
at, and leaves neither thread nor event. `StopSticks`: the capture thread, which sets
`running_` itself when it starts, never undoes a `Stop()`. `PenFollows`: with nothing under way, Windows
has no contact down that is not on the glass, after cancelled gestures and dropped
connections too. `EndsComing`: of a pointer the tablet let go an end is under way,
with no DOWN behind it, while Windows has the pointer down or will by a DOWN under way.
`DownsEnd`: a DOWN under way comes after the end of what pressed its pointer before,
be that under way or injected already.

## 4. What the checks found

Eight statements of the repository about itself do not hold of the code; each is a
run that TLC refutes.

- `StopOnlyByUser` (`Client.kt:19-20`): a write that fails on a dropped link
  calls `disconnect()` (`Client.kt:292`) and ends reconnecting for good, unless
  the client thread's read fails first.
- `DisconnectFires` (`Client.kt:85`): a `disconnect()` just before the socket is
  published has nothing to close; the client thread then blocks in `readAck()`
  on a session that the host may never accept.
- `CaptureRecovers` (`capture.cpp:95-97`): with `dup_` null, line 81 returns
  before the re-acquisition that would set it. One refusal, or a second loss
  within the same second, ends capture.
- `EncodesAfterResize` (`encoder.h:30-31`): NVENC opens a session only while
  `device_` is null, and `Stop()` does not reset it (`nvenc.cpp:171, 280-300`).
- `EncodesGivenFrame` (`main.cpp:112-114`): QSV and AMF keep the staging texture of
  the old size (`qsv.cpp:266`, `amf.cpp:268`); copying a texture of another size
  into it has no effect, and the old picture is coded for ever.
- `KeyframeFlagTrue` (`protocol.h:101`): `main.cpp:293` flags whatever picture
  comes next after a request, though the encoder may have spent the request on a
  frame it then failed to return, or returns an older picture first.
- `DisplayConsumed` (`driver/README.md:36-39`): `GetOrCreateDevice()` keeps a D3D
  device for ever (`Driver.cpp:454`), also one that a reset of the GPU removed.
  Every later processor gets it, is refused by `IddCxSwapChainSetDevice` and ends;
  only reloading the driver clears the static cache.

- `FixedRate` (`capture.h:4-6`): `capture.cpp:262` sets the ratio to target over
  source, and `Process()` steps through the input by it where it needs the inverse.
  Of 10 ms at 44.1 kHz 8.4 ms are made. From a rate above the target, 88.2 kHz
  and more, the room of `rtmp` ends the loop before `phase_` has passed the packet:
  for all but packets of a few frames `phase_` is negative afterwards, and its
  conversion to `size_t` undefined. At other rates it never is
  (`PhaseDefinedHolds`).

Other things that were seen while modelling. The models contain each of these steps
unless marked (*); none of them breaks a stated property.

- Nothing calls `AudioTrack.play()`, so the track that `AudioPlayer.kt:10-11` speaks
  of stays silent (*).
- The calls on buffers in both players throw `IllegalStateException` when `stop()`
  came first; nobody catches it, and the app ends (`feed = "threw"`).
- A codec that `configure()` publishes after `stop()` is not released, and a decoder
  that failed is forgotten unreleased (`AudioPlayer.kt:92`).
- A frame dropped because the decoder is full is not followed by a keyframe request,
  which `protocol.md:40-41` asks for.
- A second tap on Connect while the first client is connecting orphans the first.
- `onConnected` posted before a stop shows a render screen for a dead client
  (`MainActivity.kt:152`); `onDisconnected` has the test that is missing there.
- The tablet never sends a button, so a finger moves the mouse and cannot press.
- An UP lost to `ERROR_NOT_READY` leaves the contact down; no later event "will carry
  the state" (`inject.cpp:195-196`). `missed` marks it, and `PenFollows`
  and `EndsComing` exclude it.
- Half a frame from a tablet that lives blocks the host's loop in `ReadFrame()`
  (`server.cpp:148`), although `main.cpp:385` says "without blocking the capture loop".
  `HostLeaves` covers the block only once the link is gone.
- `onTouch` writes to the socket on Android's main thread. Current SDKs throw
  `NetworkOnMainThreadException` there, which `sendRaw` (`Client.kt:290`, `IOException`
  only) does not catch (*). The model's UI thread may do all the writes, more than
  such an app would, so the safety results stand for it.
- Audio does not restart after a failed `GetBuffer()`, and the capture thread runs on for
  nobody when `AacEncoder::Init()` fails.
- `Stop()` may signal an event that the capture thread has just closed; COM objects
  are released after `CoUninitialize()` (*).
- `SetBitrate()` changes `bitrate_` before the reconfiguration that may fail
  (`nvenc.cpp:254`) (*).

## 5. Proofs

`TabletClient_proofs`, for any set of feed threads, any number of sessions and
any buffer sizes:

- `TypeCorrect`. One step per action. The flags are split off (`FlagsStep`),
  since only first-order reasoning is needed for them.
- `OneConnectionHolds`. The property is not inductive: it says nothing of `socket`,
  which `disconnect()` clears from any thread at any moment, even before it is
  set. `SocketInv` adds, for each stretch of the client thread's program, which
  of `socket` and `sock` will get the session closed: while it is published,
  either `socket` still names it or it is closed already.
- `CurrentFramesHolds`, `StoppedCleanHolds`. `QueueInv` says that frames are in
  the queue, and `connected` is set, only in a stretch of the program that ends
  in run's own cleanup; what another thread did to the flags in between does not
  matter.
- `WholeFramesHolds`. `FramingInv` has three parts: two threads inside
  `sendRaw` on the same stream exclude each other (`MonitorInv`); a thread between
  its two writes finds its header at the end of the buffer (`LastInv`); hence a
  payload lands behind its own header (`WireInv`). `FramesAfterPut` and
  `FramesAfterConsume` are the two operations on a buffer.
- `ClientImplementsLife`. Each action of the client is a step of `ClientLife` or leaves
  `Life` and the two flags alone; only the type invariant is needed.

`HostLoop_proofs` begins with the controller alone, for any number of sizes and any
thresholds: `ScaleTypes` (the index never leaves `kScaleSteps`) and `ScaleNoFlapping`,
from the invariant that neither streak is longer than the time since the last move.
Then, for the loop: `HostImplementsScale` shows that every step of the loop is a
step of the controller or leaves it alone, so `HostNoFlapping` follows from the
controller's theorem without another look at the loop. `TypeCorrect` covers the
composition. `DisplaySizeHolds` rests on `SizeInv` (all held pictures have the
encoder's size, which is `cur` whenever the encoder can code), and that on
`SessionInv`: after a failed `Resize()` a hardware encoder has no session and will
not get one, because NVENC's `device_` stays set and QSV and AMF never restart.
The property thus depends on the very defect of section 4; a repair that reopens
the session has to restore the size as well. `NewSizeFlaggedHolds` rests on
`FlagInv`: while the size differs from the last one sent, `keyframe_pending` is
set or the picture at hand is already flagged.

`SwapChains_proofs`, for any set of monitors, any number of processors and
retries: `TypeCorrect`, `ChainsAccountedHolds`, `ThreadsHeldHolds` and
`NoThreadWithoutContextHolds`. The three properties are one inductive invariant,
`DriverInv`, because each leans on the others. `CallInv` says which of its two
local variables a call uses at each of its places, and `ContextInv` at which
stages of the context there can be calls and processors at all. `HeldOnce` and
`HeldSomewhere` are the two halves of `ThreadsHeld`; that a number is free only
when nothing is left of its owner (`Unused`) keeps the first when a processor is
made. `StageInv` ties the thread's place to the place its processor is held in: a
processor that is not started yet is in the call that makes it, and nowhere else.
`ChainInv` is `ChainsAccounted`. `ToldWhenJoinedHolds` uses `DriverInv`: that a
new processor is nobody's to destroy, and that the end of one call does not answer for
another's thread, both come from `HeldOnce`.

`TabletScreen_proofs`, for any number of clients and callbacks: `ScreenTypes`,
`NoClientForgottenHolds`, `EndIsPostedHolds`, `QuietAfterDestroyHolds`. `ScreenInv` adds that clients are
made in order, so the newest is the greatest, and that a posted `onDisconnected`
belongs to a stopped client (`EndedStopped`): clearing the field loses none
that runs. `EndIsPosted` is inductive with them: a client is made to be shown before it
can end (`NotBegun`), its end posts the callback, and the queue loses that only as it
runs, which takes the client off the screen. `EndedStopped` and `NotBegun` are where
`ClientLife`, and so the refinement, is needed.

`InputPath_proofs`, for any ids and any length of the wire: `InputTypes`,
`PenFollowsHolds`, `EndsComingHolds`, `DownsEndHolds`. `EndsComing` is the core: with an
empty wire it is `PenFollows`, and when a pointer the tablet had let go is pressed again
it gives the end that `DownsEnd` asks for, which stays where it is as the wire grows
(`EndedStays`). A CANCEL made for the wrong set of pointers would break it.

`AudioCapture_proofs`, for any length of the queue, of a packet and of what the
transform holds: `CaptureTypes`, `FreshSoundHolds`, `SoundInOrderHolds`,
`StoppedSilentHolds`, `StopSticksHolds`. `FreshSound` gives each place of the queue its frame, so the
queue rises; `HeldInOrder` and `SentBefore` place the transform's frames below it and
the last one sent below those, and `WayInOrder` puts the three together. `Threads` ties
the two threads' places: the event is closed when the capture thread has ended, and
`Stop()` returns after it; `StopSticks`, one of them, holds because `Start()` does not
return before the thread has set `running_`. The module ends with the resampler:
`PhaseDefinedHolds`, for packets of any sizes and every endpoint whose rate is not above
the target, which is its hypothesis; section 4 says what happens above. There
`CeilingFits` bounds the frames due by those that came in, `RoomEnough` finds room for
them in `rtmp`, and so `CeilingReaches` lets the loop run to the packet's end.

`Players_proofs`, for any number of decoders and outputs: `VideoTypes`,
`OneCodecLeftHolds`, `OneDecoderHolds`, `AudioTypes`, `OneOfEachHolds`. None of the
three properties is inductive, as each speaks of what is left and not of who still holds
it. `VideoInv` follows the field `codec` through `stop()`: while the surface exists the
one codec made is published or about to be (`OneWhileRunning`); until `stop()` clears
the field it knows the codec (`CodecKnown`); afterwards one was released, or the only one
comes from a thread past its last look at `running` (`OneReleased`). `PlayerInv` does the same
twice over: `DecoderInv` says that the worker makes a decoder only where no other works,
`TrackInv` that besides the track in the field, or the fresh one in the worker's hands,
there is at most one, which the worker assigned while `stop()` was between its last two
steps; a further one would take a decoder that works, and by then none is left. TLC
checked both on the run's instance before they were proved, and found that `TrackInv`
has to exclude a fresh track that is already in the field.

`Periphery_proofs`: a step of `Periphery` is a step of the part followed and leaves the
others alone, so each part's specification is implied (lemma `PartsBehave`), and everything
proved of a part holds of the composition (`PeripheryTypes`, `PeripheryCorrect`).

The proofs assume only the named assumptions on the constants: distinct threads,
positive thresholds and bounds, and values that stand for nothing outside the
sets they are added to. TLC evaluates them in the runs. `PhaseDefinedHolds` alone has
hypotheses of its own.

## 6. Limits

Only model-checked: the liveness properties (`StopCompletes`, `Reconnects`,
`HostLeaves`, `CallsReturn`, `ScreenReturns`, `VideoThreadsEnd`, `WorkerLeaves`,
`StopReturns`), since TLAPS does not reason about fairness or ENABLED here. Of what
they rest on the safety half is proved where it says something by itself: `EndIsPosted`
for `ScreenReturns`, `ToldWhenJoined` for `CallsReturn`, `StopSticks` for `StopReturns`.
Every invariant and action property of a passing run has its theorem. What section 4
refutes is refuted by TLC only.

Left out of the modelled parts:

- client: the audio queue and statistics, the length of a backoff, version mismatch
  and malformed frames from the host (both ends are of one repository), `seq` and time stamps;
- host: bitrate control, argument parsing, the choice of an encoder at the start, the
  wrap of `GetTickCount()`;
- driver: a second D0 entry, the option file, the mode table, the EDID, and failures of
  `CreateEvent` and `CreateThread`;
- audio: sample formats and the interpolation itself, the choice of the AAC type, the ADTS
  header, PCM frames (the host sends none);
- input: positions, pressure, tilt and the conversion of coordinates.

The runtimes of drivers, codecs and audio are external: their calls may fail or be late
in every way the code reacts to.

### Not modelled

NAL parsing and colour conversion: pure functions over bytes, without state, that unit
tests reach; the rest of the system only asks whether a picture is an IDR, which the
models carry as a fact about it. Build files, installation, logging, layout of screens,
shader source: no behaviour of their own.

## 7. Plan

Done, in the order of importance: the client, the host's loop with its controller,
capture and encoders, the driver's swap chains; then the client's abstract
specification and the screens on top of it, the players, the sound and the input,
with proofs for all of them.

What is left would add little: `WirePayloads`, packing against parsing of the payloads
over bounded inputs; bitrate control in `VideoEncoder`, whose one hazard is recorded in
section 4; the choice of an encoder at the start of `main`.
