---------------------------- MODULE AudioCapture ----------------------------
(***************************************************************************)
(* audio/capture.cpp, with the main loop (main.cpp) that starts it, pops   *)
(* its frames, encodes them (audio/aac.cpp) and, at its end, stops it: the *)
(* capture thread and the main thread share running_, the queue, which a   *)
(* mutex guards, and the event handle, which nothing guards.               *)
(*                                                                         *)
(* A frame is the number it was captured under.  WASAPI and the AAC        *)
(* transform are external: any call may fail, and the transform may hold   *)
(* frames back and return several at once.                                 *)
(***************************************************************************)
EXTENDS Naturals, Sequences

CONSTANTS
  MaxQueued,     \* kMaxQueuedFrames
  MaxFrames,     \* bound on the frames captured
  MaxPacked,     \* bound on the frames one wake-up finds
  MaxHeld        \* bound on the frames the transform holds back

ASSUME CaptureAssumption ==
  /\ MaxQueued \in Nat \ {0} /\ MaxFrames \in Nat
  /\ MaxPacked \in Nat /\ MaxHeld \in Nat

VARIABLES
  capturing,          \* running_
  capturer, ready,    \* the capture thread, and the promise it keeps
  event,              \* h_event_
  acc, captured,      \* whole frames in the local acc, frames ever captured
  queued,             \* frames_
  mainPc, audioOn,    \* the main thread, and its local audio_on
  held, sent          \* frames in the AAC transform, last frame sent

threadVars  == <<capturer, acc, captured>>
encoderVars == <<held, sent>>
captureVars == <<capturing, threadVars, ready, event, queued, mainPc, audioOn,
                 encoderVars>>

CapturerPcs == {"none", "init", "service", "look", "wait", "drain", "emit", "close",
                "ended"}
MainPcs     == {"start", "starting", "loop", "stop", "wake", "joining", "closing",
                "gone"}

CaptureTypeOK ==
  /\ capturing \in BOOLEAN /\ audioOn \in BOOLEAN
  /\ capturer \in CapturerPcs /\ mainPc \in MainPcs
  /\ ready \in {"open", "ok", "failed"} /\ event \in {"null", "open"}
  /\ acc \in 0..MaxPacked /\ captured \in 0..MaxFrames
  /\ queued \in Seq(1..MaxFrames) /\ Len(queued) <= MaxQueued
  /\ held \in Seq(1..MaxFrames) /\ Len(held) <= MaxHeld
  /\ sent \in 0..MaxFrames

CaptureInit ==
  /\ capturing = FALSE /\ audioOn = FALSE
  /\ capturer = "none" /\ ready = "open" /\ event = "null"
  /\ acc = 0 /\ captured = 0 /\ queued = <<>>
  /\ mainPc = "start"
  /\ held = <<>> /\ sent = 0

-----------------------------------------------------------------------------
(* The capture thread: CaptureLoop().                                      *)

ThreadGoes(from, to) ==
  /\ capturer = from /\ capturer' = to
  /\ UNCHANGED <<mainPc, audioOn, encoderVars>>
ThreadOnlyGoes(from, to) ==
  ThreadGoes(from, to) /\ UNCHANGED <<capturing, ready, event, acc, captured, queued>>

\* finish(), before or after the event was made.
InitFails ==
  /\ \/ ThreadGoes("init", "ended") \/ ThreadGoes("service", "ended")
  /\ event' = "null" /\ ready' = "failed"
  /\ UNCHANGED <<capturing, acc, captured, queued>>

CreateEvent ==
  /\ ThreadGoes("init", "service") /\ event' = "open"
  /\ UNCHANGED <<capturing, ready, acc, captured, queued>>

Started ==
  /\ ThreadGoes("service", "look") /\ capturing' = TRUE /\ ready' = "ok"
  /\ UNCHANGED <<event, acc, captured, queued>>

Looks == ThreadOnlyGoes("look", IF capturing THEN "wait" ELSE "close")

\* The engine signals the event, Stop() does, or 100 ms pass.
Woken    == ThreadOnlyGoes("wait", "drain")
TimesOut == ThreadOnlyGoes("wait", "look")

\* A packet that completes a frame.
TakesPacket ==
  /\ acc < MaxPacked /\ captured < MaxFrames
  /\ ThreadGoes("drain", "drain")
  /\ acc' = acc + 1 /\ captured' = captured + 1
  /\ UNCHANGED <<capturing, ready, event, queued>>

\* GetBuffer() fails: the audio ends here, whatever the reason.
BufferFails ==
  /\ ThreadGoes("drain", "emit") /\ capturing' = FALSE
  /\ UNCHANGED <<ready, event, acc, captured, queued>>

PacketsDone == ThreadOnlyGoes("drain", "emit")

\* Mutant: a full queue refuses what is new.
EmitRefused ==
  /\ acc > 0 /\ acc' = acc - 1
  /\ ThreadGoes("emit", "emit")
  /\ queued' = IF Len(queued) < MaxQueued THEN Append(queued, captured - acc + 1)
                                          ELSE queued
  /\ UNCHANGED <<capturing, ready, event, captured>>

\* Mutant: the test is "> kMaxQueuedFrames".
EmitOneMore ==
  /\ acc > 0 /\ acc' = acc - 1
  /\ ThreadGoes("emit", "emit")
  /\ queued' = Append(IF Len(queued) <= MaxQueued THEN queued ELSE Tail(queued),
                      captured - acc + 1)
  /\ UNCHANGED <<capturing, ready, event, captured>>

\* A full queue forgets what is old.
Emit ==
  /\ acc > 0 /\ acc' = acc - 1
  /\ ThreadGoes("emit", "emit")
  /\ queued' = Append(IF Len(queued) < MaxQueued THEN queued ELSE Tail(queued),
                      captured - acc + 1)
  /\ UNCHANGED <<capturing, ready, event, captured>>

Emitted == acc = 0 /\ ThreadOnlyGoes("emit", "look")

CloseByThread ==
  /\ ThreadGoes("close", "ended") /\ event' = "null"
  /\ UNCHANGED <<capturing, ready, acc, captured, queued>>

Capturer ==
  \/ InitFails \/ CreateEvent \/ Started \/ Looks \/ Woken \/ TimesOut
  \/ TakesPacket \/ BufferFails \/ PacketsDone \/ Emit \/ Emitted \/ CloseByThread

-----------------------------------------------------------------------------
(* The main thread: Start(), the audio block of the loop, Stop().          *)

MainGoes(from, to) ==
  mainPc = from /\ mainPc' = to /\ UNCHANGED <<acc, captured, ready>>
MainOnlyGoes(from, to) ==
  /\ MainGoes(from, to)
  /\ UNCHANGED <<capturing, capturer, event, queued, audioOn, encoderVars>>

StartThread ==
  /\ MainGoes("start", "starting") /\ capturer' = "init"
  /\ UNCHANGED <<capturing, event, queued, audioOn, encoderVars>>

\* AacEncoder::Init(), which may fail at each of its calls.
AacInit(ok) == ok \in BOOLEAN /\ audioOn' = (ready = "ok" /\ ok)

\* Start() returns; without a transform the thread runs on for nobody.
StartReturns ==
  /\ (ready = "ok" \/ (ready = "failed" /\ capturer = "ended"))
  /\ MainGoes("starting", "loop")
  /\ \E ok \in BOOLEAN : AacInit(ok)
  /\ UNCHANGED <<capturing, capturer, event, queued, encoderVars>>

\* Mutant: PopFrame() takes the newest frame.
PopNewest(f) ==
  /\ queued # <<>> /\ f = queued[Len(queued)]
  /\ queued' = SubSeq(queued, 1, Len(queued) - 1)

PopFrame(f) == queued # <<>> /\ f = Head(queued) /\ queued' = Tail(queued)

\* Encode() of frame f: ProcessInput() fails ...
EncodeRefuses(f) == UNCHANGED encoderVars

\* ... or n of the frames the transform has are lost to a failure of
\* ProcessOutput() or of the send ...
EncodeLoses(f, n) ==
  held' = SubSeq(Append(held, f), n + 1, Len(held) + 1) /\ UNCHANGED sent

\* ... or are sent, if any.
EncodeSends(f, n) ==
  /\ held' = SubSeq(Append(held, f), n + 1, Len(held) + 1)
  /\ sent' = IF n = 0 THEN sent ELSE Append(held, f)[n]

\* A failed send leaves the block, and the loop at its end.
StreamFrame ==
  /\ audioOn
  /\ \E f \in 1..MaxFrames, n \in 0..(MaxHeld + 1) :
       /\ n <= Len(held) + 1 /\ Len(held) + 1 - n <= MaxHeld
       /\ PopFrame(f)
       /\ \/ /\ MainGoes("loop", "loop")
             /\ \/ EncodeRefuses(f)
                \/ EncodeLoses(f, n)
                \/ EncodeSends(f, n)
          \/ MainGoes("loop", "stop") /\ n > 0 /\ EncodeLoses(f, n)
  /\ UNCHANGED <<capturing, capturer, event, audioOn>>

\* The loop ends, and Stop() is called; main() leaves through the destructor
\* otherwise, which calls it too.
LoopEnds == MainOnlyGoes("loop", "stop")

\* Mutant: Stop() leaves running_ to the thread.
StopSeesOnly == MainOnlyGoes("stop", IF capturing THEN "wake" ELSE "joining")

StopSees ==
  /\ MainGoes("stop", IF capturing THEN "wake" ELSE "joining")
  /\ capturing' = FALSE
  /\ UNCHANGED <<capturer, event, queued, audioOn, encoderVars>>

\* SetEvent() on whatever h_event_ is; the wait would end by itself.
WakeThread == MainOnlyGoes("wake", "closing")

Joined == capturer \in {"none", "ended"}

\* The thread had ended or was about to, and closes the event itself.
JoinOnly == Joined /\ MainOnlyGoes("joining", "gone")

\* Mutant: the thread is not joined.
CloseUnjoined ==
  /\ MainGoes("closing", "gone") /\ event' = "null"
  /\ UNCHANGED <<capturing, capturer, queued, audioOn, encoderVars>>

JoinAndClose ==
  /\ Joined
  /\ MainGoes("closing", "gone") /\ event' = "null"
  /\ UNCHANGED <<capturing, capturer, queued, audioOn, encoderVars>>

MainStops == StopSees \/ WakeThread \/ JoinOnly \/ JoinAndClose

CaptureNext ==
  Capturer \/ StartThread \/ StartReturns \/ StreamFrame \/ LoopEnds \/ MainStops

CaptureSpec == CaptureInit /\ [][CaptureNext]_captureVars

(* Both threads run, and the calls of WASAPI return; the wait has a limit  *)
(* of 100 ms.                                                              *)
CaptureFair == WF_captureVars(Capturer) /\ WF_captureVars(MainStops)

-----------------------------------------------------------------------------
\* The queue holds the frames emitted last, without a gap: after a stall of
\* the network the sound is at most the queue's length behind
\* (capture.cpp:309-315).
FreshSound ==
  \A i \in 1..Len(queued) : queued[i] = captured - acc - Len(queued) + i

\* Sound goes from the capture thread through the queue and the transform to
\* the tablet in the order it was captured, no frame twice, whatever is
\* dropped, refused or held back (capture.cpp:158-164, main.cpp:361-380).
SoundInOrder ==
  LET way == <<sent>> \o held \o queued
  IN  \A i, j \in 1..Len(way) : i < j => way[i] < way[j]

\* When Stop() returns no thread is left, and the event is closed
\* (capture.cpp:141-156).
StoppedSilent == mainPc = "gone" => Joined /\ event = "null"

\* Once Stop() has taken running_ back the thread does not set it again,
\* though it sets it by itself when it starts: Start() has waited for that
\* (capture.cpp:133, 146, 259-260).
StopSticks == mainPc \in {"wake", "closing", "joining", "gone"} => ~capturing

\* Stop() returns, also when it comes while the thread starts or waits, or
\* gives up by itself (capture.cpp:141-156, 267-268).
StopReturns == mainPc = "stop" ~> mainPc = "gone"
=============================================================================
