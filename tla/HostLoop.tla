------------------------------ MODULE HostLoop ------------------------------
(***************************************************************************)
(* The host's main loop (main.cpp) once the handshake is done: capture a   *)
(* frame, fit the encoder to the scale step, encode, send, adapt, stream   *)
(* the audio, drain what the tablet sent, and leave when the client is     *)
(* gone.  It composes the desktop capture, the encoder and the congestion  *)
(* controller, which only this loop calls, with the GPU scaler and the     *)
(* connection.                                                             *)
(***************************************************************************)
EXTENDS AdaptiveScale, ScreenCapture, VideoEncoder

CONSTANT InboxCap    \* frames from the tablet the connection holds

ASSUME HostAssumption == SizeCount = ScaleCount /\ InboxCap \in Nat

\* Of a tablet's frame the loop tells apart a keyframe request, a frame with
\* a wrong magic or version, a header whose payload is still to come, and
\* the others (input, control, error, unknown).
Inbound == {"KEYFRAME_REQ", "OTHER", "BAD", "PARTIAL"}

VARIABLES
  hostPc,
  adaptive,            \* the scaler could be initialised
  cur,                 \* cur_w, cur_h
  keyframe_pending,
  tex,                 \* size of enc_tex; 0 outside its scope
  dst, dstSize,        \* GpuScaler: size of dst_; dst_w_, dst_h_
  ef,                  \* the picture to send and its vf.keyframe
  lastSize,            \* display size of the last frame sent (not in the code)
  link,                \* the connection, seen from the tablet
  client,              \* client_sock_ is valid
  inbox

loopVars == <<hostPc, adaptive, cur, keyframe_pending, tex, ef, lastSize>>
scalerVars == <<dst, dstSize>>
netVars == <<link, client, inbox>>
vars == <<scaleVars, captureVars, encoderVars, loopVars, scalerVars, netVars>>

HostPcs == {"capture", "fit", "scale", "encode", "send", "audio", "drain",
            "check", "exit"}

TypeOK ==
  /\ ScaleTypeOK /\ CaptureTypeOK /\ EncoderTypeOK
  /\ hostPc \in HostPcs
  /\ adaptive \in BOOLEAN /\ cur \in Sizes /\ keyframe_pending \in BOOLEAN
  /\ tex \in Sizes
  /\ dst \in Sizes \cup {None} /\ dstSize \in Sizes \cup {None}
  /\ ef \in {None} \cup [pic : Pictures, keyframe : BOOLEAN]
  /\ lastSize \in Sizes \cup {None}
  /\ link \in {"up", "down"} /\ client \in BOOLEAN /\ inbox \in Seq(Inbound)

Init ==
  /\ ScaleInit /\ CaptureInit /\ EncoderInit
  /\ hostPc = "capture" /\ adaptive \in BOOLEAN
  /\ cur = 0 /\ keyframe_pending = TRUE /\ tex = 0
  /\ dst = None /\ dstSize = None
  /\ ef = None /\ lastSize = None
  /\ link = "up" /\ client = TRUE /\ inbox = <<>>

Go(from, to) == hostPc = from /\ hostPc' = to
-----------------------------------------------------------------------------
(* Capture, and the encoder fitted to the scale step.                      *)

CaptureFrame ==
  /\ Go("capture", "fit")
  /\ Captures
  /\ tex' = 0
  /\ UNCHANGED <<scaleVars, encoderVars, adaptive, cur, keyframe_pending, ef,
                 lastSize, scalerVars, netVars>>

CaptureNone ==
  /\ Go("capture", "audio")
  /\ CapturesNothing
  /\ UNCHANGED <<scaleVars, encoderVars, adaptive, cur, keyframe_pending, tex, ef,
                 lastSize, scalerVars, netVars>>

\* The size the encoder should have is not the one it has.
Misfit == adaptive /\ cur # scale_idx

FitNothing ==
  /\ Go("fit", IF adaptive /\ scale_idx > 0 THEN "scale" ELSE "encode")
  /\ ~Misfit
  /\ UNCHANGED <<scaleVars, captureVars, encoderVars, adaptive, cur,
                 keyframe_pending, tex, ef, lastSize, scalerVars, netVars>>

\* Mutant: only a downscale asks for a keyframe.
FitResizesQuietly ==
  /\ Go("fit", IF scale_idx > 0 THEN "scale" ELSE "encode")
  /\ Misfit
  /\ ResizeOk(scale_idx)
  /\ cur' = scale_idx
  /\ keyframe_pending' = (keyframe_pending \/ scale_idx > 0)
  /\ UNCHANGED <<scaleVars, captureVars, adaptive, tex, ef, lastSize, scalerVars,
                 netVars>>

FitResizes ==
  /\ Go("fit", IF scale_idx > 0 THEN "scale" ELSE "encode")
  /\ Misfit
  /\ ResizeOk(scale_idx)
  /\ cur' = scale_idx
  /\ keyframe_pending' = TRUE
  /\ UNCHANGED <<scaleVars, captureVars, adaptive, tex, ef, lastSize, scalerVars,
                 netVars>>

\* A failed downscale makes the loop native; a failed way back is repeated
\* with the next frame.
FitFails ==
  /\ Go("fit", IF scale_idx > 0 THEN "scale" ELSE "encode")
  /\ Misfit
  /\ ResizeFails(scale_idx)
  /\ IF scale_idx > 0 THEN GiveUp /\ cur' = 0 ELSE UNCHANGED <<scaleVars, cur>>
  /\ UNCHANGED <<captureVars, adaptive, keyframe_pending, tex, ef, lastSize,
                 scalerVars, netVars>>

\* GpuScaler::Scale().  dst_ is made anew for another size; when the render
\* target view cannot be made, dst_ has the new size and dst_w_ the old one.
\* On failure the native texture is encoded.
Rescale ==
  /\ dst = None \/ dstSize # cur
  /\ \/ dst' = cur /\ dstSize' = cur /\ tex' \in {cur, 0}
     \/ dst' = cur /\ tex' = 0 /\ UNCHANGED dstSize
     \/ dst' = None /\ tex' = 0 /\ UNCHANGED dstSize
ScaleAgain ==
  /\ dst # None /\ dstSize = cur
  /\ tex' \in {dst, 0}
  /\ UNCHANGED scalerVars
Scale ==
  /\ Go("scale", "encode")
  /\ Rescale \/ ScaleAgain
  /\ UNCHANGED <<scaleVars, captureVars, encoderVars, adaptive, cur,
                 keyframe_pending, ef, lastSize, netVars>>
-----------------------------------------------------------------------------
(* Encode, send, adapt.                                                    *)

\* NullEncoder makes no NAL units; they are sent under --raw only.
Sendable == kind # "null"

Encode ==
  /\ Go("encode", IF Sendable THEN "send" ELSE "audio")
  /\ \E line \in Lines(tex) :
       /\ EncodeReturns(tex, line)
       /\ IF Sendable
            THEN /\ ef' = [pic |-> Head(line),
                           keyframe |-> keyframe_pending \/ Head(line).idr]
                 /\ keyframe_pending' = FALSE
            ELSE UNCHANGED <<ef, keyframe_pending>>
  /\ tex' = 0
  /\ UNCHANGED <<scaleVars, captureVars, adaptive, cur, lastSize, scalerVars,
                 netVars>>

EncodeNothing ==
  /\ Go("encode", "audio")
  /\ EncodeFails(tex)
  /\ tex' = 0
  /\ UNCHANGED <<scaleVars, captureVars, adaptive, cur, keyframe_pending, ef,
                 lastSize, scalerVars, netVars>>

\* SendFrame() blocks while the tablet does not read, and may still succeed
\* just after the connection has ended.
Send ==
  /\ Go("send", "audio")
  /\ client
  /\ IF adaptive THEN \E l \in Levels : Adapt(l) ELSE UNCHANGED scaleVars
  /\ ef' = None /\ lastSize' = cur
  /\ UNCHANGED <<captureVars, encoderVars, adaptive, cur, keyframe_pending, tex,
                 scalerVars, netVars>>

SendFails ==
  /\ Go("send", "exit")
  /\ link = "down"
  /\ client' = FALSE /\ ef' = None
  /\ UNCHANGED <<scaleVars, captureVars, encoderVars, adaptive, cur,
                 keyframe_pending, tex, lastSize, scalerVars, link, inbox>>
-----------------------------------------------------------------------------
(* Audio and the tablet's frames.                                          *)

\* Nothing to stream, or all of it sent.
StreamAudio ==
  /\ Go("audio", "drain")
  /\ UNCHANGED <<scaleVars, captureVars, encoderVars, adaptive, cur,
                 keyframe_pending, tex, ef, lastSize, scalerVars, netVars>>

\* A failed send only ends the audio loop; SendFrame() closed the socket.
AudioFails ==
  /\ Go("audio", "drain")
  /\ link = "down" /\ client' = FALSE
  /\ UNCHANGED <<scaleVars, captureVars, encoderVars, adaptive, cur,
                 keyframe_pending, tex, ef, lastSize, scalerVars, link, inbox>>

\* ReadFrame() returns a frame.
ReadsFrame ==
  /\ client /\ inbox # <<>> /\ Head(inbox) \in {"KEYFRAME_REQ", "OTHER"}
  /\ inbox' = Tail(inbox)
  /\ UNCHANGED <<link, client>>

DrainRequest ==
  /\ Go("drain", "drain")
  /\ ReadsFrame /\ Head(inbox) = "KEYFRAME_REQ"
  /\ keyframe_pending' = TRUE
  /\ RequestKeyframe
  /\ UNCHANGED <<scaleVars, captureVars, adaptive, cur, tex, ef, lastSize,
                 scalerVars>>

DrainOther ==
  /\ Go("drain", "drain")
  /\ ReadsFrame /\ Head(inbox) = "OTHER"
  /\ UNCHANGED <<scaleVars, captureVars, encoderVars, adaptive, cur,
                 keyframe_pending, tex, ef, lastSize, scalerVars>>

NothingWhole == inbox # <<>> => Head(inbox) = "PARTIAL"

\* It returns false: nothing to read, or the client was dropped for a bad
\* frame or a lost connection.  A header without its payload makes it wait.
DrainEnds ==
  /\ Go("drain", "check")
  /\ \/ (~client \/ (inbox = <<>> /\ link = "up")) /\ UNCHANGED netVars
     \/ /\ client /\ inbox # <<>> /\ Head(inbox) = "BAD"
        /\ client' = FALSE /\ UNCHANGED <<link, inbox>>
     \/ /\ client /\ link = "down" /\ NothingWhole
        /\ client' = FALSE /\ UNCHANGED <<link, inbox>>
  /\ UNCHANGED <<scaleVars, captureVars, encoderVars, adaptive, cur,
                 keyframe_pending, tex, ef, lastSize, scalerVars>>

\* Mutant: the loop goes on without a client.
CheckNothing ==
  /\ Go("check", "capture")
  /\ UNCHANGED <<scaleVars, captureVars, encoderVars, adaptive, cur,
                 keyframe_pending, tex, ef, lastSize, scalerVars, netVars>>

CheckClient ==
  /\ Go("check", IF client THEN "capture" ELSE "exit")
  /\ UNCHANGED <<scaleVars, captureVars, encoderVars, adaptive, cur,
                 keyframe_pending, tex, ef, lastSize, scalerVars, netVars>>
-----------------------------------------------------------------------------
(* The tablet and the desktop.  The loop looks at the connection's inbound *)
(* side only while it drains and at the desktop only while it captures, so *)
(* what happens to either at another time is taken to happen then.         *)

TabletSends ==
  /\ hostPc = "drain" /\ link = "up" /\ Len(inbox) < InboxCap
  /\ \A i \in 1..Len(inbox) : inbox[i] # "PARTIAL"
  /\ \E m \in Inbound : inbox' = Append(inbox, m)
  /\ UNCHANGED <<scaleVars, captureVars, encoderVars, loopVars, scalerVars, link,
                 client>>

\* The rest of a partial frame arrives.
TabletCompletes ==
  /\ link = "up" /\ inbox # <<>> /\ inbox[Len(inbox)] = "PARTIAL"
  /\ inbox' = [inbox EXCEPT ![Len(inbox)] = "OTHER"]
  /\ UNCHANGED <<scaleVars, captureVars, encoderVars, loopVars, scalerVars, link,
                 client>>

\* The tablet closes, and what it sent before can be read, or the connection
\* is reset.
LinkEnds ==
  /\ link = "up" /\ link' = "down" /\ inbox' \in {inbox, <<>>}
  /\ UNCHANGED <<scaleVars, captureVars, encoderVars, loopVars, scalerVars, client>>

DesktopChanges ==
  /\ hostPc = "capture" /\ Desktop
  /\ UNCHANGED <<scaleVars, encoderVars, loopVars, scalerVars, netVars>>

\* main() has returned.
Exited == hostPc = "exit" /\ UNCHANGED vars
-----------------------------------------------------------------------------
\* Every step of the loop that does not wait for the tablet.
Loop ==
  \/ CaptureFrame \/ CaptureNone
  \/ FitNothing \/ FitResizes \/ FitFails \/ Scale
  \/ Encode \/ EncodeNothing \/ SendFails
  \/ StreamAudio \/ AudioFails \/ DrainRequest \/ DrainOther \/ DrainEnds
  \/ CheckClient

Next == \/ Loop \/ Send \/ TabletSends \/ TabletCompletes \/ LinkEnds
        \/ DesktopChanges \/ Exited

Spec == Init /\ [][Next]_vars

(* The loop runs while it can.  Nothing says that the tablet reads, that   *)
(* the link fails, or that a locked desktop is unlocked.                   *)
FairSpec == Spec /\ WF_vars(Loop)

(* Moreover everything around the loop works: a screen that goes on        *)
(* changing is captured now and then, a driver that is asked again and     *)
(* again, and can encode, returns a picture now and then, time passes, and *)
(* the tablet reads, completes its frames and does not flood the host.     *)
WorkingSpec ==
  /\ FairSpec
  /\ SF_vars(CaptureFrame) /\ SF_vars(Encode)
  /\ SF_vars(DesktopChanges /\ SecondPasses)
  /\ WF_vars(Send) /\ WF_vars(TabletCompletes) /\ SF_vars(DrainEnds)
-----------------------------------------------------------------------------
(* Safety.                                                                 *)

\* The display size in the header of a video frame is the size its picture
\* was coded at, whatever Resize() did or failed to do in between, and
\* although QSV and AMF may return a picture submitted before a resize: the
\* tablet maps touches and the picture's crop with the header's size.
DisplaySizeIsCoded == hostPc = "send" => ef.pic.size = cur

\* The first frame of a size, the very first one included, is sent as a
\* keyframe, even if the Encode() calls after the resize fail
\* ("tablet must resync to new SPS", main.cpp:264).
NewSizeIsFlagged == (hostPc = "send" /\ cur # lastSize) => ef.keyframe

\* protocol.h:101: "keyframe; /* 1 = IDR/IRAP */".
KeyframeFlagTrue == (hostPc = "send" /\ kind \in Hardware /\ ef.keyframe) => ef.pic.idr

\* main.cpp:112: "Scaling happens on the GPU (util/scaler.h) before the
\* encoder sees the frame, so every encoder path is covered": what is coded
\* is the frame given to Encode().
EncodesGivenFrame == hostPc = "send" => ef.pic.fresh
-----------------------------------------------------------------------------
(* Liveness: the first under FairSpec, the others under WorkingSpec.       *)

\* The host process ends once its connection is gone, wherever the loop is
\* and whatever capture and encoder do; a tablet that reconnects needs it.
HostLeaves == (link = "down") ~> (hostPc = "exit")

\* capture.cpp:95: "Re-acquire it so capture resumes instead of going deaf
\* forever."
CaptureRecovers ==
  (dup = "null" /\ desktop = "open")
     ~> (dup = "valid" \/ desktop = "locked" \/ hostPc = "exit")

\* encoder.h:30: "Adaptive resolution: full re-initialize at the new size":
\* an encoder whose Resize() succeeded, and that goes on being given frames,
\* goes on returning pictures.
EncodesAfterResize ==
  []<>(hostPc = "encode" /\ cur # 0 /\ cur = scale_idx) => []<>(hostPc = "send")
=============================================================================
