-------------------------- MODULE HostLoop_proofs --------------------------
(***************************************************************************)
(* The host's main loop for any number of sizes, any thresholds, any       *)
(* number of pictures an encoder holds back and any inbound traffic.       *)
(***************************************************************************)
EXTENDS HostLoop, SequenceTheorems, TLAPS

(* The congestion controller by itself, for any number of sizes and any    *)
(* thresholds.  A streak is never longer than the time since the size last *)
(* moved, because a move leaves both streaks at zero; so a streak that     *)
(* reaches its threshold has taken that many frames at the present size.   *)

\* The counters and the size stay in their ranges: the index into
\* kScaleSteps never leaves the array (main.cpp:339-352).
THEOREM ScaleTypes == ScaleSpec => []ScaleTypeOK
<1>1. ScaleInit => ScaleTypeOK
  BY ScaleAssumption
  DEF ScaleInit, ScaleTypeOK, Sizes, Levels, DwellCap
<1>2. ScaleTypeOK /\ [ScaleNext]_scaleVars => ScaleTypeOK'
  <2> SUFFICES ASSUME ScaleTypeOK, [ScaleNext]_scaleVars
               PROVE  ScaleTypeOK'
    OBVIOUS
  <2> USE ScaleAssumption DEF ScaleTypeOK, Sizes, Levels, DwellCap
  <2>1. ASSUME NEW l \in Levels, Adapt(l) PROVE ScaleTypeOK'
    <3>1. UpStreak(l) \in 0..UpFrames /\ DownStreak(l) \in 0..DownFrames
      BY DEF UpStreak, DownStreak, CountTo
    <3>2. CountTo(dwell, DwellCap) \in 0..DwellCap
      BY DEF CountTo
    <3>3. level' \in Levels
      BY <2>1 DEF Adapt
    <3>4. CASE StepDown(UpStreak(l))
      BY <2>1, <3>1, <3>3, <3>4 DEF Adapt, StepDown
    <3>5. CASE ~StepDown(UpStreak(l)) /\ StepUp(DownStreak(l))
      BY <2>1, <3>1, <3>3, <3>5 DEF Adapt, StepUp
    <3>6. CASE ~StepDown(UpStreak(l)) /\ ~StepUp(DownStreak(l))
      BY <2>1, <3>1, <3>2, <3>3, <3>6 DEF Adapt
    <3> QED BY <3>4, <3>5, <3>6
  <2>2. CASE GiveUp
    BY <2>2 DEF GiveUp
  <2>3. CASE UNCHANGED scaleVars
    BY <2>3 DEF scaleVars
  <2> QED BY <2>1, <2>2, <2>3 DEF ScaleNext
<1> QED BY <1>1, <1>2, PTL DEF ScaleSpec

\* The strengthening NoFlapping needs.
StreaksSinceMove == send_up_streak <= dwell /\ send_down_streak <= dwell

\* Both streaks began after the size last moved, given the ranges.
LEMMA StreakInvariant == ScaleSpec => []StreaksSinceMove
<1>1. ScaleInit => StreaksSinceMove
  BY DEF ScaleInit, StreaksSinceMove
<1>2. ScaleTypeOK /\ StreaksSinceMove /\ [ScaleNext]_scaleVars => StreaksSinceMove'
  <2> SUFFICES ASSUME ScaleTypeOK, StreaksSinceMove, [ScaleNext]_scaleVars
               PROVE  StreaksSinceMove'
    OBVIOUS
  <2> USE ScaleAssumption DEF ScaleTypeOK, StreaksSinceMove, DwellCap
  <2>1. ASSUME NEW l \in Levels, Adapt(l) PROVE StreaksSinceMove'
    <3>1. /\ UpStreak(l) <= CountTo(dwell, DwellCap)
          /\ DownStreak(l) <= CountTo(dwell, DwellCap)
      BY DEF UpStreak, DownStreak, CountTo
    <3>2. CASE StepDown(UpStreak(l))
      <4>1. UpStreak(l) # 0
        BY <3>2 DEF StepDown
      <4>2. DownStreak(l) = 0
        BY <4>1 DEF UpStreak, DownStreak
      <4> QED BY <2>1, <3>2, <4>2 DEF Adapt
    <3>3. CASE ~StepDown(UpStreak(l)) /\ StepUp(DownStreak(l))
      <4>1. DownStreak(l) # 0
        BY <3>3 DEF StepUp
      <4>2. UpStreak(l) = 0
        BY <4>1 DEF UpStreak, DownStreak
      <4> QED BY <2>1, <3>3, <4>2 DEF Adapt
    <3>4. CASE ~StepDown(UpStreak(l)) /\ ~StepUp(DownStreak(l))
      BY <2>1, <3>1, <3>4 DEF Adapt
    <3> QED BY <3>2, <3>3, <3>4
  <2>2. CASE GiveUp
    BY <2>2 DEF GiveUp
  <2>3. CASE UNCHANGED scaleVars
    BY <2>3 DEF scaleVars
  <2> QED BY <2>1, <2>2, <2>3 DEF ScaleNext
<1> QED BY <1>1, <1>2, ScaleTypes, PTL DEF ScaleSpec

\* The size moves only after as many frames at the present size as the
\* threshold of its direction says, for all thresholds (main.cpp:339-352).
THEOREM ScaleNoFlapping == ScaleSpec => NoFlapping
<1> DEFINE Slow == (\E l \in Levels : Adapt(l)) =>
                     /\ scale_idx' > scale_idx => dwell + 1 >= UpFrames
                     /\ scale_idx' < scale_idx => dwell + 1 >= DownFrames
<1>1. ScaleTypeOK /\ StreaksSinceMove => Slow
  <2> SUFFICES ASSUME ScaleTypeOK, StreaksSinceMove,
                      NEW l \in Levels, Adapt(l)
               PROVE  /\ scale_idx' > scale_idx => dwell + 1 >= UpFrames
                      /\ scale_idx' < scale_idx => dwell + 1 >= DownFrames
    OBVIOUS
  <2> USE ScaleAssumption DEF ScaleTypeOK, StreaksSinceMove, Sizes
  <2>1. UpStreak(l) \in Nat /\ UpStreak(l) <= dwell + 1
    BY DEF UpStreak, CountTo
  <2>2. DownStreak(l) \in Nat /\ DownStreak(l) <= dwell + 1
    BY DEF DownStreak, CountTo
  <2>3. CASE StepDown(UpStreak(l))
    BY <2>1, <2>3 DEF Adapt, StepDown
  <2>4. CASE ~StepDown(UpStreak(l)) /\ StepUp(DownStreak(l))
    BY <2>2, <2>4 DEF Adapt, StepUp
  <2>5. CASE ~StepDown(UpStreak(l)) /\ ~StepUp(DownStreak(l))
    BY <2>5 DEF Adapt
  <2> QED BY <2>3, <2>4, <2>5
<1> HIDE DEF Slow
<1>2. ScaleSpec => [][Slow]_scaleVars
  BY <1>1, ScaleTypes, StreakInvariant, PTL
<1> QED BY <1>2 DEF NoFlapping, Slow

-----------------------------------------------------------------------------
(* The controller in the loop.                                             *)

\* The loop moves the scale only through the controller's two operations.
LEMMA ScaleMoves == [Next]_vars => [ScaleNext]_scaleVars
<1> SUFFICES ASSUME [Next]_vars PROVE [ScaleNext]_scaleVars
  OBVIOUS
<1>1. CASE FitFails
  BY <1>1 DEF FitFails, ScaleNext, scaleVars
<1>2. CASE Send
  BY <1>2 DEF Send, ScaleNext, scaleVars
<1>3. CASE CaptureFrame \/ CaptureNone \/ FitNothing \/ FitResizes \/ Scale
  BY <1>3 DEF CaptureFrame, CaptureNone, FitNothing, FitResizes, Scale, scaleVars
<1>4. CASE Encode \/ EncodeNothing \/ SendFails \/ StreamAudio \/ AudioFails
  BY <1>4 DEF Encode, EncodeNothing, SendFails, StreamAudio, AudioFails, scaleVars
<1>5. CASE DrainRequest \/ DrainOther \/ DrainEnds \/ CheckClient
  BY <1>5 DEF DrainRequest, DrainOther, DrainEnds, CheckClient, scaleVars
<1>6. CASE TabletSends \/ TabletCompletes \/ LinkEnds \/ DesktopChanges
  BY <1>6 DEF TabletSends, TabletCompletes, LinkEnds, DesktopChanges, scaleVars
<1>7. CASE Exited \/ UNCHANGED vars
  BY <1>7 DEF Exited, vars, scaleVars
<1> QED BY <1>1, <1>2, <1>3, <1>4, <1>5, <1>6, <1>7 DEF Next, Loop

\* The main loop uses the controller as AdaptiveScale specifies it: no frame
\* adapts the size twice, and only a refused resize gives it up
\* (main.cpp:256-287, 323-353).
THEOREM HostImplementsScale == Spec => ScaleSpec
<1>1. Init => ScaleInit
  BY DEF Init
<1> QED BY <1>1, ScaleMoves, PTL DEF Spec, ScaleSpec

\* In the main loop too the size moves only after UpFrames, or DownFrames,
\* frames sent at the present size (main.cpp:120-121).
THEOREM HostNoFlapping == Spec => NoFlapping
<1> QED BY HostImplementsScale, ScaleNoFlapping, PTL

-----------------------------------------------------------------------------
(* Types.                                                                  *)

\* What an encoder can have to return after coding a frame, and the typing
\* of the encoder's variables after it (Encode(), *.cpp).
LEMMA CodesType ==
  ASSUME EncoderTypeOK, NEW t \in EncodeSizes, NEW line \in Lines(t)
  PROVE  /\ line \in Seq(Pictures) /\ line # <<>>
         /\ Head(line) \in Pictures /\ Tail(line) \in Seq(Pictures)
<1>1. PICK q \in Accepting, p \in BOOLEAN : line = Append(q, Coded(t, p))
  BY DEF Lines
<1>2. q \in Seq(Pictures)
  <2>1. CASE q = held
    BY <2>1 DEF EncoderTypeOK
  <2>2. CASE held # <<>> /\ q = Tail(held)
    BY <2>2 DEF EncoderTypeOK
  <2> QED BY <1>1, <2>1, <2>2 DEF Accepting
<1>3. Coded(t, p) \in Pictures
  <2>1. (kind \in Hardware /\ (keyframe_requested_ \/ first \/ p)) \in BOOLEAN
    BY Zenon
  <2>2. (Staged(t) = t) \in BOOLEAN
    BY Zenon
  <2> QED BY <2>1, <2>2 DEF Coded, Pictures, EncoderTypeOK
<1>4. line \in Seq(Pictures) /\ line # <<>>
  BY <1>1, <1>2, <1>3
<1> QED BY <1>4

\* Coding a frame keeps the encoder's variables in their types.
LEMMA CodesKeepsType ==
  ASSUME EncoderTypeOK, NEW t \in EncodeSizes, NEW line, Codes(t, line),
         held' \in Seq(Pictures)
  PROVE  EncoderTypeOK'
<1>1. kind' \in Kinds /\ esize' \in EncodeSizes
  BY DEF Codes, EncoderTypeOK
<1>2. device' \in BOOLEAN
  BY Zenon DEF Codes, Opened
<1>3. keyframe_requested_' \in BOOLEAN /\ first' \in BOOLEAN
  BY Zenon DEF Codes
<1>4. staging' \in EncodeSizes \cup {None}
  BY DEF Codes, Staged, EncoderTypeOK
<1>5. session' \in {"none", "open", "configured"}
  BY DEF Codes, Opened
<1> QED BY <1>1, <1>2, <1>3, <1>4, <1>5 DEF EncoderTypeOK

\* Encode() that returns true keeps the types.
LEMMA EncodeReturnsType ==
  ASSUME EncoderTypeOK, NEW t \in EncodeSizes,
         NEW line \in Lines(t), EncodeReturns(t, line)
  PROVE  EncoderTypeOK'
<1>1. held' \in Seq(Pictures)
  BY CodesType DEF EncodeReturns
<1> QED BY <1>1, CodesKeepsType DEF EncodeReturns

\* Encode() that returns false keeps the types.
LEMMA EncodeFailsType ==
  ASSUME EncoderTypeOK, NEW t \in EncodeSizes, EncodeFails(t)
  PROVE  EncoderTypeOK'
<1>1. ASSUME NEW line \in Lines(t), EncodeHolds(t, line) \/ EncodeLoses(t, line)
      PROVE  EncoderTypeOK'
  <2>1. held' \in Seq(Pictures)
    BY <1>1, CodesType DEF EncodeHolds, EncodeLoses
  <2> QED BY <1>1, <2>1, CodesKeepsType DEF EncodeHolds, EncodeLoses
<1>2. CASE EncodeRejects(t)
  <2>1. held' \in Seq(Pictures)
    <3>1. CASE held' = held
      BY <3>1 DEF EncoderTypeOK
    <3>2. CASE held # <<>> /\ held' = Tail(held)
      BY <3>2 DEF EncoderTypeOK
    <3> QED BY <1>2, <3>1, <3>2 DEF EncodeRejects, Accepting
  <2>2. kind' \in Kinds /\ esize' \in EncodeSizes
    BY <1>2 DEF EncodeRejects, EncoderTypeOK
  <2>3. device' \in BOOLEAN
    BY <1>2, Zenon DEF EncodeRejects, Opened
  <2>4. keyframe_requested_' \in BOOLEAN /\ first' \in BOOLEAN
    BY <1>2, Zenon DEF EncodeRejects, EncoderTypeOK
  <2>5. staging' \in EncodeSizes \cup {None}
    BY <1>2 DEF EncodeRejects, Staged, EncoderTypeOK
  <2>6. session' \in {"none", "open", "configured"}
    BY <1>2 DEF EncodeRejects, Opened
  <2> QED BY <2>1, <2>2, <2>3, <2>4, <2>5, <2>6 DEF EncoderTypeOK
<1>3. CASE EncodeFailsEarly(t)
  <2>1. kind' \in Kinds /\ esize' \in EncodeSizes /\ held' \in Seq(Pictures)
    BY <1>3 DEF EncodeFailsEarly, EncoderTypeOK
  <2>2. device' \in BOOLEAN /\ keyframe_requested_' \in BOOLEAN /\ first' \in BOOLEAN
    BY <1>3, Zenon DEF EncodeFailsEarly, EncoderTypeOK
  <2>3. session' \in {"none", "open", "configured"}
    BY <1>3 DEF EncodeFailsEarly, EncoderTypeOK
  <2>4. staging' \in EncodeSizes \cup {None}
    BY <1>3 DEF EncodeFailsEarly, Staged, EncoderTypeOK
  <2> QED BY <2>1, <2>2, <2>3, <2>4 DEF EncoderTypeOK
<1> QED BY <1>1, <1>2, <1>3 DEF EncodeFails

\* Resize() keeps the types, whether it succeeds or fails.
LEMMA ResizeType ==
  ASSUME EncoderTypeOK, NEW s \in EncodeSizes, ResizeOk(s) \/ ResizeFails(s)
  PROVE  EncoderTypeOK'
<1>1. CASE UNCHANGED encoderVars
  BY <1>1 DEF EncoderTypeOK, encoderVars
<1>2. CASE ResizeOk(s) \/ (Stop /\ esize' = s /\ keyframe_requested_' = TRUE
                              /\ session' = "none" /\ UNCHANGED <<kind, device>>)
  <2> USE <1>2 DEF ResizeOk, Stop
  <2>1. kind' \in Kinds /\ esize' \in EncodeSizes /\ held' = <<>>
    BY DEF EncoderTypeOK
  <2>2. device' \in BOOLEAN
    BY Zenon DEF EncoderTypeOK
  <2> DEFINE hw == kind \in Hardware
  <2>3. hw \in BOOLEAN
    OBVIOUS
  <2>4. keyframe_requested_' = hw \/ keyframe_requested_' = TRUE
    BY Zenon
  <2> HIDE DEF hw
  <2>5. keyframe_requested_' \in BOOLEAN
    BY <2>3, <2>4, Zenon
  <2>6. first' \in BOOLEAN
    BY Zenon
  <2>7. session' \in {"none", "open", "configured"}
    BY DEF EncoderTypeOK
  <2>8. staging' \in EncodeSizes \cup {None}
    BY DEF EncoderTypeOK
  <2> QED BY <2>1, <2>2, <2>5, <2>6, <2>7, <2>8 DEF EncoderTypeOK
<1> QED BY <1>1, <1>2 DEF ResizeFails

\* The duplication's and the desktop's variables keep their types.
LEMMA CaptureStep ==
  ASSUME CaptureTypeOK, [Next]_vars
  PROVE  CaptureTypeOK'
<1> USE DEF CaptureTypeOK
<1>1. CASE CaptureFrame
  BY <1>1, Zenon DEF CaptureFrame, Captures, captureVars
<1>2. CASE CaptureNone
  <2>1. CASE NoFrame \/ NoDuplication
    BY <2>1, Zenon DEF NoFrame, NoDuplication, captureVars
  <2>2. CASE Reacquire
    <3>1. dup' \in {"null", "valid", "lost"}
      BY <2>2 DEF Reacquire
    <3> QED BY <2>2, <3>1, Zenon DEF Reacquire
  <2>3. CASE TooSoon
    BY <2>3, Zenon DEF TooSoon
  <2> QED BY <1>2, <2>1, <2>2, <2>3 DEF CaptureNone, CapturesNothing
<1>3. CASE DesktopChanges
  <2>1. CASE SecondPasses
    BY <2>1, Zenon DEF SecondPasses
  <2>2. CASE ModeChange
    BY <2>2, Zenon DEF ModeChange, LoseAccess
  <2>3. CASE Lock \/ Unlock
    BY <2>3, Zenon DEF Lock, Unlock, LoseAccess
  <2> QED BY <1>3, <2>1, <2>2, <2>3 DEF DesktopChanges, Desktop
<1>4. CASE FitNothing \/ FitResizes \/ FitFails \/ Scale
  BY <1>4, Zenon DEF FitNothing, FitResizes, FitFails, Scale, captureVars
<1>5. CASE Encode \/ EncodeNothing \/ Send \/ SendFails \/ StreamAudio \/ AudioFails
  BY <1>5, Zenon DEF Encode, EncodeNothing, Send, SendFails, StreamAudio, AudioFails,
                     captureVars
<1>6. CASE DrainRequest \/ DrainOther \/ DrainEnds \/ CheckClient
  BY <1>6, Zenon DEF DrainRequest, DrainOther, DrainEnds, CheckClient, captureVars
<1>7. CASE TabletSends \/ TabletCompletes \/ LinkEnds
  BY <1>7, Zenon DEF TabletSends, TabletCompletes, LinkEnds, captureVars
<1>8. CASE Exited \/ UNCHANGED vars
  BY <1>8, Zenon DEF Exited, vars, captureVars
<1> QED BY <1>1, <1>2, <1>3, <1>4, <1>5, <1>6, <1>7, <1>8 DEF Next, Loop

\* The encoder's variables keep their types.
LEMMA EncoderStep ==
  ASSUME EncoderTypeOK, tex \in EncodeSizes, scale_idx \in EncodeSizes, [Next]_vars
  PROVE  EncoderTypeOK'
<1>1. CASE UNCHANGED encoderVars
  BY <1>1, Zenon DEF EncoderTypeOK, encoderVars
<1>2. CASE FitResizes \/ FitFails
  BY <1>2, ResizeType DEF FitResizes, FitFails
<1>3. CASE Encode
  <2>1. PICK line \in Lines(tex) : EncodeReturns(tex, line)
    BY <1>3 DEF Encode
  <2> QED BY <2>1, EncodeReturnsType
<1>4. CASE EncodeNothing
  BY <1>4, EncodeFailsType DEF EncodeNothing
<1>5. CASE DrainRequest
  <2>1. kind' \in Kinds /\ esize' \in EncodeSizes /\ held' \in Seq(Pictures)
        /\ session' \in {"none", "open", "configured"}
        /\ staging' \in EncodeSizes \cup {None}
    BY <1>5 DEF DrainRequest, RequestKeyframe, EncoderTypeOK
  <2>2. device' \in BOOLEAN /\ first' \in BOOLEAN
    BY <1>5, Zenon DEF DrainRequest, RequestKeyframe, EncoderTypeOK
  <2> DEFINE hw == kind \in Hardware
  <2>3. hw \in BOOLEAN
    OBVIOUS
  <2>4. keyframe_requested_' = hw
    BY <1>5 DEF DrainRequest, RequestKeyframe
  <2> HIDE DEF hw
  <2> QED BY <2>1, <2>2, <2>3, <2>4, Zenon DEF EncoderTypeOK
<1>6. CASE CaptureFrame \/ CaptureNone \/ FitNothing \/ Scale
  BY <1>1, <1>6 DEF CaptureFrame, CaptureNone, FitNothing, Scale
<1>7. CASE Send \/ SendFails \/ StreamAudio \/ AudioFails
  BY <1>1, <1>7 DEF Send, SendFails, StreamAudio, AudioFails
<1>8. CASE DrainOther \/ DrainEnds \/ CheckClient
  BY <1>1, <1>8 DEF DrainOther, DrainEnds, CheckClient
<1>9. CASE TabletSends \/ TabletCompletes \/ LinkEnds \/ DesktopChanges
  BY <1>1, <1>9 DEF TabletSends, TabletCompletes, LinkEnds, DesktopChanges
<1>10. CASE Exited \/ UNCHANGED vars
  BY <1>1, <1>10 DEF Exited, vars
<1> QED
  BY <1>2, <1>3, <1>4, <1>5, <1>6, <1>7, <1>8, <1>9, <1>10 DEF Next, Loop

\* The loop's flags stay Boolean.
LEMMA FlagsStep ==
  ASSUME adaptive \in BOOLEAN, keyframe_pending \in BOOLEAN, client \in BOOLEAN,
         [Next]_vars
  PROVE  adaptive' \in BOOLEAN /\ keyframe_pending' \in BOOLEAN /\ client' \in BOOLEAN
<1>1. CASE CaptureFrame \/ CaptureNone
  BY <1>1, Zenon DEF CaptureFrame, CaptureNone, netVars
<1>2. CASE FitNothing \/ FitResizes \/ FitFails \/ Scale
  BY <1>2, Zenon DEF FitNothing, FitResizes, FitFails, Scale, netVars
<1>3. CASE Encode \/ EncodeNothing
  BY <1>3, Zenon DEF Encode, EncodeNothing, netVars
<1>4. CASE Send \/ SendFails \/ StreamAudio \/ AudioFails
  BY <1>4, Zenon DEF Send, SendFails, StreamAudio, AudioFails, netVars
<1>5. CASE DrainRequest \/ DrainOther
  BY <1>5, Zenon DEF DrainRequest, DrainOther, ReadsFrame
<1>6. CASE DrainEnds \/ CheckClient
  BY <1>6, Zenon DEF DrainEnds, CheckClient, netVars
<1>7. CASE TabletSends \/ TabletCompletes \/ LinkEnds \/ DesktopChanges
  BY <1>7, Zenon DEF TabletSends, TabletCompletes, LinkEnds, DesktopChanges,
                     loopVars, netVars
<1>8. CASE Exited \/ UNCHANGED vars
  BY <1>8, Zenon DEF Exited, vars, loopVars, netVars
<1> QED BY <1>1, <1>2, <1>3, <1>4, <1>5, <1>6, <1>7, <1>8 DEF Next, Loop

\* The type invariant but for the parts of the three components.
LoopTypeOK ==
  /\ hostPc \in HostPcs
  /\ cur \in Sizes /\ tex \in Sizes
  /\ dst \in Sizes \cup {None} /\ dstSize \in Sizes \cup {None}
  /\ ef \in {None} \cup [pic : Pictures, keyframe : BOOLEAN]
  /\ lastSize \in Sizes \cup {None}
  /\ link \in {"up", "down"} /\ inbox \in Seq(Inbound)

\* The loop's other variables keep their types.
LEMMA LoopStep ==
  ASSUME LoopTypeOK, EncoderTypeOK, keyframe_pending \in BOOLEAN,
         scale_idx \in Sizes, [Next]_vars
  PROVE  LoopTypeOK'
<1> USE DEF LoopTypeOK, HostPcs
<1>0. 0 \in Sizes
  BY ScaleAssumption DEF Sizes
<1>1. CASE CaptureFrame \/ CaptureNone
  BY <1>0, <1>1 DEF CaptureFrame, CaptureNone, Go, scalerVars, netVars
<1>2. CASE FitNothing
  BY <1>2 DEF FitNothing, Go, scalerVars, netVars
<1>3. CASE FitResizes \/ FitFails
  BY <1>0, <1>3 DEF FitResizes, FitFails, Go, scalerVars, netVars
<1>4. CASE Scale
  <2>1. tex' \in Sizes
    BY <1>0, <1>4 DEF Scale, Rescale, ScaleAgain
  <2>2. dst' \in Sizes \cup {None} /\ dstSize' \in Sizes \cup {None}
    BY <1>4 DEF Scale, Rescale, ScaleAgain, scalerVars
  <2>3. hostPc' \in HostPcs /\ UNCHANGED <<cur, ef, lastSize, link, inbox>>
    BY <1>4 DEF Scale, Go, netVars
  <2> QED BY <2>1, <2>2, <2>3
<1>5. CASE Encode
  <2>1. tex \in EncodeSizes
    BY HostAssumption DEF Sizes, EncodeSizes
  <2>2. PICK line \in Lines(tex) :
          IF Sendable
            THEN ef' = [pic |-> Head(line),
                        keyframe |-> keyframe_pending \/ Head(line).idr]
            ELSE UNCHANGED ef
    BY <1>5 DEF Encode
  <2>3. Head(line) \in Pictures
    BY <2>1, CodesType
  <2> DEFINE flag == keyframe_pending \/ Head(line).idr
             p == Head(line)
  <2>4. flag \in BOOLEAN
    BY Zenon
  <2>5. ef' \in {None} \cup [pic : Pictures, keyframe : BOOLEAN]
    <3>1. ef' = [pic |-> p, keyframe |-> flag] \/ ef' = ef
      BY <2>2, Zenon
    <3>2. p \in Pictures
      BY <2>3
    <3> HIDE DEF flag, p
    <3> QED BY <2>4, <3>1, <3>2
  <2>6. hostPc' \in HostPcs /\ tex' = 0
        /\ UNCHANGED <<cur, dst, dstSize, lastSize, link, inbox>>
    BY <1>5 DEF Encode, Go, scalerVars, netVars
  <2> QED BY <1>0, <2>5, <2>6
<1>6. CASE EncodeNothing
  BY <1>0, <1>6 DEF EncodeNothing, Go, scalerVars, netVars
<1>7. CASE Send \/ SendFails
  BY <1>7 DEF Send, SendFails, Go, scalerVars, netVars
<1>8. CASE StreamAudio \/ AudioFails
  BY <1>8 DEF StreamAudio, AudioFails, Go, scalerVars, netVars
<1>9. CASE DrainRequest \/ DrainOther
  <2>1. inbox' \in Seq(Inbound)
    BY <1>9 DEF DrainRequest, DrainOther, ReadsFrame
  <2> QED BY <1>9, <2>1 DEF DrainRequest, DrainOther, ReadsFrame, Go, scalerVars
<1>10. CASE DrainEnds \/ CheckClient
  BY <1>10 DEF DrainEnds, CheckClient, Go, scalerVars, netVars
<1>11. CASE TabletSends
  <2>1. PICK m \in Inbound : inbox' = Append(inbox, m)
    BY <1>11 DEF TabletSends
  <2>2. inbox' \in Seq(Inbound)
    BY <2>1
  <2> QED BY <1>11, <2>2 DEF TabletSends, loopVars, scalerVars
<1>12. CASE TabletCompletes
  <2>1. inbox' \in Seq(Inbound)
    BY <1>12 DEF TabletCompletes, Inbound
  <2> QED BY <1>12, <2>1 DEF TabletCompletes, loopVars, scalerVars
<1>13. CASE LinkEnds
  <2>1. inbox' \in Seq(Inbound)
    <3>1. CASE inbox' = inbox
      BY <3>1
    <3>2. CASE inbox' = <<>>
      BY <3>2
    <3> QED BY <1>13, <3>1, <3>2 DEF LinkEnds
  <2> QED BY <1>13, <2>1 DEF LinkEnds, loopVars, scalerVars
<1>14. CASE DesktopChanges
  BY <1>14 DEF DesktopChanges, loopVars, scalerVars, netVars
<1>15. CASE Exited \/ UNCHANGED vars
  BY <1>15 DEF Exited, vars, loopVars, scalerVars, netVars
<1> QED BY <1>1, <1>2, <1>3, <1>4, <1>5, <1>6, <1>7, <1>8, <1>9, <1>10, <1>11,
           <1>12, <1>13, <1>14, <1>15 DEF Next, Loop

\* Every variable of the main loop and of the components it drives keeps its
\* type: the sizes given to Resize() and Scale() are steps of kScaleSteps.
THEOREM TypeCorrect == Spec => []TypeOK
<1>1. Init => TypeOK
  <2> SUFFICES ASSUME Init PROVE TypeOK
    OBVIOUS
  <2>1. CaptureTypeOK
    BY Zenon DEF Init, CaptureInit, CaptureTypeOK
  <2>2. ScaleTypeOK
    BY ScaleAssumption DEF Init, ScaleInit, ScaleTypeOK, Sizes, Levels, DwellCap
  <2>3. EncoderTypeOK
    <3>1. device \in BOOLEAN /\ first \in BOOLEAN
      BY Zenon DEF Init, EncoderInit
    <3> DEFINE hw == kind \in Hardware
    <3>2. hw \in BOOLEAN
      OBVIOUS
    <3>3. keyframe_requested_ = hw
      BY DEF Init, EncoderInit
    <3> HIDE DEF hw
    <3>4. keyframe_requested_ \in BOOLEAN
      BY <3>2, <3>3, Zenon
    <3>5. kind \in Kinds /\ esize \in EncodeSizes /\ held \in Seq(Pictures)
      BY EncoderAssumption DEF Init, EncoderInit, EncodeSizes
    <3>6. staging \in EncodeSizes \cup {None}
      BY DEF Init, EncoderInit
    <3>7. session \in {"none", "open", "configured"}
      BY DEF Init, EncoderInit
    <3> QED BY <3>1, <3>4, <3>5, <3>6, <3>7 DEF EncoderTypeOK
  <2>4. LoopTypeOK
    BY ScaleAssumption DEF Init, LoopTypeOK, HostPcs, Sizes
  <2>5. adaptive \in BOOLEAN /\ keyframe_pending \in BOOLEAN /\ client \in BOOLEAN
    BY Zenon DEF Init
  <2> QED BY <2>1, <2>2, <2>3, <2>4, <2>5 DEF TypeOK, LoopTypeOK
<1>2. TypeOK /\ ScaleTypeOK' /\ [Next]_vars => TypeOK'
  <2> SUFFICES ASSUME TypeOK, ScaleTypeOK', [Next]_vars PROVE TypeOK'
    OBVIOUS
  <2>1. LoopTypeOK /\ EncoderTypeOK /\ CaptureTypeOK /\ ScaleTypeOK
        /\ adaptive \in BOOLEAN /\ keyframe_pending \in BOOLEAN /\ client \in BOOLEAN
    BY Zenon DEF TypeOK, LoopTypeOK
  <2>2. tex \in EncodeSizes /\ scale_idx \in EncodeSizes /\ scale_idx \in Sizes
    BY <2>1, HostAssumption DEF LoopTypeOK, ScaleTypeOK, Sizes, EncodeSizes
  <2>3. LoopTypeOK'
    BY <2>1, <2>2, LoopStep
  <2>4. EncoderTypeOK'
    BY <2>1, <2>2, EncoderStep
  <2>5. CaptureTypeOK'
    BY <2>1, CaptureStep
  <2>6. adaptive' \in BOOLEAN /\ keyframe_pending' \in BOOLEAN /\ client' \in BOOLEAN
    BY <2>1, FlagsStep
  <2> QED BY <2>3, <2>4, <2>5, <2>6, Zenon DEF TypeOK, LoopTypeOK
<1> QED BY <1>1, <1>2, HostImplementsScale, ScaleTypes, PTL DEF Spec

-----------------------------------------------------------------------------
(* Sizes and keyframes.  The argument runs over what an encoder can still  *)
(* do.  A failed Resize() leaves hardware without a session, and NVENC, as *)
(* its device_ stays set, without a way to open one; so an encoder that    *)
(* can encode was never resized behind the loop's back.                    *)

\* NVENC opens its session with the first frame, before the size can move;
\* after that a session is lost for good.
SessionInv ==
  /\ kind \notin Hardware => session = "configured"
  /\ kind = "nvenc" /\ session # "none" => device
  /\ kind = "nvenc" /\ session # "configured" /\ CanEncode => scale_idx = 0 /\ cur = 0
  /\ hostPc = "send" => session = "configured"

\* An encoder that can encode codes at the loop's size, and holds back
\* nothing of another one.
SizeInv ==
  /\ CanEncode => esize = cur
  /\ \A i \in 1..Len(held) : held[i].size = esize
  /\ hostPc = "send" => ef.pic.size = cur

\* A size the tablet has not seen is owed a keyframe.
FlagInv ==
  (CanEncode /\ cur # lastSize /\ hostPc # "exit") =>
     IF hostPc = "send" THEN ef.keyframe ELSE keyframe_pending

\* A step that changes neither sizes nor what is to be sent.
Quiet ==
  /\ UNCHANGED <<kind, device, session, esize, held, scale_idx, cur, ef, lastSize>>
  /\ keyframe_pending => keyframe_pending'
  /\ \/ hostPc' = hostPc
     \/ hostPc \notin {"send", "exit"} /\ hostPc' # "send"

\* All but six actions are such steps.
LEMMA QuietSteps ==
  [Next]_vars => \/ Quiet
                 \/ FitResizes \/ FitFails \/ Encode \/ EncodeNothing \/ Send \/ SendFails
<1> SUFFICES ASSUME [Next]_vars
             PROVE  \/ Quiet
                    \/ FitResizes \/ FitFails \/ Encode \/ EncodeNothing \/ Send \/ SendFails
  OBVIOUS
<1> USE DEF Quiet, Go
<1>1. CASE CaptureFrame \/ CaptureNone
  BY <1>1 DEF CaptureFrame, CaptureNone, scaleVars, encoderVars
<1>2. CASE FitNothing \/ Scale
  BY <1>2 DEF FitNothing, Scale, scaleVars, encoderVars
<1>3. CASE StreamAudio \/ AudioFails
  BY <1>3 DEF StreamAudio, AudioFails, scaleVars, encoderVars
<1>4. CASE DrainRequest
  BY <1>4 DEF DrainRequest, RequestKeyframe, scaleVars
<1>5. CASE DrainOther \/ DrainEnds \/ CheckClient
  BY <1>5 DEF DrainOther, DrainEnds, CheckClient, scaleVars, encoderVars
<1>6. CASE TabletSends \/ TabletCompletes \/ LinkEnds \/ DesktopChanges
  BY <1>6 DEF TabletSends, TabletCompletes, LinkEnds, DesktopChanges, scaleVars,
              encoderVars, loopVars
<1>7. CASE Exited \/ UNCHANGED vars
  BY <1>7 DEF Exited, vars, scaleVars, encoderVars, loopVars
<1> QED BY <1>1, <1>2, <1>3, <1>4, <1>5, <1>6, <1>7 DEF Next, Loop

\* What Resize() makes of the session, the size and the pictures held back.
LEMMA ResizeFailsEffect ==
  ASSUME NEW s, SessionInv, ResizeFails(s)
  PROVE  /\ UNCHANGED <<kind, device>>
         /\ session # "configured" => UNCHANGED encoderVars
         /\ session = "configured" =>
              /\ kind \in Hardware /\ session' = "none" /\ held' = <<>>
              /\ ~CanEncode'
BY DEF ResizeFails, SessionInv, Stop, encoderVars, CanEncode, Hardware

\* SessionInv is inductive, given the types.
LEMMA SessionInvariant == Spec => []SessionInv
<1>1. Init => SessionInv
  BY DEF Init, SessionInv, EncoderInit, ScaleInit, Hardware
<1>2. TypeOK /\ SessionInv /\ [Next]_vars => SessionInv'
  <2> SUFFICES ASSUME TypeOK, SessionInv, [Next]_vars PROVE SessionInv'
    OBVIOUS
  <2>1. CASE Quiet
    BY <2>1 DEF Quiet, SessionInv, CanEncode
  <2>2. CASE FitResizes
    BY <2>2 DEF FitResizes, ResizeOk, SessionInv, CanEncode, Go, Hardware
  <2>3. CASE FitFails
    <3>1. hostPc' # "send" /\ cur # scale_idx
      BY <2>3 DEF FitFails, Go, Misfit
    <3>2. CASE session = "configured"
      BY <2>3, <3>1, <3>2, ResizeFailsEffect DEF FitFails, SessionInv, Hardware
    <3>3. CASE session # "configured"
      <4>1. UNCHANGED <<kind, device, session>>
        BY <2>3, <3>3, ResizeFailsEffect DEF FitFails, encoderVars
      <4>2. ~(kind = "nvenc" /\ CanEncode)
        BY <3>1, <3>3 DEF SessionInv
      <4> QED BY <3>1, <4>1, <4>2 DEF SessionInv, CanEncode
    <3> QED BY <3>2, <3>3
  <2>4. CASE Encode
    BY <2>4 DEF Encode, EncodeReturns, Codes, Opened, SessionInv
  <2>5. CASE EncodeNothing
    <3>1. hostPc' # "send" /\ UNCHANGED <<kind, scale_idx, cur>>
      BY <2>5 DEF EncodeNothing, Go, EncodeFails, EncodeHolds, EncodeLoses, Codes,
                  EncodeRejects, EncodeFailsEarly, scaleVars
    <3>2. CASE Opened
      BY <3>1, <3>2 DEF Opened, SessionInv
    <3>3. CASE EncodeFailsEarly(tex)
      BY <3>1, <3>3 DEF EncodeFailsEarly, SessionInv, CanEncode, Hardware
    <3> QED BY <2>5, <3>2, <3>3 DEF EncodeNothing, EncodeFails, EncodeHolds,
                                    EncodeLoses, Codes, EncodeRejects
  <2>6. CASE Send
    BY <2>6 DEF Send, Go, SessionInv, encoderVars, CanEncode
  <2>7. CASE SendFails
    BY <2>7 DEF SendFails, Go, SessionInv, encoderVars, scaleVars, CanEncode
  <2> QED BY <2>1, <2>2, <2>3, <2>4, <2>5, <2>6, <2>7, QuietSteps
<1> QED BY <1>1, <1>2, TypeCorrect, PTL DEF Spec

\* All pictures of a line have the encoder's size if those held back do.
LEMMA LinesSize ==
  ASSUME EncoderTypeOK, NEW t \in EncodeSizes, NEW line \in Lines(t),
         \A i \in 1..Len(held) : held[i].size = esize
  PROVE  /\ \A i \in 1..Len(line) : line[i].size = esize
         /\ Head(line).size = esize
         /\ \A i \in 1..Len(Tail(line)) : Tail(line)[i].size = esize
<1>1. PICK q \in Accepting, p \in BOOLEAN : line = Append(q, Coded(t, p))
  BY DEF Lines
<1>2. held \in Seq(Pictures)
  BY DEF EncoderTypeOK
<1>3. q \in Seq(Pictures) /\ \A i \in 1..Len(q) : q[i].size = esize
  <2>1. CASE q = held
    BY <1>2, <2>1
  <2>2. CASE held # <<>> /\ q = Tail(held)
    BY <1>2, <2>2
  <2> QED BY <1>1, <2>1, <2>2 DEF Accepting
<1>4. Coded(t, p).size = esize
  BY DEF Coded
<1>5. line \in Seq(Pictures) /\ line # <<>>
  BY CodesType
<1>6. \A i \in 1..Len(line) : line[i].size = esize
  <2> DEFINE c == Coded(t, p)
  <2>1. c.size = esize /\ line = Append(q, c)
    BY <1>1, <1>4
  <2> HIDE DEF c
  <2> QED BY <1>3, <2>1
<1> QED BY <1>5, <1>6

\* SizeInv is inductive, given the types and SessionInv.
LEMMA SizeInvariant == Spec => []SizeInv
<1>1. Init => SizeInv
  BY DEF Init, SizeInv, EncoderInit
<1>2. TypeOK /\ SessionInv /\ SizeInv /\ [Next]_vars => SizeInv'
  <2> SUFFICES ASSUME TypeOK, SessionInv, SizeInv, [Next]_vars PROVE SizeInv'
    OBVIOUS
  <2>0. EncoderTypeOK /\ tex \in EncodeSizes
    BY HostAssumption DEF TypeOK, Sizes, EncodeSizes
  <2>1. CASE Quiet
    BY <2>1 DEF Quiet, SizeInv, CanEncode
  <2>2. CASE FitResizes
    BY <2>2 DEF FitResizes, ResizeOk, Stop, SizeInv, Go
  <2>3. CASE FitFails
    <3>1. hostPc' # "send" /\ cur # scale_idx
      BY <2>3 DEF FitFails, Go, Misfit
    <3>2. CASE session = "configured"
      BY <2>3, <3>1, <3>2, ResizeFailsEffect DEF FitFails, SizeInv
    <3>3. CASE session # "configured"
      <4>1. UNCHANGED encoderVars
        BY <2>3, <3>3, ResizeFailsEffect DEF FitFails
      <4>2. ~CanEncode
        BY <3>1, <3>3 DEF SessionInv, CanEncode
      <4> QED BY <3>1, <4>1, <4>2 DEF SizeInv, CanEncode, encoderVars
    <3> QED BY <3>2, <3>3
  <2>4. CASE Encode
    <3>1. PICK line \in Lines(tex) :
            /\ EncodeReturns(tex, line)
            /\ Sendable => ef'.pic = Head(line)
      BY <2>4 DEF Encode
    <3>2. CanEncode /\ UNCHANGED <<esize, cur>> /\ held' = Tail(line)
      BY <2>4, <3>1 DEF Encode, EncodeReturns, Codes
    <3>3. Head(line).size = esize
          /\ \A i \in 1..Len(Tail(line)) : Tail(line)[i].size = esize
      BY <2>0, LinesSize DEF SizeInv
    <3>4. hostPc' = "send" => Sendable
      BY <2>4 DEF Encode, Go
    <3> QED BY <3>1, <3>2, <3>3, <3>4 DEF SizeInv
  <2>5. CASE EncodeNothing
    <3>1. hostPc' # "send" /\ UNCHANGED <<kind, esize, cur>>
      BY <2>5 DEF EncodeNothing, Go, EncodeFails, EncodeHolds, EncodeLoses, Codes,
                  EncodeRejects, EncodeFailsEarly
    <3>2. ASSUME NEW line \in Lines(tex), EncodeHolds(tex, line) \/ EncodeLoses(tex, line)
          PROVE  SizeInv'
      <4>1. CanEncode /\ held' \in {line, Tail(line)}
        BY <3>2 DEF EncodeHolds, EncodeLoses, Codes
      <4>2. \A i \in 1..Len(held') : held'[i].size = esize
        BY <2>0, <4>1, LinesSize DEF SizeInv
      <4> QED BY <3>1, <4>1, <4>2 DEF SizeInv
    <3>3. CASE EncodeRejects(tex)
      <4>1. CanEncode /\ held \in Seq(Pictures)
        BY <2>0, <3>3 DEF EncodeRejects, EncoderTypeOK
      <4>2. \A i \in 1..Len(held') : held'[i].size = esize
        <5>1. CASE held' = held
          BY <5>1 DEF SizeInv
        <5>2. CASE held # <<>> /\ held' = Tail(held)
          BY <4>1, <5>2 DEF SizeInv
        <5> QED BY <3>3, <5>1, <5>2 DEF EncodeRejects, Accepting
      <4> QED BY <3>1, <4>1, <4>2 DEF SizeInv
    <3>4. CASE EncodeFailsEarly(tex)
      BY <3>1, <3>4 DEF EncodeFailsEarly, SizeInv, CanEncode
    <3> QED BY <2>5, <3>2, <3>3, <3>4 DEF EncodeNothing, EncodeFails
  <2>6. CASE Send
    BY <2>6 DEF Send, Go, SizeInv, encoderVars, CanEncode
  <2>7. CASE SendFails
    BY <2>7 DEF SendFails, Go, SizeInv, encoderVars, CanEncode
  <2> QED BY <2>1, <2>2, <2>3, <2>4, <2>5, <2>6, <2>7, QuietSteps
<1> QED BY <1>1, <1>2, TypeCorrect, SessionInvariant, PTL DEF Spec

\* The header of a video frame always gives the size its picture was coded
\* at, for every number of sizes and of pictures held back (main.cpp:300).
THEOREM DisplaySizeHolds == Spec => []DisplaySizeIsCoded
<1>1. SizeInv => DisplaySizeIsCoded
  BY DEF SizeInv, DisplaySizeIsCoded
<1> QED BY <1>1, SizeInvariant, PTL

\* FlagInv is inductive, given the types and SessionInv.
LEMMA FlagInvariant == Spec => []FlagInv
<1>1. Init => FlagInv
  BY DEF Init, FlagInv
<1>2. TypeOK /\ SessionInv /\ FlagInv /\ [Next]_vars => FlagInv'
  <2> SUFFICES ASSUME TypeOK, SessionInv, FlagInv, [Next]_vars PROVE FlagInv'
    OBVIOUS
  <2>1. CASE Quiet
    BY <2>1 DEF Quiet, FlagInv, CanEncode
  <2>2. CASE FitResizes
    BY <2>2 DEF FitResizes, Go, FlagInv
  <2>3. CASE FitFails
    <3>1. cur # scale_idx
      BY <2>3 DEF FitFails, Misfit
    <3>2. CASE session = "configured"
      BY <2>3, <3>2, ResizeFailsEffect DEF FitFails, FlagInv
    <3>3. CASE session # "configured"
      <4>1. UNCHANGED encoderVars
        BY <2>3, <3>3, ResizeFailsEffect DEF FitFails
      <4>2. ~CanEncode
        BY <3>1, <3>3 DEF SessionInv, CanEncode
      <4> QED BY <4>1, <4>2 DEF FlagInv, CanEncode, encoderVars
    <3> QED BY <3>2, <3>3
  <2>4. CASE Encode
    <3>1. PICK line \in Lines(tex) :
            /\ EncodeReturns(tex, line)
            /\ IF Sendable
                 THEN /\ ef' = [pic |-> Head(line),
                                keyframe |-> keyframe_pending \/ Head(line).idr]
                      /\ keyframe_pending' = FALSE
                 ELSE UNCHANGED <<ef, keyframe_pending>>
      BY <2>4, Zenon DEF Encode
    <3>2. CanEncode /\ hostPc = "encode" /\ UNCHANGED <<cur, lastSize>>
          /\ hostPc' = (IF Sendable THEN "send" ELSE "audio")
      BY <2>4, <3>1 DEF Encode, EncodeReturns, Codes, Go
    <3>3. SUFFICES ASSUME cur # lastSize
                   PROVE  IF hostPc' = "send" THEN ef'.keyframe ELSE keyframe_pending'
      BY <3>2, Zenon DEF FlagInv
    <3>4. keyframe_pending
      BY <3>2, <3>3 DEF FlagInv
    <3>5. CASE Sendable
      <4> DEFINE flag == keyframe_pending \/ Head(line).idr
      <4>1. ef' = [pic |-> Head(line), keyframe |-> flag]
        BY <3>1, <3>5, Zenon
      <4>2. flag
        BY <3>4
      <4> HIDE DEF flag
      <4>3. ef'.keyframe = flag
        BY <4>1
      <4> QED BY <3>2, <3>5, <4>2, <4>3
    <3>6. CASE ~Sendable
      BY <3>1, <3>2, <3>4, <3>6
    <3> QED BY <3>5, <3>6
  <2>5. CASE EncodeNothing
    <3>1. hostPc = "encode" /\ hostPc' = "audio"
          /\ UNCHANGED <<kind, cur, lastSize, keyframe_pending>>
      BY <2>5 DEF EncodeNothing, Go, EncodeFails, EncodeHolds, EncodeLoses, Codes,
                  EncodeRejects, EncodeFailsEarly
    <3>2. CanEncode' => CanEncode
      BY <2>5 DEF EncodeNothing, EncodeFails, EncodeHolds, EncodeLoses, Codes,
                  EncodeRejects, EncodeFailsEarly, CanEncode
    <3> QED BY <3>1, <3>2 DEF FlagInv
  <2>6. CASE Send
    BY <2>6 DEF Send, FlagInv
  <2>7. CASE SendFails
    BY <2>7 DEF SendFails, Go, FlagInv
  <2> QED BY <2>1, <2>2, <2>3, <2>4, <2>5, <2>6, <2>7, QuietSteps
<1> QED BY <1>1, <1>2, TypeCorrect, SessionInvariant, PTL DEF Spec

\* The first frame of a size is always sent as a keyframe, however many
\* Encode() calls failed since the resize (main.cpp:262-294).
THEOREM NewSizeFlaggedHolds == Spec => []NewSizeIsFlagged
<1>1. SessionInv /\ FlagInv => NewSizeIsFlagged
  BY DEF SessionInv, FlagInv, NewSizeIsFlagged, CanEncode
<1> QED BY <1>1, SessionInvariant, FlagInvariant, PTL
=============================================================================
