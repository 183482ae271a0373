-------------------------- MODULE Periphery_proofs --------------------------
(***************************************************************************)
(* Theorems about Periphery, for any bounds: each of the five parts        *)
(* behaves in it as its own specification says, whichever is followed, so  *)
(* that what is proved of a part holds of the whole.                       *)
(***************************************************************************)
EXTENDS Periphery, TabletScreen_proofs, Players_proofs, AudioCapture_proofs,
        InputPath_proofs

LEMMA PartsInit ==
  Init => ScreenInit /\ VideoInit /\ AudioInit /\ CaptureInit /\ InputInit /\ part \in Parts
  BY DEF Init

\* A step is one of the part followed, or leaves a part alone.
LEMMA PartsStep ==
  ASSUME [Next]_vars
  PROVE  /\ [ScreenNext]_screenVars /\ [VideoNext]_videoVars /\ [AudioNext]_audioVars
         /\ [CaptureNext]_captureVars /\ [InputNext]_inputVars
         /\ UNCHANGED part
<1>1. CASE Next
  BY <1>1 DEF Next
<1>2. CASE UNCHANGED vars
  BY <1>2 DEF vars
<1> QED
  BY <1>1, <1>2

\* Whatever part is followed, the tablet's screens, its two players, the
\* host's sound and its input each behave as their own modules specify
\* (MainActivity.kt, VideoPlayer.kt, AudioPlayer.kt, audio/capture.cpp, and
\* InputSender.kt with input/inject.cpp): Periphery adds no behaviour to any.
LEMMA PartsBehave ==
  Spec => ScreenSpec /\ VideoSpec /\ AudioSpec /\ CaptureSpec /\ InputSpec
  BY PartsInit, PartsStep, PTL
  DEF Spec, ScreenSpec, VideoSpec, AudioSpec, CaptureSpec, InputSpec

\* The state of all five parts keeps its types.
THEOREM PeripheryTypes == Spec => []TypeOK
<1>1. Spec => [](part \in Parts)
  <2>1. part \in Parts /\ [Next]_vars => (part \in Parts)'
    BY PartsStep
  <2> QED
    BY <2>1, PartsInit, PTL DEF Spec
<1> QED
  BY <1>1, PartsBehave, ScreenTypes, VideoTypes, AudioTypes, CaptureTypes, InputTypes, PTL
  DEF TypeOK

PartsCorrect ==
  /\ NoClientForgotten /\ EndIsPosted
  /\ OneCodecLeft /\ OneDecoder /\ OneOfEach
  /\ FreshSound /\ SoundInOrder /\ StoppedSilent /\ StopSticks
  /\ PenFollows /\ EndsComing /\ DownsEnd

\* What the run of Periphery checks of its small instance holds for any
\* number of clients, callbacks, decoders, outputs, frames, pointers and
\* events under way.
THEOREM PeripheryCorrect == Spec => []PartsCorrect /\ QuietAfterDestroy
  BY PartsBehave, NoClientForgottenHolds, EndIsPostedHolds, QuietAfterDestroyHolds,
     OneCodecLeftHolds, OneDecoderHolds, OneOfEachHolds,
     FreshSoundHolds, SoundInOrderHolds, StoppedSilentHolds, StopSticksHolds,
     PenFollowsHolds, EndsComingHolds, DownsEndHolds, PTL
  DEF PartsCorrect
=============================================================================
