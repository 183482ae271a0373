----------------------------- MODULE Periphery -----------------------------
(***************************************************************************)
(* The parts around the client and the host's loop: the tablet's screens   *)
(* and the two players of a surface, and the host's sound and input.       *)
(*                                                                         *)
(* The five share no variable, and what one does reaches another only as   *)
(* something that may happen there at any time: a player's failed write is *)
(* TabletScreen!Quietly, a screen makes and ends a player's surface, a     *)
(* session ends in InputPath!LinkDrops.  So what they can do side by side  *)
(* each can do by itself: a behaviour follows one of them, `part', and     *)
(* leaves the others where they start.                                     *)
(***************************************************************************)
EXTENDS TabletScreen, VideoPlayer, AudioPlayer, AudioCapture, InputPath

VARIABLE part

vars == <<screenVars, videoVars, audioVars, captureVars, inputVars, part>>

Parts == {"screen", "video", "audio", "capture", "input"}

TypeOK ==
  /\ ScreenTypeOK /\ VideoTypeOK /\ AudioTypeOK /\ CaptureTypeOK /\ InputTypeOK
  /\ part \in Parts

Init ==
  /\ ScreenInit /\ VideoInit /\ AudioInit /\ CaptureInit /\ InputInit
  /\ part \in Parts

Next ==
  /\ UNCHANGED part
  /\ \/ /\ part = "screen" /\ ScreenNext
        /\ UNCHANGED <<videoVars, audioVars, captureVars, inputVars>>
     \/ /\ part = "video" /\ VideoNext
        /\ UNCHANGED <<screenVars, audioVars, captureVars, inputVars>>
     \/ /\ part = "audio" /\ AudioNext
        /\ UNCHANGED <<screenVars, videoVars, captureVars, inputVars>>
     \/ /\ part = "capture" /\ CaptureNext
        /\ UNCHANGED <<screenVars, videoVars, audioVars, inputVars>>
     \/ /\ part = "input" /\ InputNext
        /\ UNCHANGED <<screenVars, videoVars, audioVars, captureVars>>

Spec == Init /\ [][Next]_vars

\* In the parts not followed nothing that fairness is about is enabled.
FairSpec == Spec /\ ScreenFair /\ VideoFair /\ AudioFair /\ CaptureFair
=============================================================================
