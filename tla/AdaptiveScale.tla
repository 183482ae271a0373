--------------------------- MODULE AdaptiveScale ---------------------------
(***************************************************************************)
(* The congestion controller of the host's main loop (main.cpp): after     *)
(* every video frame that was sent, the smoothed time SendFrame took moves *)
(* two streak counters, and a long enough streak moves the encode size one *)
(* step.                                                                   *)
(*                                                                         *)
(* The smoothed time is abstracted to the side of the two thresholds it is *)
(* on.  A new value is 9/10 of the old one plus a tenth of the last send,  *)
(* so from above 18 ms it cannot fall below 6 ms at once.  The counters    *)
(* stop at their threshold, which is all they are compared with.           *)
(***************************************************************************)
EXTENDS Naturals

CONSTANTS
  ScaleCount,    \* kScaleCount: size 0 is native, ScaleCount - 1 the smallest
  UpFrames,      \* kSendUpFrames
  DownFrames     \* kSendDownFrames

ASSUME ScaleAssumption ==
  /\ ScaleCount \in Nat \ {0}
  /\ UpFrames \in Nat \ {0} /\ DownFrames \in Nat \ {0}

Sizes  == 0..(ScaleCount - 1)
Levels == {"none", "clear", "between", "congested"}   \* "none": no frame sent yet

VARIABLES
  scale_idx, send_up_streak, send_down_streak,
  level,         \* the side avg_send_ms is on
  dwell          \* frames sent since scale_idx last moved (not in the code)

scaleVars == <<scale_idx, send_up_streak, send_down_streak, level, dwell>>

DwellCap == UpFrames + DownFrames    \* where dwell stops counting

ScaleTypeOK ==
  /\ scale_idx \in Sizes /\ level \in Levels
  /\ send_up_streak \in 0..UpFrames /\ send_down_streak \in 0..DownFrames
  /\ dwell \in 0..DwellCap

ScaleInit ==
  /\ scale_idx = 0 /\ level = "none"
  /\ send_up_streak = 0 /\ send_down_streak = 0
  /\ dwell = 0

CountTo(n, cap) == IF n < cap THEN n + 1 ELSE cap

\* The streaks after a frame, before they are compared with the thresholds.
UpStreak(l)   == IF l = "congested" THEN CountTo(send_up_streak, UpFrames) ELSE 0

\* Mutant: a congested frame does not end a clear streak.
DownStreakKept(l) ==
  IF l = "clear" THEN CountTo(send_down_streak, DownFrames)
  ELSE IF l = "congested" THEN send_down_streak ELSE 0

DownStreak(l) == IF l = "clear" THEN CountTo(send_down_streak, DownFrames) ELSE 0

\* Mutant: the last size is not where it ends.
StepDownPast(up) == up >= UpFrames /\ scale_idx < ScaleCount

StepDown(up) == up >= UpFrames /\ scale_idx < ScaleCount - 1
StepUp(down) == down >= DownFrames /\ scale_idx > 0

NextLevels == IF level = "congested" THEN {"between", "congested"}
              ELSE {"clear", "between", "congested"}

\* One frame was sent and the smoothed time is now on side l.
Adapt(l) ==
  LET up   == UpStreak(l)
      down == DownStreak(l)
  IN  /\ l \in NextLevels
      /\ level' = l
      /\ \/ /\ StepDown(up)
            /\ scale_idx' = scale_idx + 1
            /\ send_up_streak' = 0 /\ send_down_streak' = down
            /\ dwell' = 0
         \/ /\ ~StepDown(up) /\ StepUp(down)
            /\ scale_idx' = scale_idx - 1
            /\ send_up_streak' = up /\ send_down_streak' = 0
            /\ dwell' = 0
         \/ /\ ~StepDown(up) /\ ~StepUp(down)
            /\ send_up_streak' = up /\ send_down_streak' = down
            /\ dwell' = CountTo(dwell, DwellCap)
            /\ UNCHANGED scale_idx

\* The encoder refused the size just stepped to: back to native.
GiveUp ==
  /\ scale_idx > 0 /\ dwell = 0
  /\ scale_idx' = 0 /\ dwell' = 0
  /\ UNCHANGED <<send_up_streak, send_down_streak, level>>

ScaleNext == (\E l \in Levels : Adapt(l)) \/ GiveUp
ScaleSpec == ScaleInit /\ [][ScaleNext]_scaleVars

\* The size does not flap: it goes down in quality only after UpFrames frames
\* at the present size, up only after DownFrames, whatever the send times do
\* in between ("~1.5 s of congested video frames", "~5 s of clear video
\* frames", main.cpp:120).
NoFlapping ==
  [][(\E l \in Levels : Adapt(l)) =>
       /\ scale_idx' > scale_idx => dwell + 1 >= UpFrames
       /\ scale_idx' < scale_idx => dwell + 1 >= DownFrames]_scaleVars
=============================================================================
