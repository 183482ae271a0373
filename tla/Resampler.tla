----------------------------- MODULE Resampler -----------------------------
(***************************************************************************)
(* The rate of the sound in audio/capture.cpp: StereoResampler::Process(), *)
(* packet by packet, with the room CaptureLoop() gives it.  Samples are    *)
(* counted, not computed; phase_ is exact, in units of which Source*Target *)
(* are an input frame.                                                     *)
(***************************************************************************)
EXTENDS Integers, FiniteSetsExt

CONSTANTS
  Source, Target,   \* fmt_.rate and target_rate, in any common unit; not 0
  PacketSizes,      \* frames of a packet
  MaxPackets        \* bound on the packets

VARIABLES
  phase,          \* phase_
  taken, made,    \* frames taken from the endpoint, frames put into acc
  packets

resamplerVars == <<phase, taken, made, packets>>

ResamplerInit == phase = 0 /\ taken = 0 /\ made = 0 /\ packets = 0

\* ratio_, Target / Source, in units of phase, and an input frame.
Ratio == Target * Target
Frame == Source * Target

CeilingDiv(a, b) == -((-a) \div b)

\* The size of rtmp.
Room(frames) == (frames * Target) \div Source + 8

\* The frames Process() writes before phase_ passes the packet.
Written(frames) ==
  Min({Max({0, CeilingDiv(frames * Frame - phase, Ratio)}), Room(frames)})

Packet(frames) ==
  /\ packets < MaxPackets /\ packets' = packets + 1
  /\ LET n == IF Source = Target THEN frames ELSE Written(frames)
     IN  /\ made' = made + n
         /\ phase' = IF Source = Target THEN phase
                     ELSE phase + n * Ratio - frames * Frame
  /\ taken' = taken + frames

ResamplerNext == \E frames \in PacketSizes : Packet(frames)

ResamplerSpec == ResamplerInit /\ [][ResamplerNext]_resamplerVars

-----------------------------------------------------------------------------
\* The sound "is normalized to a fixed-rate stereo s16 stream": what was made
\* of the frames taken lasts as long as they do, but for a frame at either end
\* of the interpolation (capture.h:4-6).
FixedRate ==
  /\ made * Source - taken * Target <= 2 * Source
  /\ taken * Target - made * Source <= 2 * Source
=============================================================================
