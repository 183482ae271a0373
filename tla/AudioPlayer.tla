---------------------------- MODULE AudioPlayer ----------------------------
(***************************************************************************)
(* AudioPlayer.kt: one worker thread that drives an AAC decoder and an     *)
(* AudioTrack, and start() and stop() on the UI thread, which RenderView   *)
(* calls for every surface while the worker is anywhere.                   *)
(*                                                                         *)
(* Decoder and track are external; a decoder may fail by itself.  The host *)
(* sends AAC of one format (main.cpp:363-367); the decoder may report      *)
(* another, as it does for HE-AAC.                                         *)
(***************************************************************************)
EXTENDS Naturals, FiniteSets

CONSTANTS
  MaxMade,    \* bound on the decoders one player makes
  MaxOut      \* bound on what a decoder puts out for one frame

ASSUME AudioAssumption == MaxMade \in Nat /\ MaxOut \in Nat

VARIABLES
  playing,                    \* the field `running'
  decoder, decoderState,      \* the field `codec', and the decoders made
  track, trackState, format,  \* the field, the tracks there are, and the
                              \* fields trackSampleRate and trackChannels
  worker, inUse, wants,       \* the thread, its local c, and the format it
                              \* calls writeTrack() with
  output,                     \* what the decoder may still put out
  audioUi                     \* what the UI thread did last: steps of stop()

decoderVars == <<decoder, decoderState>>
trackVars   == <<track, trackState, format>>
workerVars  == <<worker, inUse, wants, output>>
audioVars   == <<playing, decoderVars, trackVars, workerVars, audioUi>>

Made    == 1..MaxMade
Tracks  == 1..3     \* one left behind, one in use, one that replaces it
Formats == {"frame", "other"}
WorkerPcs == {"new", "poll", "aac", "publish", "lookup", "dequeue", "fill",
              "drain", "format", "out", "track", "build", "assign", "write", "release",
              "ended", "threw"}

UiSteps == {"none", "started", "stopping", "stopped", "released", "cleared",
            "trackReleased", "done"}

AudioTypeOK ==
  /\ playing \in BOOLEAN
  /\ decoder \in {0} \cup Made
  /\ decoderState \in [Made -> {"none", "started", "failed", "stopped", "released"}]
  /\ track \in {0} \cup Tracks /\ trackState \in [Tracks -> {"none", "built", "fresh"}]
  /\ format \in {"none"} \cup Formats
  /\ worker \in WorkerPcs /\ inUse \in {0} \cup Made /\ wants \in Formats
  /\ output \in 0..MaxOut
  /\ audioUi \in UiSteps

AudioInit ==
  /\ playing = FALSE
  /\ decoder = 0 /\ decoderState = [k \in Made |-> "none"]
  /\ track = 0 /\ trackState = [t \in Tracks |-> "none"] /\ format = "none"
  /\ worker = "new" /\ inUse = 0 /\ wants = "frame" /\ output = 0
  /\ audioUi = "none"

Works(k) == k # 0 /\ decoderState[k] = "started"
SetDecoder(k, state) == decoderState' = [decoderState EXCEPT ![k] = state]
SetTrack(t, state) == trackState' = [trackState EXCEPT ![t] = state]
Released == IF track # 0 THEN SetTrack(track, "none") ELSE UNCHANGED trackState

-----------------------------------------------------------------------------
(* start() and stop(), on the UI thread.                                   *)

UiStep(from, to) == audioUi = from /\ audioUi' = to

AudioStart ==
  /\ UiStep("none", "started")
  /\ playing' = TRUE /\ worker' = "poll"
  /\ UNCHANGED <<decoderVars, trackVars, inUse, wants, output>>

AudioStop ==
  /\ UiStep("started", "stopping")
  /\ playing' = FALSE /\ UNCHANGED <<decoderVars, trackVars, workerVars>>

\* codec?.stop(), then codec?.release(), each with what `codec' is by then.
DecoderStop ==
  /\ UiStep("stopping", "stopped")
  /\ IF Works(decoder) THEN SetDecoder(decoder, "stopped") ELSE UNCHANGED decoderState
  /\ UNCHANGED <<playing, decoder, trackVars, workerVars>>

DecoderRelease ==
  /\ UiStep("stopped", "released")
  /\ IF decoder # 0 THEN SetDecoder(decoder, "released") ELSE UNCHANGED decoderState
  /\ UNCHANGED <<playing, decoder, trackVars, workerVars>>

ClearDecoder ==
  /\ UiStep("released", "cleared")
  /\ decoder' = 0 /\ UNCHANGED <<playing, decoderState, trackVars, workerVars>>

\* track?.stop() and track?.release()
TrackRelease ==
  /\ UiStep("cleared", "trackReleased")
  /\ Released /\ UNCHANGED <<playing, decoderVars, track, format, workerVars>>

ClearTrack ==
  /\ UiStep("trackReleased", "done")
  /\ track' = 0 /\ format' = "none"
  /\ UNCHANGED <<playing, decoderVars, trackState, workerVars>>

AudioUi == DecoderStop \/ DecoderRelease \/ ClearDecoder \/ TrackRelease \/ ClearTrack

-----------------------------------------------------------------------------
(* The worker: loop(), playAac(), configureAac(), drainOutput(),           *)
(* writeTrack().                                                           *)

\* Once it has been written to, no format is wanted of a track, and the next
\* iteration starts without a decoder.
Moves(from, to) ==
  /\ worker = from /\ worker' = to /\ UNCHANGED <<playing, trackVars, audioUi>>
  /\ wants' = IF from = "write" THEN "frame" ELSE wants
  /\ output' = CASE from = "fill" -> MaxOut
                 [] from = "drain" /\ to = "poll" -> 0
                 [] from = "drain" /\ to # "poll" -> output - 1
                 [] OTHER -> output
OnlyMoves(from, to) ==
  Moves(from, to) /\ inUse' = (IF to = "poll" THEN 0 ELSE inUse) /\ UNCHANGED decoderVars
TrackMoves(from, to) ==
  worker = from /\ worker' = to /\ UNCHANGED <<playing, decoderVars, inUse, output, audioUi>>

WorkerEnds == ~playing /\ OnlyMoves("poll", "ended")

\* nextAudioFrame() has one.
TakesAudio == playing /\ OnlyMoves("poll", "aac")

HasDecoder == decoder # 0 /\ OnlyMoves("aac", "lookup")

ConfigureAac(k) ==
  /\ decoder = 0
  /\ decoderState[k] = "none" /\ \A j \in 1..(k - 1) : decoderState[j] # "none"
  /\ Moves("aac", "publish")
  /\ SetDecoder(k, "started") /\ inUse' = k
  /\ UNCHANGED decoder

ConfigureAacFails == decoder = 0 /\ OnlyMoves("aac", "poll")

\* Like VideoPlayer's, without a look at `running'.
PublishDecoder ==
  /\ Moves("publish", "lookup")
  /\ decoder' = inUse /\ UNCHANGED <<decoderState, inUse>>

\* Mutant: the worker waits for a decoder.
LookupDecoderWaits ==
  /\ Moves("lookup", IF decoder = 0 THEN "lookup" ELSE "dequeue")
  /\ inUse' = decoder /\ UNCHANGED decoderVars

LookupDecoder ==
  /\ Moves("lookup", IF decoder = 0 THEN "poll" ELSE "dequeue")
  /\ inUse' = decoder /\ UNCHANGED decoderVars

DequeueAudio == Works(inUse) /\ OnlyMoves("dequeue", "fill")

NoBuffer == Works(inUse) /\ OnlyMoves("dequeue", "poll")

\* The exception is caught; the decoder is forgotten, not released.
ForgetDecoder ==
  /\ ~Works(inUse) /\ Moves("dequeue", "poll")
  /\ decoder' = 0 /\ inUse' = 0 /\ UNCHANGED decoderState

FillAudio == Works(inUse) /\ OnlyMoves("fill", "drain")

\* Nothing more to play, or an exception that is caught.
Drained == OnlyMoves("drain", "poll")

DequeueSound == output > 0 /\ Works(inUse) /\ OnlyMoves("drain", "out")

DequeueFormat == output > 0 /\ Works(inUse) /\ OnlyMoves("drain", "format")

\* The format is the frame's: nothing to do.
SameFormat == Works(inUse) /\ OnlyMoves("format", "drain")

\* writeTrack(): of the sound, or of nothing when the format is another.
CallWriteTrack(from, f) ==
  /\ TrackMoves(from, "track")
  /\ wants' = f /\ UNCHANGED trackVars

OtherFormat == Works(inUse) /\ CallWriteTrack("format", "other")
PlaySound   == CallWriteTrack("out", "frame")

\* getOutputBuffer() is null or the buffer empty.
NoSound == Works(inUse) /\ OnlyMoves("out", "release")

Fits == track # 0 /\ format = wants

TrackFits == Fits /\ OnlyMoves("track", "write")

\* Mutant: the track there is stays as it is.
ReleaseOldNot == ~Fits /\ OnlyMoves("track", "build")

ReleaseOld ==
  /\ ~Fits /\ TrackMoves("track", "build")
  /\ Released /\ UNCHANGED <<track, format, wants>>

\* buildTrack() returns ...
BuildTrack(t) ==
  /\ trackState[t] = "none" /\ t # track
  /\ TrackMoves("build", "assign")
  /\ SetTrack(t, "fresh") /\ UNCHANGED <<track, format, wants>>

\* ... or throws, and nothing catches it.
BuildThrows == OnlyMoves("build", "threw")

AssignTrack(t) ==
  /\ trackState[t] = "fresh"
  /\ TrackMoves("assign", "write")
  /\ SetTrack(t, "built") /\ track' = t /\ format' = wants /\ UNCHANGED wants

\* val t = track ?: return; exceptions of write() are caught.
WriteTrack == OnlyMoves("write", IF wants = "frame" THEN "release" ELSE "drain")

ReleaseOutput == Works(inUse) /\ OnlyMoves("release", "drain")

AudioCallThrows ==
  ~Works(inUse) /\ \E pc \in {"fill", "format", "out", "release"} : OnlyMoves(pc, "threw")

Worker ==
  \/ WorkerEnds \/ TakesAudio \/ HasDecoder \/ ConfigureAacFails
  \/ PublishDecoder \/ LookupDecoder \/ DequeueAudio \/ NoBuffer \/ ForgetDecoder
  \/ FillAudio \/ Drained \/ DequeueSound \/ DequeueFormat \/ SameFormat
  \/ OtherFormat \/ PlaySound \/ NoSound \/ TrackFits \/ ReleaseOld \/ BuildThrows
  \/ WriteTrack \/ ReleaseOutput \/ AudioCallThrows
  \/ \E k \in Made : ConfigureAac(k)
  \/ \E t \in Tracks : BuildTrack(t) \/ AssignTrack(t)

DecoderFails(k) ==
  /\ decoderState[k] = "started" /\ SetDecoder(k, "failed")
  /\ UNCHANGED <<playing, decoder, trackVars, workerVars, audioUi>>

-----------------------------------------------------------------------------
AudioThrew == worker = "threw"

AudioNext ==
  /\ ~AudioThrew
  /\ AudioStart \/ AudioStop \/ AudioUi \/ Worker \/ \E k \in Made : DecoderFails(k)

AudioSpec == AudioInit /\ [][AudioNext]_audioVars

(* The UI thread finishes what it began, and the worker runs: the calls of *)
(* decoder and track return.                                               *)
AudioFair ==
  /\ WF_audioVars(~AudioThrew /\ AudioUi)
  /\ WF_audioVars(~AudioThrew /\ Worker)

-----------------------------------------------------------------------------
\* However failing decoders and changes of the format fall, a player has
\* one track and one working decoder; what a worker that stop() overtakes
\* can leave behind is a decoder, a track, and a second track only together
\* with a decoder that went on working (AudioPlayer.kt:43-66, 164-173).
OneOfEach ==
  LET tracks == Cardinality({t \in Tracks : trackState[t] # "none"})
      Decoders(states) == {k \in Made : decoderState[k] \in states}
  IN  /\ Cardinality(Decoders({"started"})) <= 1
      /\ tracks > 1 => tracks = 2 /\ ~playing /\ Decoders({"started", "failed"}) # {}

\* The worker of a stopped player ends, whatever it was at, or takes the app
\* with it: nothing joins it (AudioPlayer.kt:69).
WorkerLeaves == audioUi = "done" ~> (worker = "ended" \/ AudioThrew)
=============================================================================
