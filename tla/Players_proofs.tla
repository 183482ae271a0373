--------------------------- MODULE Players_proofs ---------------------------
(***************************************************************************)
(* Theorems about the tablet's two players, VideoPlayer and AudioPlayer:   *)
(* what a stop() on the UI thread that interleaves with the threads it     *)
(* does not join can leave behind, for any number of decoders made and of  *)
(* sounds a frame brings.                                                  *)
(***************************************************************************)
EXTENDS VideoPlayer, AudioPlayer, FiniteSetTheorems, TLAPS

(* The video player.  `running' is the surface's: a thread that has passed *)
(* its last look at it goes once around.                                   *)

Unmade(k) == codecState[k] = "none"

\* The first codec is made before the second, and the feed thread has the one
\* it is about to publish.
InTurn ==
  /\ running <=> surface = "created"
  /\ surface = "none" => feed = "new" /\ Unmade(1)
  /\ Unmade(1) => Unmade(2) /\ codec = 0 /\ ~configured /\ feed # "publish"
  /\ feed = "publish" => feedCodec # 0

\* Up to stop() a codec that was made is published, or just about to be.
OneWhileRunning ==
  surface = "created" /\ ~Unmade(1) =>
    Unmade(2) /\ (configured \/ feed = "publish")

\* Until stop() clears the field it holds a codec, if there is one.
CodecKnown ==
  surface \in {"created", "stopping", "stopped"} /\ ~Unmade(1) =>
    codec # 0 \/ (feed = "publish" /\ Unmade(2))

\* Then one was released, or the only one is past being followed by another.
OneReleased ==
  surface \in {"released", "gone"} /\ ~Unmade(1) =>
    \/ \E k \in Codecs : codecState[k] = "released"
    \/ Unmade(2) /\ feed # "test"

VideoInv ==
  VideoTypeOK /\ InTurn /\ OneWhileRunning /\ CodecKnown /\ OneReleased

-----------------------------------------------------------------------------
(* The audio player.                                                       *)

Going(k) == decoderState[k] = "started"
Left       == {t \in Tracks : trackState[t] # "none"}
SomeWorks  == \E k \in Made : decoderState[k] \in {"started", "failed"}

\* The worker makes a decoder only where no other works.
NoneToLose == \A k \in Made : ~Going(k)
DecoderInv ==
  /\ playing <=> audioUi = "started"
  /\ audioUi = "none" => worker = "new" /\ NoneToLose /\ Left = {}
  /\ worker = "publish" => inUse # 0 /\ decoder = 0
  /\ playing /\ worker \in {"dequeue", "fill"} => inUse = decoder
  /\ (playing \/ worker = "aac") =>
       \A k \in Made : Going(k) => k = decoder \/ (worker = "publish" /\ k = inUse)
  /\ worker = "aac" => (audioUi \in {"started", "stopping"} \/ NoneToLose)
  /\ \A j, k \in Made : Going(j) /\ Going(k) => j = k

\* The tracks there are: the one in the field, which the worker takes down
\* before it builds another, besides those in `lost'.
Tidy(lost) ==
  /\ worker = "build"  => Left \subseteq lost
  /\ worker = "assign" => \E t \in Tracks : trackState[t] = "fresh" /\ Left \subseteq lost \cup {t}
  /\ worker \notin {"build", "assign"} => Left \subseteq lost \cup {track}
  /\ \A t \in Tracks : trackState[t] = "fresh" => (worker = "assign" /\ t \notin lost /\ t # track)
  /\ \A s, t \in Tracks : trackState[s] = "fresh" /\ trackState[t] = "fresh" => s = t

\* Where the worker goes to no track without a decoder that works.
Leaving == {"write", "release", "drain", "poll", "ended", "threw"}

NoTrackYet == \A t \in Tracks : trackState[t] # "built"

\* A track that the worker assigned while stop() was between its last two
\* steps is lost; another can follow only with a decoder that works.
TrackInv ==
  \/ /\ Tidy({})
     /\ audioUi = "trackReleased" => (NoTrackYet \/ SomeWorks \/ worker \in Leaving)
  \/ /\ audioUi = "done" /\ \E t \in Tracks : Tidy({t})
     /\ SomeWorks \/ (worker \in Leaving /\ \E t \in Tracks : Left \subseteq {t})

PlayerInv == AudioTypeOK /\ DecoderInv /\ TrackInv

-----------------------------------------------------------------------------
(* Counting.                                                               *)

LEMMA AtMostOne ==
  ASSUME NEW S, \A x, y \in S : x = y
  PROVE  IsFiniteSet(S) /\ Cardinality(S) \in Nat /\ Cardinality(S) <= 1
<1>1. CASE S = {}
  BY <1>1, FS_EmptySet
<1>2. CASE S # {}
  <2>1. PICK x \in S : S = {x}
    BY <1>2
  <2> QED
    BY <2>1, FS_Singleton
<1> QED
  BY <1>1, <1>2

LEMMA AtMostTwo ==
  ASSUME NEW S, NEW a, NEW b, S \subseteq {a, b}
  PROVE  IsFiniteSet(S) /\ Cardinality(S) \in Nat /\ Cardinality(S) <= 2
<1>1. IsFiniteSet({a}) /\ Cardinality({a}) = 1
  BY FS_Singleton
<1>2. IsFiniteSet({a, b}) /\ Cardinality({a, b}) \in Nat /\ Cardinality({a, b}) <= 2
  <2>1. {a, b} = {a} \cup {b}
    OBVIOUS
  <2> QED
    BY <1>1, <2>1, FS_AddElement
<1> QED
  BY <1>2, FS_Subset, FS_CardinalityType

-----------------------------------------------------------------------------
(* The video player's steps.                                               *)

LEMMA VideoInvInit == VideoInit => VideoInv
<1> SUFFICES ASSUME VideoInit PROVE VideoInv
  OBVIOUS
<1> USE DEF VideoInit
<1>1. \A k \in Codecs : Unmade(k)
  BY DEF Unmade
<1>2. VideoTypeOK
  BY DEF VideoTypeOK, CodecStates, FeedPcs, RenderPcs, SurfacePcs
<1>3. InTurn /\ OneWhileRunning /\ CodecKnown /\ OneReleased
  BY <1>1 DEF InTurn, OneWhileRunning, CodecKnown, OneReleased, Codecs
<1> QED
  BY <1>2, <1>3 DEF VideoInv

LEMMA VideoUiStep ==
  ASSUME VideoInv, SurfaceCreated \/ SurfaceDestroyed \/ VideoUi
  PROVE  VideoInv'
<1> USE DEF VideoInv, VideoTypeOK, InTurn, OneWhileRunning, CodecKnown, OneReleased, Unmade,
        UiGoes, fieldVars, feedVars, renderVars
<1> USE DEF Codecs, CodecStates, FeedPcs, RenderPcs, SurfacePcs
<1>1. CASE SurfaceCreated
  BY <1>1 DEF SurfaceCreated
<1>2. CASE SurfaceDestroyed
  BY <1>2 DEF SurfaceDestroyed
<1>3. CASE CodecStop
  BY <1>3 DEF CodecStop, Holds, SetCodec
<1>4. CASE CodecRelease
  BY <1>4 DEF CodecRelease, SetCodec
<1>5. CASE ClearCodec
  BY <1>5 DEF ClearCodec
<1> QED
  BY <1>1, <1>2, <1>3, <1>4, <1>5 DEF VideoUi

LEMMA FeedStep ==
  ASSUME VideoInv, Feed
  PROVE  VideoInv'
<1> USE DEF VideoInv, VideoTypeOK, InTurn, OneWhileRunning, CodecKnown, OneReleased, Unmade,
        FeedMoves, fieldVars, feedVars, renderVars
<1> USE DEF Codecs, CodecStates, FeedPcs, RenderPcs, SurfacePcs
<1>1. CASE FeedEnds \/ TakesFrame \/ AsksWhenIdle \/ Asked
  BY <1>1 DEF FeedEnds, TakesFrame, AsksWhenIdle, Asked, FeedOnlyMoves
<1>2. CASE Configured \/ ConfigureFails
  BY <1>2 DEF Configured, ConfigureFails, FeedOnlyMoves
<1>3. ASSUME NEW k \in Codecs, ConfigureOk(k)
      PROVE  VideoInv'
  BY <1>3 DEF ConfigureOk, SetCodec, SurfaceFree
<1>4. CASE Publish
  BY <1>4 DEF Publish
<1>5. CASE Lookup
  BY <1>5 DEF Lookup
<1>6. CASE DequeueInput \/ Saturated \/ DequeueThrows \/ FillInput \/ FillThrows
  BY <1>6 DEF DequeueInput, Saturated, DequeueThrows, FillInput, FillThrows, FeedOnlyMoves
<1> QED
  BY <1>1, <1>2, <1>3, <1>4, <1>5, <1>6 DEF Feed

LEMMA RenderStep ==
  ASSUME VideoInv, Render
  PROVE  VideoInv'
<1> USE DEF RenderMoves
<1>1. UNCHANGED <<fieldVars, codecState, feedVars, surface>>
  BY DEF Render, RenderEnds, SeesCodec, NoOutput, DequeueOutput, ShowOutput, ShowThrows,
     RenderOnlyMoves
<1>2. render' \in RenderPcs /\ renderCodec' \in {0} \cup Codecs
  BY DEF VideoInv, VideoTypeOK, Render, RenderEnds, SeesCodec, NoOutput, DequeueOutput,
     ShowOutput, ShowThrows, RenderOnlyMoves, RenderPcs
<1> QED
  BY <1>1, <1>2 DEF VideoInv, VideoTypeOK, InTurn, OneWhileRunning, CodecKnown, OneReleased,
     Unmade, fieldVars, feedVars

LEMMA VideoInvStep == VideoInv /\ [VideoNext]_videoVars => VideoInv'
<1> SUFFICES ASSUME VideoInv, [VideoNext]_videoVars PROVE VideoInv'
  OBVIOUS
<1>1. ASSUME NEW k \in Codecs, CodecFails(k)
      PROVE  VideoInv'
  BY <1>1 DEF CodecFails, SetCodec, VideoInv, VideoTypeOK, InTurn, OneWhileRunning, CodecKnown,
     OneReleased, Unmade, Codecs, CodecStates, fieldVars, feedVars, renderVars
<1>2. CASE UNCHANGED videoVars
  BY <1>2 DEF videoVars, fieldVars, feedVars, renderVars, VideoInv, VideoTypeOK, InTurn,
     OneWhileRunning, CodecKnown, OneReleased, Unmade
<1> QED
  BY <1>1, <1>2, VideoUiStep, FeedStep, RenderStep DEF VideoNext

LEMMA VideoInvHolds == VideoSpec => []VideoInv
  BY VideoInvInit, VideoInvStep, PTL DEF VideoSpec

\* Two codecs that are left would both be past "released" already.
LEMMA InvLeavesOne == VideoInv => OneCodecLeft
<1> SUFFICES ASSUME VideoInv, surface = "gone", VideoEnded PROVE
      Cardinality({k \in Codecs : codecState[k] \notin {"none", "released"}}) <= 1
  BY DEF OneCodecLeft
<1>1. \A j, k \in {k \in Codecs : codecState[k] \notin {"none", "released"}} : j = k
  BY DEF VideoInv, VideoTypeOK, InTurn, OneReleased, Unmade, Codecs
<1> QED
  BY <1>1, AtMostOne

-----------------------------------------------------------------------------
\* The fields of the video player, its codecs and its threads keep their
\* types (VideoPlayer.kt:19-40).
THEOREM VideoTypes == VideoSpec => []VideoTypeOK
<1>1. VideoInv => VideoTypeOK
  BY DEF VideoInv
<1> QED
  BY <1>1, VideoInvHolds, PTL

\* However stop() falls between the two threads' steps, at most one codec is
\* left unreleased when all is over (VideoPlayer.kt:44-56, 133).
THEOREM OneCodecLeftHolds == VideoSpec => []OneCodecLeft
  BY InvLeavesOne, VideoInvHolds, PTL

\* No second codec is made before stop(), whatever fails and however often
\* (VideoPlayer.kt:68-74).
THEOREM OneDecoderHolds == VideoSpec => []OneDecoder
<1>1. VideoInv => OneDecoder
  BY DEF VideoInv, VideoTypeOK, InTurn, OneWhileRunning, Unmade, OneDecoder
<1> QED
  BY <1>1, VideoInvHolds, PTL

-----------------------------------------------------------------------------
(* The audio player's steps.                                               *)

\* What a step of the worker leaves alone, and where it goes.
LEMMA WorkerKeeps ==
  ASSUME Worker
  PROVE  UNCHANGED <<playing, audioUi>> /\ worker' \in WorkerPcs
<1> USE DEF OnlyMoves, Moves, TrackMoves, WorkerPcs
<1>1. CASE WorkerEnds \/ TakesAudio \/ HasDecoder \/ ConfigureAacFails \/ PublishDecoder
  BY <1>1 DEF WorkerEnds, TakesAudio, HasDecoder, ConfigureAacFails, PublishDecoder
<1>2. CASE LookupDecoder \/ DequeueAudio \/ NoBuffer \/ ForgetDecoder \/ FillAudio \/ Drained
  BY <1>2 DEF LookupDecoder, DequeueAudio, NoBuffer, ForgetDecoder, FillAudio, Drained
<1>3. CASE DequeueSound \/ DequeueFormat \/ SameFormat \/ OtherFormat \/ PlaySound \/ NoSound
  BY <1>3 DEF DequeueSound, DequeueFormat, SameFormat, OtherFormat, PlaySound, NoSound,
     CallWriteTrack
<1>4. CASE TrackFits \/ ReleaseOld \/ BuildThrows \/ WriteTrack \/ ReleaseOutput \/ AudioCallThrows
  BY <1>4 DEF TrackFits, ReleaseOld, BuildThrows, WriteTrack, ReleaseOutput, AudioCallThrows
<1>5. CASE (\E k \in Made : ConfigureAac(k)) \/ \E t \in Tracks : BuildTrack(t) \/ AssignTrack(t)
  BY <1>5 DEF ConfigureAac, BuildTrack, AssignTrack
<1> QED
  BY <1>1, <1>2, <1>3, <1>4, <1>5 DEF Worker

LEMMA AudioUiTypes ==
  ASSUME AudioTypeOK, AudioStart \/ AudioStop \/ AudioUi
  PROVE  AudioTypeOK'
<1> USE DEF AudioTypeOK, UiStep, UiSteps, WorkerPcs, decoderVars, trackVars, workerVars
<1>1. CASE AudioStart \/ AudioStop
  BY <1>1 DEF AudioStart, AudioStop
<1>2. CASE DecoderStop \/ DecoderRelease \/ ClearDecoder
  BY <1>2 DEF DecoderStop, DecoderRelease, ClearDecoder, SetDecoder
<1>3. CASE TrackRelease \/ ClearTrack
  BY <1>3 DEF TrackRelease, ClearTrack, Released, SetTrack
<1> QED
  BY <1>1, <1>2, <1>3 DEF AudioUi

\* What the steps that go through Moves do to the rest of the thread.
LEMMA MovesTypes ==
  ASSUME AudioTypeOK, NEW from, NEW to, Moves(from, to),
         from = "drain" /\ to # "poll" => output > 0
  PROVE  /\ UNCHANGED trackVars
         /\ wants' \in Formats /\ output' \in 0..MaxOut
<1>1. output \in 0..MaxOut /\ MaxOut \in Nat /\ wants \in Formats
  BY AudioAssumption DEF AudioTypeOK
<1>2. wants' \in Formats
  BY <1>1 DEF Moves, Formats
<1>3. output' \in 0..MaxOut
  <2>1. output' \in {MaxOut, 0, output} \/ (output > 0 /\ output' = output - 1)
    BY DEF Moves
  <2> QED
    BY <1>1, <2>1
<1> QED
  BY <1>2, <1>3 DEF Moves

LEMMA OnlyMovesTypes ==
  ASSUME AudioTypeOK, NEW from, NEW to, OnlyMoves(from, to),
         from = "drain" /\ to # "poll" => output > 0
  PROVE  /\ UNCHANGED <<trackVars, decoderVars>> /\ inUse' \in {0} \cup Made
         /\ wants' \in Formats /\ output' \in 0..MaxOut
  BY MovesTypes DEF OnlyMoves, AudioTypeOK

\* What the worker's steps have to show.
Typed ==
  /\ decoder \in {0} \cup Made
  /\ decoderState \in [Made -> {"none", "started", "failed", "stopped", "released"}]
  /\ track \in {0} \cup Tracks /\ trackState \in [Tracks -> {"none", "built", "fresh"}]
  /\ format \in {"none"} \cup Formats
  /\ inUse \in {0} \cup Made /\ wants \in Formats
  /\ output \in 0..MaxOut

LEMMA WorkerTypes ==
  ASSUME AudioTypeOK, Worker
  PROVE  AudioTypeOK'
<1>0. Typed
  BY DEF AudioTypeOK, Typed
<1> SUFFICES Typed'
  BY WorkerKeeps DEF AudioTypeOK, Typed
<1>1. ASSUME NEW from, NEW to, OnlyMoves(from, to),
             from = "drain" /\ to # "poll" => output > 0
      PROVE  Typed'
  <2>1. /\ UNCHANGED <<trackVars, decoderVars>> /\ inUse' \in {0} \cup Made
        /\ wants' \in Formats /\ output' \in 0..MaxOut
    BY <1>1, OnlyMovesTypes
  <2> QED
    BY <1>0, <2>1 DEF trackVars, decoderVars, Typed
<1>2. CASE WorkerEnds \/ TakesAudio \/ HasDecoder \/ ConfigureAacFails
  BY <1>1, <1>2 DEF WorkerEnds, TakesAudio, HasDecoder, ConfigureAacFails
<1>3. CASE DequeueAudio \/ NoBuffer \/ FillAudio \/ Drained \/ DequeueSound \/ DequeueFormat
  BY <1>1, <1>3 DEF DequeueAudio, NoBuffer, FillAudio, Drained, DequeueSound, DequeueFormat
<1>4. CASE SameFormat \/ NoSound \/ TrackFits \/ BuildThrows \/ WriteTrack \/ ReleaseOutput
  BY <1>1, <1>4 DEF SameFormat, NoSound, TrackFits, BuildThrows, WriteTrack, ReleaseOutput
<1>5. CASE AudioCallThrows
  <2>1. PICK pc \in {"fill", "format", "out", "release"} : OnlyMoves(pc, "threw")
    BY <1>5 DEF AudioCallThrows
  <2> QED
    BY <1>1, <2>1
<1>6. CASE PublishDecoder
  <2>1. Moves("publish", "lookup") /\ decoder' = inUse /\ UNCHANGED <<decoderState, inUse>>
    BY <1>6 DEF PublishDecoder
  <2> QED
    <3>1. UNCHANGED trackVars /\ wants' \in Formats /\ output' \in 0..MaxOut
      BY <2>1, MovesTypes
    <3> QED
      BY <1>0, <2>1, <3>1 DEF trackVars, Typed
<1>7. CASE LookupDecoder
  <2>1. /\ Moves("lookup", IF decoder = 0 THEN "poll" ELSE "dequeue")
        /\ inUse' = decoder /\ UNCHANGED decoderVars
    BY <1>7 DEF LookupDecoder
  <2>2. UNCHANGED trackVars /\ wants' \in Formats /\ output' \in 0..MaxOut
    BY <2>1, MovesTypes
  <2> QED
    BY <1>0, <2>1, <2>2 DEF trackVars, decoderVars, Typed
<1>8. CASE ForgetDecoder
  <2>1. Moves("dequeue", "poll") /\ decoder' = 0 /\ inUse' = 0 /\ UNCHANGED decoderState
    BY <1>8 DEF ForgetDecoder
  <2> QED
    <3>1. UNCHANGED trackVars /\ wants' \in Formats /\ output' \in 0..MaxOut
      BY <2>1, MovesTypes
    <3> QED
      BY <1>0, <2>1, <3>1 DEF trackVars, Typed
<1>9. ASSUME NEW k \in Made, ConfigureAac(k)
      PROVE  Typed'
  <2>1. Moves("aac", "publish") /\ SetDecoder(k, "started") /\ inUse' = k /\ UNCHANGED decoder
    BY <1>9 DEF ConfigureAac
  <2>2. decoderState' \in [Made -> {"none", "started", "failed", "stopped", "released"}]
    BY <1>0, <2>1 DEF SetDecoder, Typed
  <2> QED
    <3>1. UNCHANGED trackVars /\ wants' \in Formats /\ output' \in 0..MaxOut
      BY <2>1, MovesTypes
    <3> QED
      BY <1>0, <2>1, <2>2, <3>1 DEF trackVars, Typed
<1>10. CASE OtherFormat \/ PlaySound
  BY <1>0, <1>10 DEF OtherFormat, PlaySound, CallWriteTrack, TrackMoves, trackVars, decoderVars,
     Formats, Typed
<1>11. CASE ReleaseOld
  BY <1>0, <1>11 DEF ReleaseOld, TrackMoves, Released, SetTrack, decoderVars, Typed
<1>12. ASSUME NEW t \in Tracks, BuildTrack(t) \/ AssignTrack(t)
       PROVE  Typed'
  BY <1>0, <1>12 DEF BuildTrack, AssignTrack, TrackMoves, SetTrack, decoderVars, Typed
<1> QED
  BY <1>2, <1>3, <1>4, <1>5, <1>6, <1>7, <1>8, <1>9, <1>10, <1>11, <1>12 DEF Worker

LEMMA AudioTypesStep ==
  ASSUME AudioTypeOK, AudioNext
  PROVE  AudioTypeOK'
<1>1. ASSUME NEW k \in Made, DecoderFails(k)
      PROVE  AudioTypeOK'
  BY <1>1 DEF DecoderFails, SetDecoder, AudioTypeOK, trackVars, workerVars
<1> QED
  BY <1>1, AudioUiTypes, WorkerTypes DEF AudioNext

\* A set of decoders that work, after a step that makes none work.
LEMMA NoneStarts ==
  ASSUME AudioTypeOK, NEW k \in {0} \cup Made, NEW state, state # "started",
         UNCHANGED decoderState \/ (k # 0 /\ SetDecoder(k, state))
  PROVE  \A j \in Made : Going(j)' => Going(j)
  BY DEF AudioTypeOK, SetDecoder, Going, Made

LEMMA DecoderUiStep ==
  ASSUME AudioTypeOK, DecoderInv, AudioStart \/ AudioStop \/ AudioUi
  PROVE  DecoderInv'
<1> USE DEF DecoderInv, NoneToLose, Left, UiStep, trackVars, workerVars, decoderVars
<1>1. CASE AudioStart
  BY <1>1 DEF AudioStart, Going
<1>2. CASE AudioStop
  BY <1>2 DEF AudioStop, Going
<1>3. CASE DecoderStop
  <2>1. \A j \in Made : Going(j)' => Going(j)
    BY <1>3, NoneStarts DEF DecoderStop, AudioTypeOK, Works
  <2>2. /\ audioUi = "stopping" /\ audioUi' = "stopped"
        /\ UNCHANGED <<playing, decoder, worker, inUse>>
    BY <1>3 DEF DecoderStop
  <2>3. worker = "aac" => \A j \in Made : ~Going(j)'
    <3> SUFFICES ASSUME worker = "aac", NEW j \in Made, Going(j)' PROVE FALSE
      OBVIOUS
    <3>1. Going(j) /\ j = decoder
      BY <2>1
    <3>2. SetDecoder(decoder, "stopped")
      BY <1>3, <3>1, AudioAssumption DEF DecoderStop, Works, Going, Made
    <3> QED
      BY <3>1, <3>2 DEF SetDecoder, AudioTypeOK, Going
  <2> QED
    BY <2>1, <2>2, <2>3
<1>4. CASE DecoderRelease
  <2>1. \A j \in Made : Going(j)' => Going(j)
    BY <1>4, NoneStarts DEF DecoderRelease, AudioTypeOK
  <2> QED
    BY <1>4, <2>1 DEF DecoderRelease
<1>5. CASE ClearDecoder \/ TrackRelease \/ ClearTrack
  <2>1. UNCHANGED <<decoderState, playing, worker, inUse>> /\ decoder' \in {0, decoder}
    BY <1>5 DEF ClearDecoder, TrackRelease, ClearTrack
  <2>2. /\ audioUi \in {"released", "cleared", "trackReleased"}
        /\ audioUi' \in {"cleared", "trackReleased", "done"}
    BY <1>5 DEF ClearDecoder, TrackRelease, ClearTrack
  <2> QED
    BY <2>1, <2>2 DEF Going
<1> QED
  BY <1>1, <1>2, <1>3, <1>4, <1>5 DEF AudioUi

\* A step of the worker that makes no decoder, publishes none and forgets none.
LEMMA SameDecoders ==
  ASSUME DecoderInv, UNCHANGED <<playing, audioUi, decoder, decoderState>>,
         audioUi # "none", worker' # "publish",
         worker' = "aac" => playing \/ NoneToLose,
         playing /\ worker' \in {"dequeue", "fill"} => inUse' = decoder,
         worker # "publish"
  PROVE  DecoderInv'
  BY DEF DecoderInv, NoneToLose, Going

LEMMA DecoderWorkerStep ==
  ASSUME AudioTypeOK, DecoderInv, Worker
  PROVE  DecoderInv'
<1> USE DEF OnlyMoves, Moves, TrackMoves, decoderVars
<1>0. audioUi # "none"
  <2>1. worker # "new"
    BY DEF Worker, WorkerEnds, TakesAudio, HasDecoder, ConfigureAacFails, PublishDecoder,
       LookupDecoder, DequeueAudio, NoBuffer, ForgetDecoder, FillAudio, Drained, DequeueSound,
       DequeueFormat, SameFormat, OtherFormat, PlaySound, NoSound, CallWriteTrack, TrackFits,
       ReleaseOld, BuildThrows, WriteTrack, ReleaseOutput, AudioCallThrows, ConfigureAac,
       BuildTrack, AssignTrack
  <2> QED
    BY <2>1 DEF DecoderInv
<1>1. CASE WorkerEnds \/ TakesAudio \/ HasDecoder \/ ConfigureAacFails
  BY <1>0, <1>1, SameDecoders DEF WorkerEnds, TakesAudio, HasDecoder, ConfigureAacFails
<1>2. CASE LookupDecoder
  BY <1>0, <1>2, SameDecoders DEF LookupDecoder
<1>3. CASE DequeueAudio \/ NoBuffer \/ FillAudio \/ Drained \/ DequeueSound \/ DequeueFormat
  BY <1>0, <1>3, SameDecoders DEF DequeueAudio, NoBuffer, FillAudio, Drained, DequeueSound,
     DequeueFormat, DecoderInv
<1>4. CASE SameFormat \/ OtherFormat \/ PlaySound \/ NoSound \/ TrackFits \/ ReleaseOld
  BY <1>0, <1>4, SameDecoders DEF SameFormat, OtherFormat, PlaySound, NoSound, CallWriteTrack,
     TrackFits, ReleaseOld
<1>5. CASE BuildThrows \/ WriteTrack \/ ReleaseOutput \/ AudioCallThrows
  BY <1>0, <1>5, SameDecoders DEF BuildThrows, WriteTrack, ReleaseOutput, AudioCallThrows
<1>6. ASSUME NEW t \in Tracks, BuildTrack(t) \/ AssignTrack(t)
      PROVE  DecoderInv'
  BY <1>0, <1>6, SameDecoders DEF BuildTrack, AssignTrack
\* Nothing works that is not the published one.
<1>7. CASE PublishDecoder
  <2>1. /\ worker = "publish" /\ worker' = "lookup" /\ UNCHANGED <<playing, audioUi>>
        /\ decoder' = inUse /\ UNCHANGED <<decoderState, inUse>>
    BY <1>7 DEF PublishDecoder
  <2>2. playing => \A k \in Made : Going(k) => k = inUse
    BY <2>1 DEF DecoderInv, AudioTypeOK, Going, Made
  <2> QED
    BY <1>0, <2>1, <2>2 DEF DecoderInv, Going
\* It is forgotten because it does not work.
<1>8. CASE ForgetDecoder
  <2>1. /\ worker = "dequeue" /\ worker' = "poll" /\ UNCHANGED <<playing, audioUi, decoderState>>
        /\ decoder' = 0 /\ inUse' = 0 /\ ~Works(inUse)
    BY <1>8 DEF ForgetDecoder
  <2>2. playing => \A k \in Made : ~Going(k)
    BY <2>1, AudioAssumption DEF DecoderInv, Works, Going, Made
  <2> QED
    BY <1>0, <2>1, <2>2 DEF DecoderInv, Going
<1>9. ASSUME NEW k \in Made, ConfigureAac(k)
      PROVE  DecoderInv'
  <2>1. /\ decoder = 0 /\ worker = "aac" /\ worker' = "publish" /\ UNCHANGED <<playing, audioUi>>
        /\ SetDecoder(k, "started") /\ inUse' = k /\ UNCHANGED decoder
    BY <1>9 DEF ConfigureAac
  <2>2. k # 0 /\ \A j \in Made : ~Going(j)
    BY <2>1, AudioAssumption DEF DecoderInv, Made
  <2>3. \A j \in Made : Going(j)' => j = k
    BY <2>1, <2>2 DEF SetDecoder, Going, AudioTypeOK
  <2> QED
    BY <1>0, <2>1, <2>2, <2>3 DEF DecoderInv
<1> QED
  BY <1>1, <1>2, <1>3, <1>4, <1>5, <1>6, <1>7, <1>8, <1>9 DEF Worker

LEMMA DecoderStep ==
  ASSUME AudioTypeOK, DecoderInv, AudioNext
  PROVE  DecoderInv'
<1>1. ASSUME NEW k \in Made, DecoderFails(k)
      PROVE  DecoderInv'
  <2>1. \A j \in Made : Going(j)' => Going(j)
    BY <1>1 DEF DecoderFails, SetDecoder, Going, AudioTypeOK
  <2>2. UNCHANGED <<playing, audioUi, worker, inUse, decoder, trackState>>
    BY <1>1 DEF DecoderFails, trackVars, workerVars
  <2> QED
    BY <2>1, <2>2 DEF DecoderInv, NoneToLose, Left
<1> QED
  BY <1>1, DecoderUiStep, DecoderWorkerStep DEF AudioNext

\* The worker and the tracks: what depends on nothing else.
LEMMA TidyKept ==
  ASSUME NEW lost, Tidy(lost), UNCHANGED <<track, trackState>>,
         worker' \notin {"build", "assign"}, worker \notin {"build", "assign"}
  PROVE  Tidy(lost)'
  BY DEF Tidy, Left

\* A decoder that works goes on, or fails.
LEMMA WorksOn ==
  ASSUME AudioTypeOK, SomeWorks,
         UNCHANGED decoderState \/ \E k \in Made, state \in {"started", "failed"} : SetDecoder(k, state)
  PROVE  SomeWorks'
<1>1. PICK j \in Made : decoderState[j] \in {"started", "failed"}
  BY DEF SomeWorks
<1>2. decoderState'[j] \in {"started", "failed"}
  BY <1>1 DEF SetDecoder, AudioTypeOK
<1> QED
  BY <1>2 DEF SomeWorks

\* A step of the worker past the tracks that it leaves alone: it stays in
\* Leaving, or has a decoder that works.
LEMMA PastTracks ==
  ASSUME PlayerInv, UNCHANGED <<track, trackState, audioUi>>,
         worker' \notin {"build", "assign"}, worker \notin {"build", "assign"},
         SomeWorks => SomeWorks',
         worker \in Leaving /\ ~playing => worker' \in Leaving \/ SomeWorks
  PROVE  TrackInv'
<1>1. playing <=> audioUi = "started"
  BY DEF PlayerInv, DecoderInv
<1>2. \A lost : Tidy(lost) => Tidy(lost)'
  BY TidyKept
<1>3. Left' = Left /\ (NoTrackYet => NoTrackYet')
  BY DEF Left, NoTrackYet
<1>4. CASE /\ Tidy({})
           /\ audioUi = "trackReleased" => (NoTrackYet \/ SomeWorks \/ worker \in Leaving)
  <2>1. Tidy({})'
    BY <1>2, <1>4
  <2>2. audioUi' = "trackReleased" => (NoTrackYet' \/ SomeWorks' \/ worker' \in Leaving)
    BY <1>1, <1>3, <1>4
  <2> QED
    BY <2>1, <2>2 DEF TrackInv
<1>5. CASE /\ audioUi = "done" /\ \E t \in Tracks : Tidy({t})
           /\ SomeWorks \/ (worker \in Leaving /\ \E t \in Tracks : Left \subseteq {t})
  <2>1. audioUi' = "done" /\ \E t \in Tracks : Tidy({t})'
    BY <1>2, <1>5
  <2>2. SomeWorks' \/ (worker' \in Leaving /\ \E t \in Tracks : Left' \subseteq {t})
    BY <1>1, <1>3, <1>5
  <2> QED
    BY <2>1, <2>2 DEF TrackInv
<1> QED
  BY <1>4, <1>5 DEF PlayerInv, TrackInv

LEMMA TrackReleased ==
  ASSUME AudioTypeOK, Released
  PROVE  \A s \in Tracks : trackState'[s] = IF s = track THEN "none" ELSE trackState[s]
  BY DEF AudioTypeOK, Released, SetTrack, Tracks

LEMMA TrackWorkerStep ==
  ASSUME PlayerInv, Worker
  PROVE  TrackInv'
<1> USE DEF OnlyMoves, Moves, TrackMoves, decoderVars, trackVars
<1>1. CASE WorkerEnds \/ TakesAudio \/ HasDecoder \/ ConfigureAacFails
  BY <1>1, PastTracks, WorksOn DEF WorkerEnds, TakesAudio, HasDecoder, ConfigureAacFails,
     Leaving, PlayerInv
<1>2. CASE LookupDecoder \/ PublishDecoder \/ ForgetDecoder
  BY <1>2, PastTracks, WorksOn DEF LookupDecoder, PublishDecoder, ForgetDecoder, Leaving,
     PlayerInv
<1>3. CASE DequeueAudio \/ NoBuffer \/ FillAudio \/ Drained
  BY <1>3, PastTracks, WorksOn DEF DequeueAudio, NoBuffer, FillAudio, Drained, Leaving, PlayerInv
<1>4. CASE DequeueSound \/ DequeueFormat
  <2>1. SomeWorks
    BY <1>4 DEF DequeueSound, DequeueFormat, Works, SomeWorks, PlayerInv, AudioTypeOK
  <2> QED
    BY <1>4, <2>1, PastTracks DEF DequeueSound, DequeueFormat, SomeWorks
<1>5. CASE SameFormat \/ OtherFormat \/ PlaySound \/ NoSound \/ TrackFits
  BY <1>5, PastTracks, WorksOn DEF SameFormat, OtherFormat, PlaySound, NoSound,
     CallWriteTrack, TrackFits, Leaving, PlayerInv
<1>6. CASE WriteTrack \/ ReleaseOutput \/ AudioCallThrows
  BY <1>6, PastTracks, WorksOn DEF WriteTrack, ReleaseOutput, AudioCallThrows, Leaving, PlayerInv
<1>7. ASSUME NEW k \in Made, ConfigureAac(k)
      PROVE  TrackInv'
  <2>1. SomeWorks'
    BY <1>7 DEF ConfigureAac, SetDecoder, SomeWorks, PlayerInv, AudioTypeOK
  <2> QED
    BY <1>7, <2>1, PastTracks DEF ConfigureAac, Leaving
\* The old track goes: what is left is lost.
<1>8. CASE ReleaseOld
  <2>1. /\ worker = "track" /\ worker' = "build" /\ UNCHANGED <<audioUi, decoderState, track>>
        /\ Released
    BY <1>8 DEF ReleaseOld
  <2>2. \A s \in Tracks : trackState'[s] = IF s = track THEN "none" ELSE trackState[s]
    BY <2>1, TrackReleased DEF PlayerInv
  <2>3. Left' = Left \ {track} /\ (NoTrackYet => NoTrackYet')
    BY <2>2 DEF Left, NoTrackYet
  <2>4. ASSUME NEW lost, Tidy(lost)
        PROVE  Tidy(lost)'
    <3>1. Left \subseteq lost \cup {track} /\ \A s \in Tracks : trackState[s] # "fresh"
      BY <2>1, <2>4 DEF Tidy
    <3> QED
      BY <2>1, <2>2, <2>3, <3>1 DEF Tidy
  <2>5. SomeWorks => SomeWorks'
    BY <2>1 DEF SomeWorks
  <2> QED
    BY <2>1, <2>3, <2>4, <2>5 DEF PlayerInv, TrackInv, Leaving
<1>9. ASSUME NEW t \in Tracks, BuildTrack(t)
      PROVE  TrackInv'
  <2>1. /\ worker = "build" /\ worker' = "assign" /\ UNCHANGED <<audioUi, decoderState, track>>
        /\ trackState[t] = "none" /\ t # track /\ SetTrack(t, "fresh")
    BY <1>9 DEF BuildTrack
  <2>2. \A s \in Tracks : trackState'[s] = IF s = t THEN "fresh" ELSE trackState[s]
    BY <2>1 DEF SetTrack, PlayerInv, AudioTypeOK
  <2>3. \A lost : Tidy(lost) /\ t \notin lost => Tidy(lost)'
    BY <2>1, <2>2 DEF Tidy, Left
  <2>4. NoTrackYet => NoTrackYet'
    BY <2>2 DEF NoTrackYet
  <2>5. SomeWorks => SomeWorks'
    BY <2>1 DEF SomeWorks
  <2>6. \A s \in Tracks : Tidy({s}) /\ t = s => Tidy({})
    BY <2>1 DEF Tidy, Left
  <2> QED
    BY <2>1, <2>3, <2>4, <2>5, <2>6 DEF PlayerInv, TrackInv, Leaving
<1>10. CASE BuildThrows
  <2>1. /\ worker = "build" /\ worker' = "threw"
        /\ UNCHANGED <<audioUi, decoderState, track, trackState>>
    BY <1>10 DEF BuildThrows
  <2>2. \A lost : Tidy(lost) => Tidy(lost)'
    BY <2>1 DEF Tidy, Left
  <2> QED
    BY <2>1, <2>2 DEF PlayerInv, TrackInv, Leaving, SomeWorks, NoTrackYet
\* The new track is in the field, and the worker on its way out with it.
<1>11. ASSUME NEW t \in Tracks, AssignTrack(t)
       PROVE  TrackInv'
  <2>1. /\ worker = "assign" /\ worker' = "write" /\ UNCHANGED <<audioUi, decoderState>>
        /\ trackState[t] = "fresh" /\ SetTrack(t, "built") /\ track' = t
    BY <1>11 DEF AssignTrack
  <2>2. \A s \in Tracks : trackState'[s] = IF s = t THEN "built" ELSE trackState[s]
    BY <2>1 DEF SetTrack, PlayerInv, AudioTypeOK
  <2>3. \A lost : Tidy(lost) => Tidy(lost)'
    BY <2>1, <2>2 DEF Tidy, Left
  <2>4. SomeWorks => SomeWorks'
    BY <2>1 DEF SomeWorks
  <2> QED
    BY <2>1, <2>3, <2>4 DEF PlayerInv, TrackInv, Leaving
<1> QED
  BY <1>1, <1>2, <1>3, <1>4, <1>5, <1>6, <1>7, <1>8, <1>9, <1>10, <1>11 DEF Worker

LEMMA TrackUiStep ==
  ASSUME PlayerInv, AudioStart \/ AudioStop \/ AudioUi
  PROVE  TrackInv'
<1> USE DEF UiStep, trackVars, workerVars, decoderVars
<1>1. CASE AudioStart
  <2>1. worker = "new" /\ Left = {}
    BY <1>1 DEF AudioStart, PlayerInv, DecoderInv
  <2> QED
    BY <1>1, <2>1 DEF AudioStart, TrackInv, Tidy, Left, PlayerInv
<1>2. CASE AudioStop \/ DecoderStop \/ DecoderRelease \/ ClearDecoder
  <2>1. /\ audioUi \in {"started", "stopping", "stopped", "released"}
        /\ audioUi' \in {"stopping", "stopped", "released", "cleared"}
        /\ UNCHANGED <<worker, track, trackState>>
    BY <1>2 DEF AudioStop, DecoderStop, DecoderRelease, ClearDecoder
  <2>2. Tidy({}) => Tidy({})'
    BY <2>1 DEF Tidy, Left
  <2> QED
    BY <2>1, <2>2 DEF TrackInv, PlayerInv
\* The track in the field goes: there is none, unless one is on its way.
<1>3. CASE TrackRelease
  <2>1. /\ audioUi = "cleared" /\ audioUi' = "trackReleased"
        /\ Released /\ UNCHANGED <<worker, track, decoderState>>
    BY <1>3 DEF TrackRelease
  <2>2. Tidy({})
    BY <2>1 DEF PlayerInv, TrackInv
  <2>3. \A s \in Tracks : trackState'[s] = IF s = track THEN "none" ELSE trackState[s]
    BY <2>1, TrackReleased DEF PlayerInv
  <2>4. Left' = Left \ {track}
    BY <2>3 DEF Left
  <2>5. Tidy({})'
    BY <2>1, <2>2, <2>3, <2>4 DEF Tidy
  <2>6. NoTrackYet'
    <3> SUFFICES ASSUME NEW s \in Tracks, trackState'[s] = "built" PROVE FALSE
      BY DEF NoTrackYet
    <3>1. s \in Left /\ s # track /\ trackState[s] = "built"
      BY <2>3 DEF Left
    <3> QED
      BY <2>2, <3>1 DEF Tidy
  <2> QED
    BY <2>1, <2>5, <2>6 DEF TrackInv
\* One assigned since is lost.
<1>4. CASE ClearTrack
  <2>1. /\ audioUi = "trackReleased" /\ audioUi' = "done" /\ track' = 0
        /\ UNCHANGED <<worker, trackState, decoderState>>
    BY <1>4 DEF ClearTrack
  <2>2. Tidy({}) /\ (NoTrackYet \/ SomeWorks \/ worker \in Leaving)
    BY <2>1 DEF PlayerInv, TrackInv
  <2>3. UNCHANGED Left /\ (SomeWorks => SomeWorks')
    BY <2>1 DEF Left, SomeWorks
  <2>4. ASSUME NEW lost, Left \subseteq lost \/ worker \in {"build", "assign"},
               \A t \in lost : t = track
        PROVE  Tidy(lost)'
    BY <2>1, <2>2, <2>3, <2>4 DEF Tidy, Tracks
  <2>5. Left # {} => track \in Tracks \/ worker \in {"build", "assign"}
    BY <2>2 DEF Tidy, Left
  <2>6. CASE SomeWorks \/ worker \in Leaving
    <3>1. ASSUME NEW t \in Tracks, t = track
          PROVE  TrackInv'
      <4>1. Tidy({t})'
        BY <2>2, <2>4, <3>1 DEF Tidy
      <4>2. worker \in Leaving => Left' \subseteq {t}
        BY <2>2, <2>3, <3>1 DEF Tidy, Leaving
      <4> QED
        BY <2>1, <2>3, <2>6, <4>1, <4>2 DEF TrackInv
    <3>2. CASE track \notin Tracks
      <4>1. Tidy({})'
        BY <2>4, <2>5, <3>2
      <4> QED
        BY <2>1, <4>1 DEF TrackInv
    <3> QED
      BY <3>1, <3>2
  <2>7. CASE NoTrackYet
    <3>1. Left = {} \/ worker = "assign"
      BY <2>2, <2>7 DEF Tidy, NoTrackYet, Left, PlayerInv, AudioTypeOK
    <3>2. Tidy({})'
      BY <2>4, <3>1
    <3> QED
      BY <2>1, <3>2 DEF TrackInv
  <2> QED
    BY <2>2, <2>6, <2>7
<1> QED
  BY <1>1, <1>2, <1>3, <1>4 DEF AudioUi

LEMMA PlayerInvInit == AudioInit => PlayerInv
<1> SUFFICES ASSUME AudioInit PROVE PlayerInv
  OBVIOUS
<1> USE DEF AudioInit
<1>1. AudioTypeOK
  <2>1. decoderState \in [Made -> {"none", "started", "failed", "stopped", "released"}]
    OBVIOUS
  <2>2. trackState \in [Tracks -> {"none", "built", "fresh"}]
    OBVIOUS
  <2>3. output \in 0..MaxOut
    BY AudioAssumption
  <2> QED
    BY <2>1, <2>2, <2>3 DEF AudioTypeOK, UiSteps, WorkerPcs, Formats
<1>2. (\A k \in Made : ~Going(k)) /\ Left = {}
  BY DEF Going, Left
<1>3. DecoderInv
  BY <1>2 DEF DecoderInv, NoneToLose
<1>4. TrackInv
  BY <1>2 DEF TrackInv, Tidy
<1> QED
  BY <1>1, <1>3, <1>4 DEF PlayerInv

LEMMA PlayerInvStep == PlayerInv /\ [AudioNext]_audioVars => PlayerInv'
<1> SUFFICES ASSUME PlayerInv, [AudioNext]_audioVars PROVE PlayerInv'
  OBVIOUS
<1>1. CASE AudioNext
  <2>1. ASSUME NEW k \in Made, DecoderFails(k)
        PROVE  TrackInv'
    <3>1. UNCHANGED <<audioUi, worker, track, trackState>> /\ SetDecoder(k, "failed")
      BY <2>1 DEF DecoderFails, trackVars, workerVars
    <3>2. SomeWorks => SomeWorks'
      BY <3>1, WorksOn DEF PlayerInv
    <3>3. \A lost : Tidy(lost) => Tidy(lost)'
      BY <3>1 DEF Tidy, Left
    <3> QED
      BY <3>1, <3>2, <3>3 DEF PlayerInv, TrackInv, NoTrackYet, Left
  <2>2. TrackInv'
    BY <1>1, <2>1, TrackUiStep, TrackWorkerStep DEF AudioNext
  <2> QED
    BY <1>1, <2>2, AudioTypesStep, DecoderStep DEF PlayerInv
<1>2. CASE UNCHANGED audioVars
  <2>1. UNCHANGED <<playing, decoder, decoderState, track, trackState, format, worker, inUse,
                    wants, output, audioUi>>
    BY <1>2 DEF audioVars, decoderVars, trackVars, workerVars
  <2>2. AudioTypeOK' /\ DecoderInv'
    BY <2>1 DEF PlayerInv, AudioTypeOK, DecoderInv, Going, NoneToLose, Left
  <2>3. TrackInv'
    BY <2>1 DEF PlayerInv, TrackInv, Tidy, Left, NoTrackYet, SomeWorks
  <2> QED
    BY <2>2, <2>3 DEF PlayerInv
<1> QED
  BY <1>1, <1>2

LEMMA PlayerInvHolds == AudioSpec => []PlayerInv
  BY PlayerInvInit, PlayerInvStep, PTL DEF AudioSpec

LEMMA InvHasOneOfEach == PlayerInv => OneOfEach
<1> SUFFICES ASSUME PlayerInv PROVE OneOfEach
  OBVIOUS
<1> DEFINE Decoders(states) == {k \in Made : decoderState[k] \in states}
<1>1. Cardinality(Decoders({"started"})) <= 1
  <2>1. \A j, k \in Decoders({"started"}) : j = k
    BY DEF PlayerInv, DecoderInv, Going
  <2> QED
    BY <2>1, AtMostOne
<1>2. ASSUME Tidy({})
      PROVE  Cardinality(Left) \in Nat /\ Cardinality(Left) <= 1
  <2>1. \A s, t \in Left : s = t
    BY <1>2 DEF Tidy
  <2> QED
    BY <2>1, AtMostOne
<1>3. ASSUME NEW t \in Tracks, Tidy({t})
      PROVE  Cardinality(Left) \in Nat /\ Cardinality(Left) <= 2
  <2>1. \E s : Left \subseteq {t, s}
    BY <1>3 DEF Tidy
  <2> QED
    BY <2>1, AtMostTwo
<1>4. ASSUME NEW t \in Tracks, Left \subseteq {t}
      PROVE  Cardinality(Left) \in Nat /\ Cardinality(Left) <= 1
  <2>1. \A r, s \in Left : r = s
    BY <1>4
  <2> QED
    BY <2>1, AtMostOne
<1>5. Cardinality(Left) > 1 => Cardinality(Left) = 2 /\ audioUi = "done" /\ SomeWorks
  <2>1. CASE Tidy({})
    BY <1>2, <2>1
  <2>2. CASE audioUi = "done" /\ (\E t \in Tracks : Tidy({t})) /\ SomeWorks
    BY <1>3, <2>2
  <2>3. CASE \E t \in Tracks : Left \subseteq {t}
    BY <1>4, <2>3
  <2> QED
    BY <2>1, <2>2, <2>3 DEF PlayerInv, TrackInv
<1>6. SomeWorks => Decoders({"started", "failed"}) # {}
  BY DEF SomeWorks
<1>7. audioUi = "done" => ~playing
  BY DEF PlayerInv, DecoderInv
<1> QED
  BY <1>1, <1>5, <1>6, <1>7 DEF OneOfEach, Left

-----------------------------------------------------------------------------
\* The fields of the audio player, its decoders and tracks and its thread keep
\* their types, however many decoders it makes and however much one puts out
\* (AudioPlayer.kt:18-35).
THEOREM AudioTypes == AudioSpec => []AudioTypeOK
<1>1. PlayerInv => AudioTypeOK
  BY DEF PlayerInv
<1> QED
  BY <1>1, PlayerInvHolds, PTL

\* One decoder works and one track is there, however failures, changes of the
\* format and stop() fall; a second track is left only together with a decoder
\* that went on (AudioPlayer.kt:43-66, 164-173).
THEOREM OneOfEachHolds == AudioSpec => []OneOfEach
  BY InvHasOneOfEach, PlayerInvHolds, PTL
=============================================================================
