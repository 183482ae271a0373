---------------------------- MODULE VideoPlayer ----------------------------
(***************************************************************************)
(* VideoPlayer.kt: a feed thread and a render thread around one MediaCodec *)
(* that no lock guards, and start() and stop() on the UI thread, where     *)
(* RenderView calls them when its surface is created and destroyed.  The   *)
(* next surface gets a player of its own, which shares nothing with this.  *)
(*                                                                         *)
(* The codec is external: a call on one that is not started throws         *)
(* IllegalStateException.  The dequeue calls catch it, the calls on        *)
(* buffers do not; a thread that "threw" takes the app with it.  A codec   *)
(* may fail by itself at any time.                                         *)
(***************************************************************************)
EXTENDS Naturals, FiniteSets

VARIABLES
  running, configured, codec,   \* fields of the player; codec 0 is null
  codecState,                   \* of the codecs it made, in order
  feed, feedCodec,              \* the feed thread and its local c
  render, renderCodec,          \* the render thread and its local c
  surface                       \* what the UI thread did last: the life of the
                                \* surface, and the steps of stop()

fieldVars  == <<running, configured, codec>>
feedVars   == <<feed, feedCodec>>
renderVars == <<render, renderCodec>>
videoVars  == <<fieldVars, codecState, feedVars, renderVars, surface>>

\* configure() is called again only after stop() cleared `configured', and
\* then once: the thread looks at `running' before the next frame.
Codecs      == 1..2
CodecStates == {"none", "started", "failed", "stopped", "released"}
FeedPcs     == {"new", "poll", "test", "publish", "lookup", "dequeue", "fill",
                "ask", "ended", "threw"}
RenderPcs   == {"new", "look", "dequeue", "out", "ended", "threw"}
SurfacePcs  == {"none", "created", "stopping", "stopped", "released", "gone"}

VideoTypeOK ==
  /\ running \in BOOLEAN /\ configured \in BOOLEAN
  /\ codec \in {0} \cup Codecs
  /\ codecState \in [Codecs -> CodecStates]
  /\ feed \in FeedPcs /\ feedCodec \in {0} \cup Codecs
  /\ render \in RenderPcs /\ renderCodec \in {0} \cup Codecs
  /\ surface \in SurfacePcs

VideoInit ==
  /\ running = FALSE /\ configured = FALSE /\ codec = 0
  /\ codecState = [k \in Codecs |-> "none"]
  /\ feed = "new" /\ feedCodec = 0
  /\ render = "new" /\ renderCodec = 0
  /\ surface = "none"

Holds(k, state) == k # 0 /\ codecState[k] = state
SetCodec(k, state) == codecState' = [codecState EXCEPT ![k] = state]

-----------------------------------------------------------------------------
(* RenderView's surfaceCreated() and surfaceDestroyed(), with start() and  *)
(* stop(), on the UI thread.                                               *)

UiGoes(from, to) == surface = from /\ surface' = to

SurfaceCreated ==
  /\ UiGoes("none", "created")
  /\ running' = TRUE /\ feed' = "poll" /\ render' = "look"
  /\ UNCHANGED <<configured, codec, codecState, feedCodec, renderCodec>>

\* Mutant: stop() leaves `running' set.
SurfaceDestroyedRunning ==
  /\ UiGoes("created", "stopping")
  /\ configured' = FALSE
  /\ UNCHANGED <<running, codec, codecState, feedVars, renderVars>>

\* A thread that sees only the first of the two flags cleared does nothing
\* it could not have done before both.
SurfaceDestroyed ==
  /\ UiGoes("created", "stopping")
  /\ running' = FALSE /\ configured' = FALSE
  /\ UNCHANGED <<codec, codecState, feedVars, renderVars>>

\* codec?.stop(); this and the next call each read `codec' anew.
CodecStop ==
  /\ UiGoes("stopping", "stopped")
  /\ IF Holds(codec, "started") THEN SetCodec(codec, "stopped") ELSE UNCHANGED codecState
  /\ UNCHANGED <<fieldVars, feedVars, renderVars>>

\* Mutant: stop() trusts to codec.stop().
CodecReleaseNot ==
  /\ UiGoes("stopped", "released")
  /\ UNCHANGED <<fieldVars, codecState, feedVars, renderVars>>

CodecRelease ==
  /\ UiGoes("stopped", "released")
  /\ IF codec # 0 THEN SetCodec(codec, "released") ELSE UNCHANGED codecState
  /\ UNCHANGED <<fieldVars, feedVars, renderVars>>

ClearCodec ==
  /\ UiGoes("released", "gone")
  /\ codec' = 0 /\ UNCHANGED <<running, configured, codecState, feedVars, renderVars>>

VideoUi == CodecStop \/ CodecRelease \/ ClearCodec

-----------------------------------------------------------------------------
(* The feed thread: feedLoop() and configure().                            *)

FeedMoves(from, to) ==
  feed = from /\ feed' = to /\ UNCHANGED <<running, renderVars, surface>>
\* The next iteration starts without a codec.
FeedOnlyMoves(from, to) ==
  /\ FeedMoves(from, to)
  /\ feedCodec' = IF to \in {"poll", "ask"} THEN 0 ELSE feedCodec
  /\ UNCHANGED <<configured, codec, codecState>>

FeedEnds == ~running /\ FeedOnlyMoves("poll", "ended")

\* nextFrame() has one.
TakesFrame == running /\ FeedOnlyMoves("poll", "test")

\* nextFrame() has had none for thirty times in a row.
AsksWhenIdle == running /\ FeedOnlyMoves("poll", "ask")

Configured == configured /\ FeedOnlyMoves("test", "lookup")

\* A surface takes one codec at a time.
SurfaceFree == \A k \in Codecs : codecState[k] \notin {"started", "failed"}

\* createDecoderByType(), configure() and start() succeed.
ConfigureOk(k) ==
  /\ ~configured /\ SurfaceFree
  /\ codecState[k] = "none" /\ \A j \in 1..(k - 1) : codecState[j] # "none"
  /\ FeedMoves("test", "publish")
  /\ SetCodec(k, "started") /\ feedCodec' = k
  /\ UNCHANGED <<configured, codec>>

\* The frame that was to configure the decoder is dropped, a keyframe asked
\* for.
ConfigureFails == ~configured /\ FeedOnlyMoves("test", "ask")

\* The end of configure(), which does not look at `running'.
Publish ==
  /\ FeedMoves("publish", "lookup")
  /\ codec' = feedCodec /\ configured' = TRUE
  /\ UNCHANGED <<codecState, feedCodec>>

\* Mutant: the thread waits for a codec, as the render thread does, but
\* without a look at `running'.
LookupWaits ==
  /\ FeedMoves("lookup", IF codec = 0 THEN "lookup" ELSE "dequeue")
  /\ feedCodec' = codec
  /\ UNCHANGED <<configured, codec, codecState>>

\* val c = codec ?: continue
Lookup ==
  /\ FeedMoves("lookup", IF codec = 0 THEN "poll" ELSE "dequeue")
  /\ feedCodec' = codec
  /\ UNCHANGED <<configured, codec, codecState>>

DequeueInput == Holds(feedCodec, "started") /\ FeedOnlyMoves("dequeue", "fill")

\* No buffer: the frame is dropped, and nothing asked for.
Saturated == Holds(feedCodec, "started") /\ FeedOnlyMoves("dequeue", "poll")

\* The exception is caught, the frame dropped, a keyframe asked for; codec
\* and `configured' stay what they are.
DequeueThrows == ~Holds(feedCodec, "started") /\ FeedOnlyMoves("dequeue", "ask")

\* getInputBuffer() and queueInputBuffer()
FillInput == Holds(feedCodec, "started") /\ FeedOnlyMoves("fill", "poll")

FillThrows == ~Holds(feedCodec, "started") /\ FeedOnlyMoves("fill", "threw")

\* requestKeyframe() returns.
Asked == FeedOnlyMoves("ask", "poll")

Feed ==
  \/ FeedEnds \/ TakesFrame \/ AsksWhenIdle
  \/ Configured \/ ConfigureFails \/ \E k \in Codecs : ConfigureOk(k)
  \/ Publish \/ Lookup
  \/ DequeueInput \/ Saturated \/ DequeueThrows \/ FillInput \/ FillThrows \/ Asked

-----------------------------------------------------------------------------
(* The render thread: renderLoop().                                        *)

RenderMoves(from, to) ==
  /\ render = from /\ render' = to
  /\ UNCHANGED <<fieldVars, codecState, feedVars, surface>>
RenderOnlyMoves(from, to) ==
  RenderMoves(from, to) /\ renderCodec' = IF to = "look" THEN 0 ELSE renderCodec

RenderEnds == ~running /\ RenderOnlyMoves("look", "ended")

SeesCodec ==
  running /\ codec # 0 /\ RenderMoves("look", "dequeue") /\ renderCodec' = codec

\* Nothing ready, or an exception that is caught and only logged.
NoOutput == RenderOnlyMoves("dequeue", "look")

DequeueOutput == Holds(renderCodec, "started") /\ RenderOnlyMoves("dequeue", "out")

\* releaseOutputBuffer(), or outputFormat after a change of the format
ShowOutput == Holds(renderCodec, "started") /\ RenderOnlyMoves("out", "look")

ShowThrows == ~Holds(renderCodec, "started") /\ RenderOnlyMoves("out", "threw")

Render ==
  \/ RenderEnds \/ SeesCodec \/ NoOutput \/ DequeueOutput \/ ShowOutput \/ ShowThrows

CodecFails(k) ==
  /\ codecState[k] = "started" /\ SetCodec(k, "failed")
  /\ UNCHANGED <<fieldVars, feedVars, renderVars, surface>>

-----------------------------------------------------------------------------
VideoThrew == feed = "threw" \/ render = "threw"
VideoEnded == feed = "ended" /\ render = "ended"

VideoNext ==
  /\ ~VideoThrew
  /\ \/ SurfaceCreated \/ SurfaceDestroyed \/ VideoUi \/ Feed \/ Render
     \/ \E k \in Codecs : CodecFails(k)

VideoSpec == VideoInit /\ [][VideoNext]_videoVars

(* The UI thread finishes what it began, and the two threads run: the      *)
(* calls of the codec, and a request for a keyframe, return.  Nothing      *)
(* obliges the system to create or to destroy a surface.                   *)
VideoFair ==
  /\ WF_videoVars(~VideoThrew /\ VideoUi)
  /\ WF_videoVars(~VideoThrew /\ Feed)
  /\ WF_videoVars(~VideoThrew /\ Render)

-----------------------------------------------------------------------------
\* configure() may publish a codec after stop() cleared the field, and
\* stop() reads the field twice; so a codec may be left unreleased when all
\* is over, but never two (VideoPlayer.kt:44-56, 133).
OneCodecLeft ==
  surface = "gone" /\ VideoEnded =>
    Cardinality({k \in Codecs : codecState[k] \notin {"none", "released"}}) <= 1

\* A player makes a second decoder only after stop(): as long as it runs,
\* frames go to the one that shows them (VideoPlayer.kt:68-74).
OneDecoder == running => codecState[2] = "none"

\* The threads of a stopped player end, whatever they were at and whatever
\* stop() does to the codec under them, or they take the app with them:
\* nothing joins them (VideoPlayer.kt:60, 141).
VideoThreadsEnd == surface = "gone" ~> (VideoEnded \/ VideoThrew)
=============================================================================
