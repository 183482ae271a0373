------------------------ MODULE AudioCapture_proofs ------------------------
(***************************************************************************)
(* Theorems about AudioCapture, for any length of the queue, of a packet's *)
(* frames and of what the transform holds back: its types, that the queue  *)
(* has the newest sound, that sound stays in order, and that Stop() leaves *)
(* no thread and no event; and one about Resampler: where its phase is     *)
(* defined.                                                                *)
(***************************************************************************)
EXTENDS AudioCapture, Resampler, TLAPS

\* The thread exists once it was started, and has said whether it will go on
\* before Start() returns; its event is closed when it ended, and Stop()
\* returns after it.
Threads ==
  /\ capturer = "none" <=> mainPc = "start"
  /\ ready = "open" <=> capturer \in {"none", "init", "service"}
  /\ mainPc \notin {"start", "starting"} => ready # "open"
  /\ StopSticks
  /\ Joined => event = "null"
  /\ mainPc = "gone" => Joined

\* What the transform holds is between what was sent and what is queued.
HeldInOrder ==
  /\ \A i, j \in 1..Len(held) : i < j => held[i] < held[j]
  /\ \A i \in 1..Len(held) : sent < held[i] /\ held[i] <= captured - acc
  /\ \A i \in 1..Len(held), j \in 1..Len(queued) : held[i] < queued[j]

SentBefore ==
  /\ sent <= captured - acc
  /\ \A j \in 1..Len(queued) : sent < queued[j]

AudioInv ==
  /\ CaptureTypeOK /\ acc <= captured
  /\ Threads /\ FreshSound /\ HeldInOrder /\ SentBefore

-----------------------------------------------------------------------------
(* Sequences of frames.                                                    *)

LEMMA FramesIn ==
  ASSUME NEW S, NEW s \in Seq(S)
  PROVE  Len(s) \in Nat /\ \A i \in 1..Len(s) : s[i] \in S
  OBVIOUS

LEMMA TailFrames ==
  ASSUME NEW S, NEW s \in Seq(S), s # <<>>
  PROVE  /\ Len(s) \in Nat \ {0} /\ Head(s) = s[1] /\ Head(s) \in S
         /\ Tail(s) \in Seq(S) /\ Len(Tail(s)) = Len(s) - 1
         /\ \A i \in 1..(Len(s) - 1) : Tail(s)[i] = s[i + 1]
  OBVIOUS

LEMMA AppendFrames ==
  ASSUME NEW S, NEW s \in Seq(S), NEW e \in S
  PROVE  /\ Append(s, e) \in Seq(S) /\ Len(Append(s, e)) = Len(s) + 1
         /\ \A i \in 1..Len(s) : Append(s, e)[i] = s[i]
         /\ Append(s, e)[Len(s) + 1] = e
  OBVIOUS

\* A sequence without its first n elements.
LEMMA DropFrames ==
  ASSUME NEW S, NEW s \in Seq(S), NEW n \in Nat, n <= Len(s)
  PROVE  /\ SubSeq(s, n + 1, Len(s)) \in Seq(S)
         /\ Len(SubSeq(s, n + 1, Len(s))) = Len(s) - n
         /\ \A i \in 1..(Len(s) - n) : SubSeq(s, n + 1, Len(s))[i] = s[n + i]
<1>1. Len(s) \in Nat /\ s \in [1..Len(s) -> S]
  OBVIOUS
<1> DEFINE d == SubSeq(s, n + 1, Len(s))
<1>2. d = [i \in 1..(Len(s) - n) |-> s[n + i]]
  <2>1. d = [i \in 1..(1 + Len(s) - (n + 1)) |-> s[i + (n + 1) - 1]]
    BY <1>1, SMTT(20)
  <2>2. 1 + Len(s) - (n + 1) = Len(s) - n
    BY <1>1
  <2>3. \A i \in 1..(Len(s) - n) : i + (n + 1) - 1 = n + i
    BY <1>1
  <2> QED
    BY <2>1, <2>2, <2>3
<1>3. \A i \in 1..(Len(s) - n) : s[n + i] \in S
  BY <1>1
<1>4. Len(s) - n \in Nat
  BY <1>1
<1>5. d \in Seq(S) /\ Len(d) = Len(s) - n
  BY <1>2, <1>3, <1>4
<1> QED
  BY <1>2, <1>5

-----------------------------------------------------------------------------
LEMMA CaptureInvInit == CaptureInit => AudioInv
<1> SUFFICES ASSUME CaptureInit PROVE AudioInv
  OBVIOUS
<1>1. queued \in Seq(1..MaxFrames) /\ held \in Seq(1..MaxFrames)
      /\ Len(queued) = 0 /\ Len(held) = 0
  BY DEF CaptureInit
<1>2. CaptureTypeOK
  <2>1. Len(queued) <= MaxQueued /\ Len(held) <= MaxHeld
    BY <1>1, CaptureAssumption
  <2>2. /\ capturing \in BOOLEAN /\ audioOn \in BOOLEAN
        /\ capturer \in CapturerPcs /\ mainPc \in MainPcs
        /\ ready \in {"open", "ok", "failed"} /\ event \in {"null", "open"}
    BY DEF CaptureInit, CapturerPcs, MainPcs
  <2>3. acc \in 0..MaxPacked /\ captured \in 0..MaxFrames /\ sent \in 0..MaxFrames
    BY CaptureAssumption DEF CaptureInit
  <2> QED
    BY <1>1, <2>1, <2>2, <2>3 DEF CaptureTypeOK
<1>3. acc <= captured /\ Threads
  BY DEF CaptureInit, Threads, Joined, StopSticks
<1>4. FreshSound /\ HeldInOrder /\ SentBefore
  BY <1>1 DEF CaptureInit, FreshSound, HeldInOrder, SentBefore
<1> QED
  BY <1>2, <1>3, <1>4 DEF AudioInv

\* The steps of either thread keep Threads.
LEMMA ThreadsStep ==
  ASSUME CaptureTypeOK, Threads, CaptureNext
  PROVE  Threads'
<1> USE DEF Threads, Joined, StopSticks, CaptureTypeOK
<1>1. CASE Capturer
  <2> USE DEF ThreadGoes, ThreadOnlyGoes
  <2>1. CASE InitFails
    BY <2>1 DEF InitFails
  <2>2. CASE CreateEvent
    BY <2>2 DEF CreateEvent
  <2>3. CASE Started
    BY <2>3 DEF Started
  <2>4. CASE Looks \/ Woken \/ TimesOut
    BY <2>4 DEF Looks, Woken, TimesOut
  <2>5. CASE TakesPacket \/ BufferFails \/ PacketsDone
    BY <2>5 DEF TakesPacket, BufferFails, PacketsDone
  <2>6. CASE Emit \/ Emitted
    BY <2>6 DEF Emit, Emitted
  <2>7. CASE CloseByThread
    BY <2>7 DEF CloseByThread
  <2> QED
    BY <1>1, <2>1, <2>2, <2>3, <2>4, <2>5, <2>6, <2>7 DEF Capturer
<1>2. CASE StartThread
  BY <1>2 DEF StartThread, MainGoes
<1>3. CASE StartReturns
  BY <1>3 DEF StartReturns, MainGoes
<1>4. CASE StreamFrame
  <2>1. /\ mainPc = "loop" /\ mainPc' \in {"loop", "stop"}
        /\ UNCHANGED <<capturer, event, ready, capturing>>
    BY <1>4 DEF StreamFrame, MainGoes
  <2> QED
    BY <2>1
<1>5. CASE LoopEnds
  BY <1>5 DEF LoopEnds, MainOnlyGoes, MainGoes
<1>6. CASE MainStops
  BY <1>6 DEF MainStops, StopSees, WakeThread, JoinOnly, JoinAndClose, MainOnlyGoes, MainGoes
<1> QED
  BY <1>1, <1>2, <1>3, <1>4, <1>5, <1>6, CaptureAssumption DEF CaptureNext

\* A step that leaves the sound alone.
Soundless == UNCHANGED <<acc, captured, queued, held, sent>>

LEMMA SoundlessSteps ==
  ASSUME CaptureNext
  PROVE  Soundless \/ TakesPacket \/ Emit \/ StreamFrame
<1> USE DEF Soundless, threadVars, encoderVars
<1>1. CASE Capturer
  BY <1>1 DEF Capturer, ThreadGoes, ThreadOnlyGoes, InitFails, CreateEvent, Started, Looks,
     Woken, TimesOut, BufferFails, PacketsDone, Emitted, CloseByThread
<1>2. CASE StartThread \/ StartReturns \/ LoopEnds \/ MainStops
  BY <1>2 DEF StartThread, StartReturns, LoopEnds, MainStops, StopSees, WakeThread, JoinOnly,
     JoinAndClose, MainGoes, MainOnlyGoes
<1> QED
  BY <1>1, <1>2 DEF CaptureNext

-----------------------------------------------------------------------------
\* What the encoder's step starts from: the frames it holds and the one popped.
LEMMA Popped ==
  ASSUME AudioInv, NEW f \in 1..MaxFrames, PopFrame(f), UNCHANGED <<acc, captured>>
  PROVE  /\ queued' \in Seq(1..MaxFrames) /\ Len(queued') <= MaxQueued
         /\ FreshSound' /\ sent < f /\ f <= captured - acc
         /\ \A i \in 1..Len(held) : held[i] < f
         /\ \A j \in 1..Len(queued') : f < queued'[j]
<1> DEFINE q == queued'
<1>1. /\ queued \in Seq(1..MaxFrames) /\ queued # <<>> /\ f = Head(queued)
      /\ q = Tail(queued) /\ Len(queued) <= MaxQueued
  BY DEF PopFrame, AudioInv, CaptureTypeOK
<1>2. /\ Len(queued) \in Nat \ {0} /\ f = queued[1] /\ q \in Seq(1..MaxFrames)
      /\ Len(q) = Len(queued) - 1 /\ \A i \in 1..Len(q) : q[i] = queued[i + 1]
  <2>1. q \in Seq(1..MaxFrames) /\ Len(q) = Len(queued) - 1
    BY <1>1, TailFrames
  <2> QED
    BY <1>1, <2>1, TailFrames
<1>3. captured \in Nat /\ acc \in Nat /\ sent \in Nat
  BY CaptureAssumption DEF AudioInv, CaptureTypeOK
<1> HIDE DEF q
<1>4. \A i \in 1..Len(queued) : queued[i] = captured - acc - Len(queued) + i
  BY DEF AudioInv, FreshSound
<1>5. \A i \in 1..Len(q) : q[i] = captured - acc - Len(q) + i
  BY <1>2, <1>3, <1>4
<1>6. FreshSound'
  BY <1>5 DEF FreshSound, q
<1>7. 1 \in 1..Len(queued) /\ f = captured - acc - Len(queued) + 1
  BY <1>2, <1>4
<1>8. f <= captured - acc /\ \A j \in 1..Len(q) : f < q[j]
  BY <1>2, <1>3, <1>5, <1>7
<1>9. sent < f
  BY <1>2, <1>7 DEF AudioInv, SentBefore
<1>10. \A i \in 1..Len(held) : held[i] < f
  BY <1>2, <1>7 DEF AudioInv, HeldInOrder
<1>11. Len(q) <= MaxQueued
  BY <1>1, <1>2, CaptureAssumption
<1> QED
  BY <1>2, <1>6, <1>8, <1>9, <1>10, <1>11 DEF q

\* Dropping n of these frames, or sending them, keeps the order.
LEMMA HeldAfter ==
  ASSUME AudioInv, NEW f \in 1..MaxFrames, PopFrame(f), UNCHANGED <<acc, captured>>,
         NEW n \in Nat, n <= Len(held) + 1, Len(held) + 1 - n <= MaxHeld,
         EncodeLoses(f, n) \/ EncodeSends(f, n)
  PROVE  /\ held' \in Seq(1..MaxFrames) /\ Len(held') <= MaxHeld
         /\ sent' \in 0..MaxFrames
         /\ HeldInOrder' /\ SentBefore'
<1> DEFINE s == Append(held, f)
           h == held'
           q == queued'
<1>1. held \in Seq(1..MaxFrames) /\ Len(held) \in Nat /\ sent \in 0..MaxFrames
      /\ captured \in Nat /\ acc \in Nat
  BY CaptureAssumption DEF AudioInv, CaptureTypeOK
<1>2. /\ s \in Seq(1..MaxFrames) /\ Len(s) = Len(held) + 1
      /\ \A i \in 1..Len(held) : s[i] = held[i]
      /\ s[Len(held) + 1] = f
  BY <1>1, AppendFrames
<1>3. /\ sent < f /\ f <= captured - acc /\ \A i \in 1..Len(held) : held[i] < f
      /\ \A j \in 1..Len(q) : f < q[j]
      /\ q \in Seq(1..MaxFrames)
  BY Popped
<1>4. h = SubSeq(s, n + 1, Len(s))
  BY <1>2 DEF EncodeLoses, EncodeSends
<1>5. sent' = sent \/ (n # 0 /\ sent' = s[n])
  BY DEF EncodeLoses, EncodeSends
<1> HIDE DEF s, h, q
<1>6. \A i \in 1..Len(s) : s[i] \in 1..MaxFrames
  BY <1>2, FramesIn
<1>7. \A i, j \in 1..Len(s) : i < j => s[i] < s[j]
  BY <1>1, <1>2, <1>3 DEF AudioInv, HeldInOrder
<1>8. \A i \in 1..Len(s) : sent < s[i] /\ s[i] <= captured - acc /\ s[i] <= f
  <2>1. \A i \in 1..Len(held) : sent < s[i] /\ s[i] <= captured - acc /\ s[i] < f
    BY <1>2, <1>3 DEF AudioInv, HeldInOrder
  <2>2. \A i \in 1..Len(s) : i \in 1..Len(held) \/ i = Len(held) + 1
    BY <1>1, <1>2
  <2>3. f \in Nat
    BY CaptureAssumption
  <2> QED
    BY <1>2, <1>3, <1>6, <2>1, <2>2, <2>3, CaptureAssumption
<1>9. \A i \in 1..Len(s), j \in 1..Len(q) : s[i] < q[j]
  BY <1>3, <1>6, <1>8, CaptureAssumption
<1>10. /\ h \in Seq(1..MaxFrames) /\ Len(h) = Len(s) - n
       /\ \A i \in 1..(Len(s) - n) : h[i] = s[n + i]
  BY <1>1, <1>2, <1>4, DropFrames
<1>11. \A i \in 1..Len(h) : n + i \in 1..Len(s) /\ h[i] = s[n + i]
  BY <1>1, <1>2, <1>10
<1>12. \A i, j \in 1..Len(h) : i < j => h[i] < h[j]
  <2> SUFFICES ASSUME NEW i \in 1..Len(h), NEW j \in 1..Len(h), i < j
               PROVE  h[i] < h[j]
    OBVIOUS
  <2>1. n + i < n + j
    OBVIOUS
  <2> QED
    BY <1>7, <1>11, <2>1
<1>13. \A i \in 1..Len(h) : sent' < h[i] /\ h[i] <= captured - acc
  <2> SUFFICES ASSUME NEW i \in 1..Len(h)
               PROVE  sent' < h[i] /\ h[i] <= captured - acc
    OBVIOUS
  <2>1. n + i \in 1..Len(s) /\ h[i] = s[n + i] /\ h[i] <= captured - acc
    BY <1>8, <1>11
  <2>2. CASE sent' = sent
    BY <1>8, <2>1, <2>2
  <2>3. CASE n # 0 /\ sent' = s[n]
    <3>1. n \in 1..Len(s) /\ n < n + i
      BY <1>1, <1>2, <2>3
    <3> QED
      BY <1>7, <2>1, <2>3, <3>1
  <2> QED
    BY <1>5, <2>1, <2>2, <2>3
<1>14. \A i \in 1..Len(h), j \in 1..Len(q) : h[i] < q[j]
  BY <1>9, <1>11
<1>15. HeldInOrder'
  BY <1>12, <1>13, <1>14 DEF HeldInOrder, h, q
<1>16. sent' \in 0..MaxFrames /\ sent' <= captured - acc /\ \A j \in 1..Len(q) : sent' < q[j]
  <2>1. CASE sent' = sent
    <3>1. sent < f /\ \A j \in 1..Len(q) : f < q[j] /\ q[j] \in Nat
      BY <1>3, CaptureAssumption
    <3> QED
      BY <1>1, <2>1, <3>1, CaptureAssumption DEF AudioInv, SentBefore
  <2>2. CASE n # 0 /\ sent' = s[n]
    <3>1. n \in 1..Len(s)
      BY <1>1, <1>2, <2>2
    <3> QED
      BY <1>6, <1>8, <1>9, <2>2, <3>1, CaptureAssumption
  <2> QED
    BY <1>5, <2>1, <2>2
<1>17. SentBefore'
  BY <1>16 DEF SentBefore, q
<1> QED
  BY <1>1, <1>2, <1>10, <1>15, <1>16, <1>17 DEF h

-----------------------------------------------------------------------------
LEMMA TypesStep ==
  ASSUME AudioInv, CaptureNext
  PROVE  /\ capturing' \in BOOLEAN /\ audioOn' \in BOOLEAN
         /\ capturer' \in CapturerPcs /\ mainPc' \in MainPcs
         /\ ready' \in {"open", "ok", "failed"} /\ event' \in {"null", "open"}
<1>0. /\ capturing \in BOOLEAN /\ audioOn \in BOOLEAN
      /\ capturer \in CapturerPcs /\ mainPc \in MainPcs
      /\ ready \in {"open", "ok", "failed"} /\ event \in {"null", "open"}
  BY DEF AudioInv, CaptureTypeOK
<1> USE DEF CapturerPcs, MainPcs
<1>1. CASE Capturer
  <2> USE DEF ThreadGoes, ThreadOnlyGoes
  <2>1. CASE InitFails \/ CreateEvent \/ Started
    BY <1>0, <2>1 DEF InitFails, CreateEvent, Started
  <2>2. CASE Looks \/ Woken \/ TimesOut
    BY <1>0, <2>2 DEF Looks, Woken, TimesOut
  <2>3. CASE TakesPacket \/ BufferFails \/ PacketsDone
    BY <1>0, <2>3 DEF TakesPacket, BufferFails, PacketsDone
  <2>4. CASE Emit \/ Emitted \/ CloseByThread
    BY <1>0, <2>4 DEF Emit, Emitted, CloseByThread
  <2> QED
    BY <1>1, <2>1, <2>2, <2>3, <2>4 DEF Capturer
<1>2. CASE StartThread \/ LoopEnds \/ MainStops
  BY <1>0, <1>2 DEF StartThread, LoopEnds, MainStops, StopSees, WakeThread, JoinOnly,
     JoinAndClose, MainGoes, MainOnlyGoes
<1>3. CASE StartReturns
  BY <1>0, <1>3 DEF StartReturns, AacInit, MainGoes
<1>4. CASE StreamFrame
  <2>1. mainPc' \in {"loop", "stop"} /\ UNCHANGED <<capturing, capturer, event, audioOn, ready>>
    BY <1>4 DEF StreamFrame, MainGoes
  <2> QED
    BY <1>0, <2>1
<1> QED
  BY <1>1, <1>2, <1>3, <1>4 DEF CaptureNext

\* What the steps of the sound have to show.
SoundInv ==
  /\ acc \in 0..MaxPacked /\ captured \in 0..MaxFrames /\ acc <= captured
  /\ queued \in Seq(1..MaxFrames) /\ Len(queued) <= MaxQueued
  /\ held \in Seq(1..MaxFrames) /\ Len(held) <= MaxHeld
  /\ sent \in 0..MaxFrames
  /\ FreshSound /\ HeldInOrder /\ SentBefore

LEMMA InvHasSound == AudioInv => SoundInv
  BY DEF AudioInv, SoundInv, CaptureTypeOK

LEMMA SoundlessKeeps ==
  ASSUME SoundInv, Soundless
  PROVE  SoundInv'
  BY DEF SoundInv, Soundless, FreshSound, HeldInOrder, SentBefore

\* A packet adds to what was captured and to what was not emitted alike.
LEMMA TakesPacketKeeps ==
  ASSUME SoundInv, TakesPacket
  PROVE  SoundInv'
<1>1. /\ acc' = acc + 1 /\ captured' = captured + 1 /\ acc < MaxPacked
      /\ captured < MaxFrames /\ UNCHANGED <<queued, held, sent>>
  BY DEF TakesPacket, ThreadGoes, encoderVars
<1>2. acc \in 0..MaxPacked /\ captured \in 0..MaxFrames /\ acc <= captured
  BY DEF SoundInv
<1>3. /\ captured' - acc' = captured - acc /\ acc' \in 0..MaxPacked
      /\ captured' \in 0..MaxFrames /\ acc' <= captured'
  BY <1>1, <1>2, CaptureAssumption
<1>4. FreshSound' /\ HeldInOrder' /\ SentBefore'
  BY <1>1, <1>3 DEF SoundInv, FreshSound, HeldInOrder, SentBefore
<1> QED
  BY <1>1, <1>3, <1>4 DEF SoundInv

LEMMA EmitKeeps ==
  ASSUME SoundInv, Emit
  PROVE  SoundInv'
<1> DEFINE e == captured - acc + 1
           p == IF Len(queued) < MaxQueued THEN queued ELSE Tail(queued)
           q == queued'
<1>1. /\ acc > 0 /\ acc' = acc - 1 /\ q = Append(p, e)
      /\ UNCHANGED <<captured, held, sent>>
  BY DEF Emit, ThreadGoes, encoderVars
<1>2. /\ acc \in Nat /\ acc <= MaxPacked /\ captured \in Nat /\ captured <= MaxFrames
      /\ acc <= captured /\ MaxFrames \in Nat /\ MaxQueued \in Nat \ {0}
      /\ MaxPacked \in Nat /\ sent \in Nat
  BY CaptureAssumption DEF SoundInv
<1>3. queued \in Seq(1..MaxFrames) /\ Len(queued) \in Nat /\ Len(queued) <= MaxQueued
  BY FramesIn DEF SoundInv
<1>4. /\ e \in 1..MaxFrames /\ captured - acc' = e /\ acc' \in 0..MaxPacked
      /\ acc' <= captured
  BY <1>1, <1>2
<1>5. \A i \in 1..Len(queued) : queued[i] = captured - acc - Len(queued) + i
  BY DEF SoundInv, FreshSound
<1>6. /\ p \in Seq(1..MaxFrames) /\ Len(p) \in Nat /\ Len(p) < MaxQueued
      /\ \A i \in 1..Len(p) : p[i] = captured - acc - Len(p) + i
  <2>1. CASE Len(queued) < MaxQueued
    BY <1>3, <1>5, <2>1
  <2>2. CASE ~(Len(queued) < MaxQueued)
    <3>1. p = Tail(queued) /\ queued # <<>>
      BY <1>2, <1>3, <2>2
    <3>2. /\ p \in Seq(1..MaxFrames) /\ Len(p) = Len(queued) - 1
          /\ \A i \in 1..(Len(queued) - 1) : p[i] = queued[i + 1]
      BY <1>3, <3>1, TailFrames
    <3> HIDE DEF p
    <3>3. \A i \in 1..Len(p) : i + 1 \in 1..Len(queued) /\ p[i] = queued[i + 1]
      BY <1>3, <3>2
    <3>4. Len(p) \in Nat /\ Len(p) < MaxQueued
      BY <1>2, <1>3, <2>2, <3>2
    <3> QED
      BY <1>2, <1>3, <1>5, <3>2, <3>3, <3>4
  <2> QED
    BY <2>1, <2>2
<1> HIDE DEF p, q, e
<1>7. /\ q \in Seq(1..MaxFrames) /\ Len(q) = Len(p) + 1
      /\ \A i \in 1..Len(p) : q[i] = p[i]
      /\ q[Len(p) + 1] = e
  BY <1>1, <1>4, <1>6, AppendFrames
<1>8. \A i \in 1..Len(q) : i \in 1..Len(p) \/ i = Len(p) + 1
  BY <1>6, <1>7
<1>9. \A i \in 1..Len(q) : q[i] = captured - acc' - Len(q) + i
  BY <1>1, <1>2, <1>4, <1>6, <1>7, <1>8
<1>10. FreshSound'
  BY <1>1, <1>9 DEF FreshSound, q
\* What is left in the queue was there, and e is above everything.
<1>11. \A i \in 1..Len(q) : q[i] = e \/ \E k \in 1..Len(queued) : q[i] = queued[k]
  <2> SUFFICES ASSUME NEW i \in 1..Len(p)
               PROVE  \E k \in 1..Len(queued) : p[i] = queued[k]
    BY <1>7, <1>8
  <2>1. CASE Len(queued) < MaxQueued
    BY <2>1 DEF p
  <2>2. CASE ~(Len(queued) < MaxQueued)
    <3>1. p = Tail(queued) /\ queued # <<>>
      BY <1>2, <1>3, <2>2 DEF p
    <3>2. Len(p) = Len(queued) - 1 /\ \A k \in 1..(Len(queued) - 1) : p[k] = queued[k + 1]
      BY <1>3, <3>1, TailFrames
    <3> QED
      BY <1>3, <3>2
  <2> QED
    BY <2>1, <2>2
<1>12. HeldInOrder'
  <2>1. \A i \in 1..Len(held) : held[i] < e /\ held[i] <= e
    <3>1. \A i \in 1..Len(held) : held[i] \in 1..MaxFrames /\ held[i] <= captured - acc
      BY FramesIn DEF SoundInv, HeldInOrder
    <3> QED
      BY <1>2, <3>1 DEF e
  <2>2. \A i \in 1..Len(held), j \in 1..Len(q) : held[i] < q[j]
    BY <1>11, <2>1 DEF SoundInv, HeldInOrder
  <2> QED
    BY <1>1, <1>4, <2>1, <2>2 DEF SoundInv, HeldInOrder, q
<1>13. SentBefore'
  <2>1. sent < e /\ sent <= e
    BY <1>2 DEF SoundInv, SentBefore, e
  <2>2. \A j \in 1..Len(q) : sent < q[j]
    BY <1>11, <2>1 DEF SoundInv, SentBefore
  <2> QED
    BY <1>1, <1>4, <2>1, <2>2 DEF SentBefore, q
<1>14. Len(q) <= MaxQueued
  BY <1>2, <1>6, <1>7
<1>15. /\ captured' \in 0..MaxFrames /\ acc' <= captured'
       /\ held' \in Seq(1..MaxFrames) /\ Len(held') <= MaxHeld /\ sent' \in 0..MaxFrames
  BY <1>1, <1>4 DEF SoundInv
<1> QED
  BY <1>4, <1>7, <1>10, <1>12, <1>13, <1>14, <1>15 DEF SoundInv, q

LEMMA StreamFrameKeeps ==
  ASSUME AudioInv, StreamFrame
  PROVE  SoundInv'
<1>1. UNCHANGED <<acc, captured>>
  BY DEF StreamFrame, MainGoes
<1>2. PICK f \in 1..MaxFrames, n \in 0..(MaxHeld + 1) :
        /\ n <= Len(held) + 1 /\ Len(held) + 1 - n <= MaxHeld
        /\ PopFrame(f)
        /\ EncodeRefuses(f) \/ EncodeLoses(f, n) \/ EncodeSends(f, n)
  BY DEF StreamFrame
<1>3. SoundInv
  BY InvHasSound
<1>4. /\ queued' \in Seq(1..MaxFrames) /\ Len(queued') <= MaxQueued
      /\ FreshSound' /\ sent < f
      /\ \A i \in 1..Len(held) : held[i] < f
      /\ \A j \in 1..Len(queued') : f < queued'[j]
  BY <1>1, <1>2, Popped
<1>5. /\ held' \in Seq(1..MaxFrames) /\ Len(held') <= MaxHeld
      /\ sent' \in 0..MaxFrames /\ HeldInOrder' /\ SentBefore'
  <2>1. CASE EncodeRefuses(f)
    <3>1. UNCHANGED <<held, sent>>
      BY <2>1 DEF EncodeRefuses, encoderVars
    <3>2. \A j \in 1..Len(queued') : queued'[j] \in Nat
      BY <1>4, FramesIn, CaptureAssumption
    <3>3. /\ \A j \in 1..Len(queued') : sent < queued'[j]
          /\ \A i \in 1..Len(held), j \in 1..Len(queued') : held[i] < queued'[j]
      <4>1. \A i \in 1..Len(held) : held[i] \in Nat
        BY <1>3, FramesIn, CaptureAssumption DEF SoundInv
      <4>2. sent \in Nat /\ f \in Nat
        BY <1>3, CaptureAssumption DEF SoundInv
      <4> QED
        BY <1>4, <3>2, <4>1, <4>2
    <3> QED
      BY <1>1, <1>3, <3>1, <3>3 DEF SoundInv, HeldInOrder, SentBefore
  <2>2. CASE EncodeLoses(f, n) \/ EncodeSends(f, n)
    <3>1. n \in Nat
      BY CaptureAssumption
    <3> QED
      BY <1>1, <1>2, <2>2, <3>1, HeldAfter
  <2> QED
    BY <1>2, <2>1, <2>2
<1> QED
  BY <1>1, <1>3, <1>4, <1>5 DEF SoundInv

-----------------------------------------------------------------------------
LEMMA CaptureInvStep == AudioInv /\ [CaptureNext]_captureVars => AudioInv'
<1> SUFFICES ASSUME AudioInv, [CaptureNext]_captureVars PROVE AudioInv'
  OBVIOUS
<1>1. CASE CaptureNext
  <2>1. SoundInv'
    <3>1. SoundInv
      BY InvHasSound
    <3> QED
      BY <1>1, <3>1, SoundlessSteps, SoundlessKeeps, TakesPacketKeeps, EmitKeeps,
         StreamFrameKeeps
  <2>2. Threads'
    BY <1>1, ThreadsStep DEF AudioInv
  <2> QED
    BY <1>1, <2>1, <2>2, TypesStep DEF AudioInv, SoundInv, CaptureTypeOK
<1>2. CASE UNCHANGED captureVars
  BY <1>2 DEF AudioInv, CaptureTypeOK, Threads, Joined, StopSticks, FreshSound, HeldInOrder, SentBefore,
     captureVars, threadVars, encoderVars
<1> QED
  BY <1>1, <1>2

LEMMA CaptureInvHolds == CaptureSpec => []AudioInv
<1> QED
  BY CaptureInvInit, CaptureInvStep, PTL DEF CaptureSpec

\* The order of the three parts is the order of the whole.
LEMMA WayInOrder == AudioInv => SoundInOrder
<1> SUFFICES ASSUME AudioInv PROVE SoundInOrder
  OBVIOUS
<1>1. /\ held \in Seq(1..MaxFrames) /\ queued \in Seq(1..MaxFrames) /\ sent \in 0..MaxFrames
      /\ Len(held) \in Nat /\ Len(queued) \in Nat
  BY FramesIn DEF AudioInv, CaptureTypeOK
<1> DEFINE way == <<sent>> \o held \o queued
           m == Len(held)
           k == Len(queued)
<1>2. Len(way) = 1 + m + k /\ way[1] = sent
  BY <1>1
<1>3. \A i \in 2..(1 + m) : way[i] = held[i - 1]
  BY <1>1
<1>4. \A i \in (2 + m)..(1 + m + k) : way[i] = queued[i - 1 - m]
  BY <1>1
<1>5. SUFFICES ASSUME NEW i \in 1..Len(way), NEW j \in 1..Len(way), i < j
               PROVE  way[i] < way[j]
  BY DEF SoundInOrder
<1> HIDE DEF way
<1>6. \A a, b \in 1..k : a < b => queued[a] < queued[b]
  <2>1. captured \in Nat /\ acc \in Nat
    BY CaptureAssumption DEF AudioInv, CaptureTypeOK
  <2> QED
    BY <1>1, <2>1 DEF AudioInv, FreshSound
<1>7. CASE i = 1
  <2>1. CASE j \in 2..(1 + m)
    <3>1. j - 1 \in 1..m
      BY <1>1, <2>1
    <3> QED
      BY <1>2, <1>3, <1>7, <2>1, <3>1 DEF AudioInv, HeldInOrder
  <2>2. CASE j \in (2 + m)..(1 + m + k)
    <3>1. j - 1 - m \in 1..k
      BY <1>1, <2>2
    <3> QED
      BY <1>2, <1>4, <1>7, <2>2, <3>1 DEF AudioInv, SentBefore
  <2> QED
    BY <1>1, <1>2, <1>5, <1>7, <2>1, <2>2
<1>8. CASE i \in 2..(1 + m)
  <2>0. i - 1 \in 1..m /\ way[i] = held[i - 1]
    BY <1>1, <1>3, <1>8
  <2>1. CASE j \in 2..(1 + m)
    <3>1. j - 1 \in 1..m /\ way[j] = held[j - 1] /\ i - 1 < j - 1
      BY <1>1, <1>3, <1>5, <2>1
    <3> QED
      BY <2>0, <3>1 DEF AudioInv, HeldInOrder
  <2>2. CASE j \in (2 + m)..(1 + m + k)
    <3>1. j - 1 - m \in 1..k /\ way[j] = queued[j - 1 - m]
      BY <1>1, <1>4, <2>2
    <3> QED
      BY <2>0, <3>1 DEF AudioInv, HeldInOrder
  <2> QED
    BY <1>1, <1>2, <1>5, <1>8, <2>1, <2>2
<1>9. CASE i \in (2 + m)..(1 + m + k)
  <2>1. j \in (2 + m)..(1 + m + k) /\ i - 1 - m < j - 1 - m
    BY <1>1, <1>2, <1>5, <1>9
  <2>2. /\ i - 1 - m \in 1..k /\ way[i] = queued[i - 1 - m]
        /\ j - 1 - m \in 1..k /\ way[j] = queued[j - 1 - m]
    BY <1>1, <1>4, <1>9, <2>1
  <2> QED
    BY <1>6, <2>1, <2>2
<1> QED
  BY <1>1, <1>2, <1>5, <1>7, <1>8, <1>9

-----------------------------------------------------------------------------
\* Both threads, the queue, the transform and the event keep their types, and
\* the queue its length (capture.cpp:309-315), for any bound.
THEOREM CaptureTypes == CaptureSpec => []CaptureTypeOK
<1>1. AudioInv => CaptureTypeOK
  BY DEF AudioInv
<1> QED
  BY <1>1, CaptureInvHolds, PTL

\* The queue holds the newest sound emitted, without a gap, whatever its
\* length and however many frames a packet brings (capture.cpp:309-315).
THEOREM FreshSoundHolds == CaptureSpec => []FreshSound
<1>1. AudioInv => FreshSound
  BY DEF AudioInv
<1> QED
  BY <1>1, CaptureInvHolds, PTL

\* Sound stays in order, whatever is dropped from the queue, refused or held
\* back by the transform, or lost with a send (capture.cpp:158-164,
\* main.cpp:361-380).
THEOREM SoundInOrderHolds == CaptureSpec => []SoundInOrder
<1> QED
  BY WayInOrder, CaptureInvHolds, PTL

\* When Stop() has returned no capture thread runs and the event is closed,
\* however it met the thread (capture.cpp:141-156).
THEOREM StoppedSilentHolds == CaptureSpec => []StoppedSilent
<1>1. AudioInv => StoppedSilent
  BY DEF AudioInv, Threads, StoppedSilent
<1> QED
  BY <1>1, CaptureInvHolds, PTL

\* The thread does not set running_ again once Stop() has taken it back
\* (capture.cpp:133, 146, 259-260).
THEOREM StopSticksHolds == CaptureSpec => []StopSticks
<1>1. AudioInv => StopSticks
  BY DEF AudioInv, Threads
<1> QED
  BY <1>1, CaptureInvHolds, PTL

-----------------------------------------------------------------------------
\* The resampler.

\* What \div returns, for a negative dividend as well.
LEMMA DivBounds ==
  ASSUME NEW a \in Int, NEW b \in Nat \ {0}
  PROVE  /\ a \div b \in Int
         /\ b * (a \div b) <= a
         /\ a < b * ((a \div b) + 1)
  OBVIOUS

\* So much of the packet is passed.
LEMMA CeilingReaches ==
  ASSUME NEW a \in Int, NEW b \in Nat \ {0}
  PROVE  CeilingDiv(a, b) \in Int /\ CeilingDiv(a, b) * b >= a
<1> DEFINE q == (-a) \div b
<1>1. q \in Int /\ b * q <= -a
  BY DivBounds
<1> HIDE DEF q
<1>2. (-q) * b = -(b * q)
  BY <1>1
<1> QED
  BY <1>1, <1>2 DEF CeilingDiv, q

\* A multiple of b that reaches a is no less than the rounded quotient.
LEMMA CeilingFits ==
  ASSUME NEW a \in Int, NEW b \in Nat \ {0}, NEW k \in Nat, a <= k * b
  PROVE  CeilingDiv(a, b) <= k
<1> DEFINE q == (-a) \div b
<1>1. q \in Int /\ -a < b * (q + 1)
  BY DivBounds
<1> HIDE DEF q
<1>2. SUFFICES ASSUME q + 1 <= -k PROVE FALSE
  BY <1>1 DEF CeilingDiv, q
<1>3. b * (q + 1) <= b * (-k)
  BY <1>1, <1>2
<1>4. b * (-k) = -(k * b)
  OBVIOUS
<1> QED
  BY <1>1, <1>3, <1>4

\* Max and Min of two numbers.
LEMMA TwoOf ==
  ASSUME NEW a \in Int, NEW b \in Int
  PROVE  /\ Max({a, b}) = IF a >= b THEN a ELSE b
         /\ Min({a, b}) = IF a <= b THEN a ELSE b
<1>1. Max({a, b}) \in {a, b} /\ \A n \in {a, b} : Max({a, b}) >= n
  BY DEF Max
<1>2. Min({a, b}) \in {a, b} /\ \A n \in {a, b} : Min({a, b}) <= n
  BY DEF Min
<1> QED
  BY <1>1, <1>2

\* Process() reads from phase_ converted to size_t, which C++ leaves undefined
\* for a negative one (capture.cpp:85-97).
PhaseDefined == phase >= 0

\* At a rate not above the target rtmp has room for as many frames as came in.
LEMMA RoomEnough ==
  ASSUME NEW frames \in Nat, Source \in Nat \ {0}, Target \in Nat, Source <= Target
  PROVE  Room(frames) \in Nat /\ frames <= Room(frames)
<1> DEFINE q == (frames * Target) \div Source
<1>1. q \in Int /\ frames * Target \in Int /\ frames * Target < Source * (q + 1)
  BY DivBounds
<1> HIDE DEF q
<1>2. frames * Source <= frames * Target
  OBVIOUS
<1>3. frames < q + 1
  <2> SUFFICES ASSUME q + 1 <= frames PROVE FALSE
    BY <1>1
  <2>1. Source * (q + 1) <= Source * frames
    BY <1>1
  <2> QED
    BY <1>1, <1>2, <2>1
<1> QED
  BY <1>1, <1>3 DEF Room, q

\* Then phase_ passes the packet: what is left of it is not negative.
LEMMA PacketKeeps ==
  ASSUME Source \in Nat \ {0}, Target \in Nat, Source <= Target,
         phase \in Nat, NEW frames \in Nat, Packet(frames)
  PROVE  phase' \in Nat
<1>1. CASE Source = Target
  BY <1>1 DEF Packet
<1>2. CASE Source # Target
  <2> DEFINE F == frames * Frame
             R == Ratio
             c == CeilingDiv(F - phase, R)
             n == Written(frames)
  <2>1. Frame \in Nat /\ F \in Nat /\ R \in Nat \ {0} /\ Frame <= R
    <3>1. Target \in Nat \ {0}
      OBVIOUS
    <3>2. Source * Target <= Target * Target /\ Source * Target \in Nat /\ Target * Target \in Nat \ {0}
      BY <3>1
    <3> QED
      BY <3>2 DEF Frame, Ratio
  <2>2. F <= frames * R
    BY <2>1
  <2> HIDE DEF F, R
  <2>3. c \in Int /\ c * R >= F - phase /\ c <= frames
    <3>1. F - phase \in Int /\ F - phase <= frames * R
      BY <2>1, <2>2
    <3> QED
      BY <2>1, <3>1, CeilingReaches, CeilingFits
  <2> HIDE DEF c
  <2>4. n = IF 0 >= c THEN 0 ELSE c
    <3>1. Max({0, c}) = IF 0 >= c THEN 0 ELSE c
      BY <2>3, TwoOf
    <3>2. Max({0, c}) \in Int /\ Max({0, c}) <= Room(frames) /\ Room(frames) \in Int
      BY <2>3, <3>1, RoomEnough
    <3>3. n = Min({Max({0, c}), Room(frames)})
      BY DEF Written, c, F, R
    <3> QED
      BY <3>1, <3>2, <3>3, TwoOf
  <2> HIDE DEF n
  <2>5. n \in Int /\ n * R >= F - phase /\ n * R \in Int
    BY <2>1, <2>3, <2>4
  <2>6. phase' = phase + n * R - F
    BY <1>2 DEF Packet, n, F, R
  <2> QED
    BY <2>1, <2>5, <2>6
<1> QED
  BY <1>1, <1>2

\* The resampler never converts a negative phase when the endpoint's rate is not
\* above the target (capture.cpp:85-97, 262), whatever the packets: their end,
\* not the end of rtmp, ends the loop.
THEOREM PhaseDefinedHolds ==
  ASSUME Source \in Nat \ {0}, Target \in Nat, Source <= Target, PacketSizes \subseteq Nat
  PROVE  ResamplerSpec => []PhaseDefined
<1>1. ResamplerInit => phase \in Nat
  BY DEF ResamplerInit
<1>2. phase \in Nat /\ [ResamplerNext]_resamplerVars => (phase \in Nat)'
  BY PacketKeeps DEF ResamplerNext, resamplerVars
<1>3. phase \in Nat => PhaseDefined
  BY DEF PhaseDefined
<1> QED
  BY <1>1, <1>2, <1>3, PTL DEF ResamplerSpec
=============================================================================
