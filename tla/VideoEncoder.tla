---------------------------- MODULE VideoEncoder ----------------------------
(***************************************************************************)
(* The host's encoders behind the Encoder interface (encoder.h): NVENC,    *)
(* QSV, AMF and NullEncoder, the last as a fallback ("null", whose output  *)
(* is never sent) or under --raw ("raw").                                  *)
(*                                                                         *)
(* A picture is what the properties tell apart of it: whether it is an IDR *)
(* picture, the size it was coded at, and whether it shows the frame that  *)
(* was given to Encode().  Every encoder keeps one input texture: staging_ *)
(* in QSV, AMF and NullEncoder, registered_input_ in NVENC.  It is made    *)
(* for the first frame, and a CopyResource() from a texture of another     *)
(* size leaves it as it was.                                               *)
(*                                                                         *)
(* What the drivers do is external: a call may fail, QSV and AMF may hold  *)
(* pictures back, AMF's input may be full, and any picture may be IDR      *)
(* (every 2 s one is).                                                     *)
(***************************************************************************)
EXTENDS Naturals, Sequences

CONSTANTS
  SizeCount,    \* encode sizes: 0 is native, the higher the smaller
  HeldBack,     \* pictures QSV or AMF may hold back
  None          \* no picture, no texture

ASSUME EncoderAssumption == SizeCount \in Nat \ {0} /\ HeldBack \in Nat

EncodeSizes == 0..(SizeCount - 1)
Hardware    == {"nvenc", "qsv", "amf"}
Kinds       == Hardware \cup {"null", "raw"}
Pictures    == [idr : BOOLEAN, size : EncodeSizes, fresh : BOOLEAN]

ASSUME NoneAssumption == None \notin Pictures \cup EncodeSizes

VARIABLES
  kind,
  device,     \* NVENC: device_ is set
  session,    \* "none"; "open": NVENC before Configure(); "configured"
  esize,      \* w_, h_
  keyframe_requested_,
  staging,    \* size of the input texture
  first,      \* no picture was coded in this session
  held        \* pictures accepted and not returned yet

encoderVars ==
  <<kind, device, session, esize, keyframe_requested_, staging, first, held>>

EncoderTypeOK ==
  /\ kind \in Kinds /\ device \in BOOLEAN
  /\ session \in {"none", "open", "configured"}
  /\ esize \in EncodeSizes /\ keyframe_requested_ \in BOOLEAN
  /\ staging \in EncodeSizes \cup {None}
  /\ first \in BOOLEAN
  /\ held \in Seq(Pictures)

\* Start() succeeded.  NVENC only loaded its API.
EncoderInit ==
  /\ kind \in Kinds
  /\ device = FALSE
  /\ session = IF kind = "nvenc" THEN "none" ELSE "configured"
  /\ esize = 0
  /\ keyframe_requested_ = (kind \in Hardware)
  /\ staging = None /\ first = TRUE /\ held = <<>>

RequestKeyframe ==
  /\ keyframe_requested_' = (kind \in Hardware)
  /\ UNCHANGED <<kind, device, session, esize, staging, first, held>>
-----------------------------------------------------------------------------
(* Encode().                                                               *)

\* NVENC opens its session only while device_ is null.
CanEncode ==
  IF kind = "nvenc" THEN session # "none" \/ ~device ELSE session = "configured"

\* The session after an Encode() that got as far as coding.
Opened ==
  /\ device' = (device \/ kind = "nvenc")
  /\ session' = "configured"

Staged(t) == IF staging = None THEN t ELSE staging

\* The picture coded from a frame of size t; some are IDR on their own.
Coded(t, periodic) ==
  [idr |-> kind \in Hardware /\ (keyframe_requested_ \/ first \/ periodic),
   size |-> esize, fresh |-> Staged(t) = t]

\* A full input makes AMF read the oldest picture into a temporary.
Accepting == {held} \cup
  (IF kind = "amf" /\ held # <<>> THEN {Tail(held)} ELSE {})

\* What the encoder has to return once the frame is coded, oldest first.
Lines(t) == {Append(q, Coded(t, p)) : q \in Accepting, p \in BOOLEAN}

\* The frame is converted and coded, behind what is held back.
Codes(t, line) ==
  /\ line \in Lines(t)
  /\ CanEncode /\ Opened
  /\ staging' = Staged(t)
  /\ keyframe_requested_' = FALSE /\ first' = FALSE
  /\ UNCHANGED <<kind, esize>>

\* Encode() returns true with the oldest picture ...
EncodeReturns(t, line) == Codes(t, line) /\ held' = Tail(line)

\* ... or false, although the frame was accepted ...
EncodeHolds(t, line) ==
  /\ kind \in {"qsv", "amf"} /\ Len(line) <= HeldBack
  /\ Codes(t, line) /\ held' = line

\* ... or false, the picture being lost in the driver ...
EncodeLoses(t, line) ==
  /\ kind \in Hardware
  /\ Codes(t, line) /\ held' = Tail(line)

\* ... or false, the frame being rejected with its keyframe request ...
EncodeRejects(t) ==
  /\ kind \in Hardware /\ CanEncode /\ Opened
  /\ staging' = Staged(t) /\ keyframe_requested_' = FALSE
  /\ held' \in Accepting
  /\ UNCHANGED <<kind, esize, first>>

\* ... or false before anything was submitted.
EncodeFailsEarly(t) ==
  /\ IF kind = "nvenc" /\ CanEncode
       THEN /\ device' = TRUE
            /\ session' \in IF device THEN {session, "configured"}
                            ELSE {"none", "open", "configured"}
       ELSE UNCHANGED <<device, session>>
  /\ staging' \in IF session' = "configured" THEN {staging, Staged(t)} ELSE {staging}
  /\ UNCHANGED <<kind, esize, keyframe_requested_, first, held>>

EncodeFails(t) ==
  \/ \E line \in Lines(t) : EncodeHolds(t, line) \/ EncodeLoses(t, line)
  \/ EncodeRejects(t) \/ EncodeFailsEarly(t)
-----------------------------------------------------------------------------
(* Resize(), which is Stop() and Start() in all but NullEncoder.           *)

\* Mutant: what an encoder holds back survives Stop().
StopKeepsHeld ==
  /\ staging' = IF kind \in {"qsv", "amf"} THEN staging ELSE None
  /\ first' = TRUE
  /\ UNCHANGED held

\* NVENC and NullEncoder give the input texture up, QSV and AMF keep it.
Stop ==
  /\ staging' = IF kind \in {"qsv", "amf"} THEN staging ELSE None
  /\ first' = TRUE
  /\ held' = <<>>

ResizeOk(s) ==
  /\ session = "configured" /\ Stop
  /\ esize' = s /\ keyframe_requested_' = (kind \in Hardware)
  /\ session' = IF kind = "nvenc" THEN "none" ELSE "configured"
  /\ UNCHANGED <<kind, device>>

\* Refused with nothing changed, or stopped and not started again.
ResizeFails(s) ==
  \/ session # "configured" /\ UNCHANGED encoderVars
  \/ /\ session = "configured" /\ kind \in Hardware /\ Stop
     /\ esize' = s /\ keyframe_requested_' = TRUE
     /\ session' = "none"
     /\ UNCHANGED <<kind, device>>
=============================================================================
