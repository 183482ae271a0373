---------------------------- MODULE MC_Periphery ----------------------------
(* Two clients, one stopped or replaced and one current, and room for what *)
(* both may have posted.  Two audio decoders, so that one forgotten does   *)
(* not end the sound, and two outputs, a format and a sound.  A queue of   *)
(* two frames that five frames overrun.  A stylus, one whose touch contact *)
(* is the first's, and a finger.                                           *)
EXTENDS Periphery

MCClients  == {1, 2}
MCStyluses == {1, 17}
MCFingers  == {2}
=============================================================================
