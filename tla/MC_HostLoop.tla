---------------------------- MODULE MC_HostLoop ----------------------------
(***************************************************************************)
(* Three sizes: native, one the loop can step down from and up from, and   *)
(* the smallest.  Two congested frames step down and three clear ones up,  *)
(* so the two thresholds differ and neither is met by a single frame.  One *)
(* picture held back outlives the Encode() that submitted it.              *)
(***************************************************************************)
EXTENDS HostLoop
=============================================================================
