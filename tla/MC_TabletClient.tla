-------------------------- MODULE MC_TabletClient --------------------------
(* Two sessions, one player, a one-frame queue and a socket buffer of two  *)
(* chunks: enough for a reconnect, for two threads to write at once, for a *)
(* write to block, and for the queue to be full.                           *)
EXTENDS TabletClient
=============================================================================
