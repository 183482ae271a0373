--------------------------- MODULE MC_SwapChains ---------------------------
(* Two monitors, whose calls overlap, and two processors: one for each, or *)
(* both for a monitor that replaces its own.                               *)
EXTENDS SwapChains
=============================================================================
