--------------------------- MODULE ScreenCapture ---------------------------
(***************************************************************************)
(* Desktop duplication on the host (capture.cpp): the IDXGIOutputDuplication *)
(* that Capture() reads, the session it belongs to, and what happens to it *)
(* when the display mode changes or the desktop is locked.                 *)
(*                                                                         *)
(* The clock is left out: `cooling' says that next_reacquire_ is in the    *)
(* future.  That GetTickCount() wraps after 49.7 days is not modelled.     *)
(***************************************************************************)

VARIABLES
  dup,        \* dup_: null, usable, or usable until AcquireNextFrame fails
  desktop,    \* the session's desktop
  cooling     \* now < next_reacquire_

captureVars == <<dup, desktop, cooling>>

CaptureTypeOK ==
  /\ dup \in {"null", "valid", "lost"}
  /\ desktop \in {"open", "locked"}
  /\ cooling \in BOOLEAN

\* Start() succeeded, or there would be no host.
CaptureInit == dup = "valid" /\ desktop = "open" /\ cooling = FALSE

LoseAccess == dup' = IF dup = "valid" THEN "lost" ELSE dup

ModeChange ==
  /\ desktop = "open"
  /\ LoseAccess
  /\ UNCHANGED <<desktop, cooling>>

Lock ==
  /\ desktop = "open"
  /\ desktop' = "locked" /\ LoseAccess
  /\ UNCHANGED cooling

Unlock ==
  /\ desktop = "locked"
  /\ desktop' = "open"
  /\ UNCHANGED <<dup, cooling>>

SecondPasses == cooling /\ cooling' = FALSE /\ UNCHANGED <<dup, desktop>>

Desktop == ModeChange \/ Lock \/ Unlock \/ SecondPasses

\* Capture() returns true, with the monitor's region in copy_.
Captures == dup = "valid" /\ UNCHANGED captureVars

\* No new frame within 16 ms, or no texture to copy it to.
NoFrame == dup = "valid" /\ UNCHANGED captureVars

\* if (!running_ || !dup_) return false
NoDuplication == dup = "null" /\ UNCHANGED captureVars

\* DXGI_ERROR_ACCESS_LOST: drop dup_ and, at most once a second, ask for
\* another one.  A locked desktop refuses, and an open one may.
Reacquire ==
  /\ dup = "lost" /\ ~cooling
  /\ cooling' = TRUE
  /\ dup' \in IF desktop = "open" THEN {"valid", "null"} ELSE {"null"}
  /\ UNCHANGED desktop

TooSoon ==
  /\ dup = "lost" /\ cooling
  /\ dup' = "null"
  /\ UNCHANGED <<desktop, cooling>>

CapturesNothing == NoFrame \/ NoDuplication \/ Reacquire \/ TooSoon
=============================================================================
