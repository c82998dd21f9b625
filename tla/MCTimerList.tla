----------------------------- MODULE MCTimerList -----------------------------
(* Small instances of TimerList for TLC. *)
EXTENDS TimerList
=============================================================================
