---------------------------- MODULE MCSchedModule ----------------------------
(* Small instances of SchedModule for TLC. *)
EXTENDS SchedModule
=============================================================================
