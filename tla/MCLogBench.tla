----------------------------- MODULE MCLogBench -----------------------------
(* Small instances of LogBench for TLC. *)
EXTENDS LogBench
=============================================================================
