---------------------------- MODULE MCHitCounter ----------------------------
(* A small instance of HitCounter for TLC. *)
EXTENDS HitCounter
=============================================================================
