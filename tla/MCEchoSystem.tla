---------------------------- MODULE MCEchoSystem ----------------------------
(* A small instance of EchoSystem for TLC. *)
EXTENDS EchoSystem
=============================================================================
