-------------------------- MODULE MCRequestScanner --------------------------
(* Small instances of RequestScanner for TLC. *)
EXTENDS RequestScanner
=============================================================================
