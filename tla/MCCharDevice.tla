---------------------------- MODULE MCCharDevice ----------------------------
(* A small instance of CharDevice for TLC. *)
EXTENDS CharDevice, TLC

NoTexts == [d \in Drivers |-> {}]

Digits(n) == ToString(n)
=============================================================================
