------------------------------ MODULE MCProcfs ------------------------------
(* A small instance of Procfs for TLC.  The processes are alike. *)
EXTENDS Procfs, TLC

Texts == {<<"a">>, <<"b", "a">>, <<"a", "b", "b">>}

Symmetry == Permutations(Proc)
=============================================================================
