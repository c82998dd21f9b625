---------------------------- MODULE MCPortReuse -----------------------------
(* A small instance of PortReuse for TLC. *)
EXTENDS PortReuse, TLC

\* Of "ioctl" only, since "setsockopt" is a copy of it: the empty text, shorter
\* ones, one that leaves room for no NUL and one that is cut.
Texts == [hello |-> {},
          ioctl |-> {<<>>, <<"a">>, <<"b", "b">>, <<"a", "b", "a">>,
                     <<"b", "a", "b", "a">>},
          setsockopt |-> {}]

Digits(n) == ToString(n)
=============================================================================
