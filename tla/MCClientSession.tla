-------------------------- MODULE MCClientSession --------------------------
(* Small instances of ClientSession for TLC. *)
EXTENDS ClientSession, TLC

CONSTANTS c1, c2, t1, t2, t3

\* The properties say nothing once a late answer has been handled, and late is
\* never reset: what follows need not be explored.
NoneLate == ~late

\* Of two cards one has ended from the beginning: it is a text that may be in
\* the input, and of which the server knows no session.
OnlyEntered == c2 \in over

Symmetry == Permutations(Tokens)
=============================================================================
