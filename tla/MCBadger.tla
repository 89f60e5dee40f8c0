------------------------------- MODULE MCBadger -------------------------------
(* An instance of Badger for TLC.                                          *)
EXTENDS Badger, TLC

CONSTANTS r1, r2, r3

MCRequests == {r1, r2, r3}

\* Requests differ in nothing.
Symmetry == Permutations(MCRequests)
=============================================================================
