------------------------------- MODULE MCTokens -------------------------------
(* Small instances of TokenLifecycle.                                      *)
EXTENDS TokenProperties, TLC

CONSTANTS w1, w2, u1, u2

Symmetric == Permutations(Workers) \cup Permutations(Users)
=============================================================================
