------------------------------ MODULE MCDirectory -----------------------------
(* Small instances of Directory.                                           *)
EXTENDS DirectoryProperties, TLC

CONSTANTS w1, w2, u1, u2

Symmetric == Permutations(Workers) \cup Permutations(Users)
=============================================================================
