--------------------------- MODULE MCSecondFactor ---------------------------
(* One account, overlapping logins and one or two pages of settings.       *)
EXTENDS SecondFactor, TLC

CONSTANTS c1, c2, s1, s2, k1

RowSymmetry == Permutations(Calls) \cup Permutations(Sessions)
=============================================================================
