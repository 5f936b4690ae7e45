----------------------------- MODULE MCAccounts -----------------------------
(* One account under small sets of handlers, sessions, links and origins.  *)
EXTENDS Accounts, TLC

CONSTANTS c1, c2, s1, s2, t1, t2, t3

RowSymmetry == Permutations(Calls) \cup Permutations(Sessions) \cup Permutations(Links)
=============================================================================
