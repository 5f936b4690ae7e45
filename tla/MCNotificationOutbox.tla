------------------------ MODULE MCNotificationOutbox ------------------------
(* Small instances of NotificationOutbox: minutes are scaled down so that a  *)
(* lease and a retry delay both end within a behaviour of the model.         *)
EXTENDS NotificationOutbox, TLC

CONSTANTS m1, m2

MCBackoff == [n \in 1..MaxAttempts |-> IF n < 2 THEN n ELSE 2]
MCCreatedAt == [i \in Items |-> IF i = m1 THEN 1 ELSE 2]

\* Runs are interchangeable; rows are not, created_at orders them.
RunSymmetry == Permutations(Workers)
=============================================================================
