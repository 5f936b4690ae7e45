-------------------------- MODULE MCQuoteRequests --------------------------
(* Small instances of QuoteRequests: every page belongs to the one client.   *)
EXTENDS QuoteRequests, TLC

CONSTANTS r1, r2, u1

MCUserOf == [p \in Pages |-> u1]

\* Rows, pages, calls and officers are interchangeable.
MCSymmetry == Permutations(Requests) \cup Permutations(Pages)
              \cup Permutations(Calls) \cup Permutations(Officers)
=============================================================================
