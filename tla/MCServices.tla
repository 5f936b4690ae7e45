----------------------------- MODULE MCServices -----------------------------
(***************************************************************************)
(* Small values for the constants of Services.                             *)
(***************************************************************************)
EXTENDS Services, SequencesExt, TLC

CONSTANTS u1, u2, u3, c1, c2, x1, x2, y1, y2

MCRoleOf == [u \in Users |-> IF u = u1 THEN "client" ELSE "staff"]

\* A client, an officer, and a client whose quote it is not.
MCSignerRole == u1 :> "client" @@ u2 :> "staff" @@ u3 :> "client"

\* An officer times out sooner than a client.
MCIdleTimeout == [client |-> 6, staff |-> 4]
MCAbsoluteTimeout == [client |-> 6, staff |-> 6]

\* No file, a few, and more than a page holds.
MCTables == {<<>>, <<1, 2, 1>>, [i \in 1..24 |-> 1]}

\* Characters are one unit wide, but "m" is two.
MCWidthOf(text) == FoldLeft(LAMBDA sum, c : sum + IF c = "m" THEN 2 ELSE 1, 0, text)

MCPrices == {-1, 1, 7, 8, 99, 120}
MCQuantities == {-1, 1, 50, 100, 150}

PairSymmetry == Permutations({c1, c2}) \cup Permutations({x1, x2}) \cup Permutations({y1, y2})
=============================================================================
