-------------------------- MODULE SummaryVersions --------------------------
(***************************************************************************)
(* What the summaries of a request promise to the people who are told of   *)
(* them, with the reservations, the files, the failures and the retries    *)
(* abstracted away: a version is published once, with its data, and stays; *)
(* it is in force from then on; an operator is told of a published version *)
(* with the data it was published with.  While no generation overlaps      *)
(* another there is one document, its numbers grow, and the version an     *)
(* operator is told of is the one in force.                                *)
(***************************************************************************)
EXTENDS Naturals

CONSTANTS Docs, Numbers, Prints, NoPrint

VARIABLES published,  \* published[d][n]: the data of the version, NoPrint before it is published
          current,    \* current[d]: the number in force, 0 for none
          told,       \* versions operators were told of, with their data
          overlapped  \* has a generation begun while another was under way?

vars == <<published, current, told, overlapped>>

Version(d, n, p) == [doc |-> d, number |-> n, print |-> p]

Init == /\ published = [d \in Docs |-> [n \in Numbers |-> NoPrint]]
        /\ current = [d \in Docs |-> 0]
        /\ told = {}
        /\ overlapped = FALSE

\* A version is published, in force and told of at once.
Publish(d, n, p) ==
  /\ published[d][n] = NoPrint
  /\ ~overlapped => \A e \in Docs, m \in Numbers : published[e][m] # NoPrint => e = d /\ m < n
  /\ published' = [published EXCEPT ![d][n] = p]
  /\ current' = [current EXCEPT ![d] = n]
  /\ told' = told \cup {Version(d, n, p)}
  /\ UNCHANGED overlapped

\* An operator who asks again is told of a version that was published before.
Confirm(d, n) ==
  /\ published[d][n] # NoPrint
  /\ ~overlapped => n = current[d]
  /\ told' = told \cup {Version(d, n, published[d][n])}
  /\ UNCHANGED <<published, current, overlapped>>

Overlap == overlapped' = TRUE /\ UNCHANGED <<published, current, told>>

Next ==
  \/ overlapped' # overlapped /\ Overlap
  \/ /\ told' # told
     /\ \E d \in Docs, n \in Numbers : Confirm(d, n) \/ \E p \in Prints : Publish(d, n, p)

Spec == Init /\ [][Next]_vars
=============================================================================
