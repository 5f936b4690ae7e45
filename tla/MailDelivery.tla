---------------------------- MODULE MailDelivery ----------------------------
(***************************************************************************)
(* What the notification outbox promises for every row, with the database, *)
(* the dispatchers and their leases abstracted away: a mail waits in the   *)
(* queue, is handed to the provider any number of times while it waits,    *)
(* and settles once, either as sent (some hand-over was accepted) or as    *)
(* failed (MaxAttempts hand-overs were tried).                             *)
(***************************************************************************)
EXTENDS Naturals

CONSTANTS Items,       \* the rows of notification_outbox
          MaxAttempts  \* hand-overs tried before a mail may be given up

VARIABLES mail,    \* mail[i]: "none", "queued", "sent" or "failed"
          tries,   \* tries[i]: hand-overs to the provider so far
          copies   \* copies[i]: hand-overs the provider accepted

vars == <<mail, tries, copies>>

Init == /\ mail = [i \in Items |-> "none"]
        /\ tries = [i \in Items |-> 0]
        /\ copies = [i \in Items |-> 0]

\* A business transaction that commits leaves a mail in the queue.
Queue(i) == /\ mail[i] = "none"
            /\ mail' = [mail EXCEPT ![i] = "queued"]
            /\ UNCHANGED <<tries, copies>>

\* A waiting mail is handed over; the provider takes it or not.
HandOver(i) == /\ mail[i] = "queued"
               /\ tries' = [tries EXCEPT ![i] = @ + 1]
               /\ copies' \in {copies, [copies EXCEPT ![i] = @ + 1]}
               /\ UNCHANGED mail

Settle(i) == /\ mail[i] = "queued"
             /\ copies[i] > 0
             /\ mail' = [mail EXCEPT ![i] = "sent"]
             /\ UNCHANGED <<tries, copies>>

GiveUp(i) == /\ mail[i] = "queued"
             /\ tries[i] >= MaxAttempts
             /\ mail' = [mail EXCEPT ![i] = "failed"]
             /\ UNCHANGED <<tries, copies>>

Next == \E i \in Items : Queue(i) \/ HandOver(i) \/ Settle(i) \/ GiveUp(i)

Spec == Init /\ [][Next]_vars
=============================================================================
