------------------------- MODULE NotificationOutbox -------------------------
(***************************************************************************)
(* The transactional outbox and its dispatcher.                            *)
(*                                                                         *)
(* Business transactions insert rows; dispatchNotificationOutbox, started  *)
(* by a scheduler and allowed to overlap with another run, takes back the  *)
(* rows whose lease has ended, reads a batch, and for each row claims it,  *)
(* hands it to the SMTP provider and records the outcome.  Every database  *)
(* statement is its own transaction, so it is an action of its own here.   *)
(*                                                                         *)
(* Time is counted in minutes relative to the present: due[i] is           *)
(* next_attempt_at of row i minus the present, lag[w] the minutes gone by  *)
(* since run w read its `now`.  A row is due for run w when                *)
(* next_attempt_at <= now, that is due[i] <= -lag[w].                      *)
(***************************************************************************)
EXTENDS Integers, FiniteSets

CONSTANTS Items,        \* the rows of notification_outbox
          Workers,      \* dispatcher runs that may be alive at one time
          MaxAttempts,  \* MAX_ATTEMPTS
          BatchSize,    \* BATCH_SIZE
          Lease,        \* minutes a claimed row stays with its run (15)
          Backoff,      \* Backoff[n]: minutes after the n-th failure, min(60, 2^n)
          CreatedAt,    \* CreatedAt[i]: created_at, the order batches are read in
          MaxLag,       \* bound: minutes between reading `now` and the last use of it
          MaxCrashes,   \* bound: runs that die
          SlowSends,    \* may a hand-over outlive the lease of its row?
          AckLoss,      \* may an update commit and its acknowledgement be lost?
          NoItem        \* no row is being handled

ASSUME OutboxAssumption ==
  /\ MaxAttempts \in Nat \ {0}
  /\ BatchSize \in Nat \ {0}
  /\ Lease \in Nat \ {0}
  /\ Backoff \in [1..MaxAttempts -> Nat \ {0}]
  /\ CreatedAt \in [Items -> Nat]
  /\ MaxLag \in Nat
  /\ MaxCrashes \in Nat
  /\ SlowSends \in BOOLEAN
  /\ AckLoss \in BOOLEAN
  /\ NoItem \notin Items

VARIABLES
  status,        \* status[i]: "none" until the row is inserted
  attemptCount,  \* attemptCount[i]
  due,           \* due[i]: minutes until next_attempt_at, kept above -MaxLag
  pc,            \* pc[w]: the statement run w is at
  lag,           \* lag[w]: minutes since run w read `now`
  todo,          \* todo[w]: rows of the batch still to be handled
  snap,          \* snap[w][i]: attempt_count of row i as the batch read it
  cur,           \* cur[w]: the row run w has claimed
  crashes,       \* runs that died
  tries,         \* history: tries[i] hand-overs of row i
  copies         \* history: copies[i] hand-overs the provider accepted

rowVars == <<status, attemptCount, due>>
runVars == <<pc, lag, todo, snap, cur>>
mailVars == <<tries, copies>>
vars == <<rowVars, runVars, crashes, mailVars>>

NotificationStatus == {"pending", "processing", "sent", "failed"}

Init ==
  /\ status = [i \in Items |-> "none"]
  /\ attemptCount = [i \in Items |-> 0]
  /\ due = [i \in Items |-> -MaxLag]
  /\ pc = [w \in Workers |-> "idle"]
  /\ lag = [w \in Workers |-> 0]
  /\ todo = [w \in Workers |-> {}]
  /\ snap = [w \in Workers |-> [i \in Items |-> 0]]
  /\ cur = [w \in Workers |-> NoItem]
  /\ crashes = 0
  /\ tries = [i \in Items |-> 0]
  /\ copies = [i \in Items |-> 0]

-----------------------------------------------------------------------------
(* Writers of the outbox and the clock.                                    *)

\* A business transaction commits a row.  next_attempt_at defaults to the start
\* of that transaction, which may lie before the `now` of a run.
Enqueue(i) ==
  /\ status[i] = "none"
  /\ \E d \in -MaxLag..0 : due' = [due EXCEPT ![i] = d]
  /\ status' = [status EXCEPT ![i] = "pending"]
  /\ attemptCount' = [attemptCount EXCEPT ![i] = 0]
  /\ UNCHANGED <<runVars, crashes, mailVars>>

HoldsClaim(w) == pc[w] \in {"send", "mark", "fail"}
UsesNow(w) == pc[w] \in {"reclaim", "select"}

\* A minute goes by.  Without SlowSends no hand-over lasts until its lease ends.
Tick ==
  /\ \A w \in Workers : UsesNow(w) => lag[w] < MaxLag
  /\ SlowSends \/ \A w \in Workers : HoldsClaim(w) => due[cur[w]] > 1
  /\ due' = [i \in Items |-> IF due[i] > -MaxLag THEN due[i] - 1 ELSE due[i]]
  /\ lag' = [w \in Workers |-> IF UsesNow(w) THEN lag[w] + 1 ELSE lag[w]]
  /\ UNCHANGED <<status, attemptCount, pc, todo, snap, cur, crashes, mailVars>>

-----------------------------------------------------------------------------
(* dispatchNotificationOutbox, statement by statement.                     *)

Due(w, i) == due[i] <= -lag[w]

\* The scheduler starts a run, which reads the clock.
Start(w) ==
  /\ pc[w] = "idle"
  /\ pc' = [pc EXCEPT ![w] = "reclaim"]
  /\ lag' = [lag EXCEPT ![w] = 0]
  /\ UNCHANGED <<rowVars, todo, snap, cur, crashes, mailVars>>

\* Mutation: no row in processing is ever taken back.
ReclaimNothing(w) ==
  /\ pc[w] = "reclaim"
  /\ pc' = [pc EXCEPT ![w] = "select"]
  /\ UNCHANGED <<rowVars, lag, todo, snap, cur, crashes, mailVars>>

\* UPDATE: rows in processing whose lease has ended wait again.
Reclaim(w) ==
  /\ pc[w] = "reclaim"
  /\ status' = [i \in Items |-> IF status[i] = "processing" /\ Due(w, i)
                                THEN "pending" ELSE status[i]]
  /\ pc' = [pc EXCEPT ![w] = "select"]
  /\ UNCHANGED <<attemptCount, due, lag, todo, snap, cur, crashes, mailVars>>

\* The rows SELECT ... ORDER BY created_at LIMIT BATCH_SIZE may return.
Batches(w) ==
  LET ready == {i \in Items : status[i] = "pending" /\ Due(w, i)}
      older(S) == \A i \in S, j \in ready \ S : CreatedAt[i] <= CreatedAt[j]
  IN {S \in SUBSET ready : /\ older(S)
                           /\ \/ S = ready /\ Cardinality(S) <= BatchSize
                              \/ S # ready /\ Cardinality(S) = BatchSize}

Select(w) ==
  /\ pc[w] = "select"
  /\ \E S \in Batches(w) :
       /\ todo' = [todo EXCEPT ![w] = S]
       /\ snap' = [snap EXCEPT ![w] =
                     [i \in Items |-> IF i \in S THEN attemptCount[i] ELSE 0]]
  /\ pc' = [pc EXCEPT ![w] = "loop"]
  /\ lag' = [lag EXCEPT ![w] = 0]
  /\ UNCHANGED <<rowVars, cur, crashes, mailVars>>

FirstOf(w, i) == /\ i \in todo[w]
                 /\ \A j \in todo[w] : CreatedAt[i] <= CreatedAt[j]

\* The loop is done with row i.
Drop(w, i) == /\ pc' = [pc EXCEPT ![w] = "loop"]
              /\ todo' = [todo EXCEPT ![w] = @ \ {i}]
              /\ snap' = [snap EXCEPT ![w] = [@ EXCEPT ![i] = 0]]
              /\ cur' = [cur EXCEPT ![w] = NoItem]
              /\ UNCHANGED lag

\* Mutation: a row in processing can be claimed again.
ClaimableUnsettled(w, i) == status[i] \in {"pending", "processing"}

\* The claim of a row looks at its status only.
Claimable(w, i) == status[i] = "pending"

\* Mutation: the claim gives the row no lease.
ClaimWithoutLease(w, i) ==
  /\ pc[w] = "loop"
  /\ FirstOf(w, i)
  /\ Claimable(w, i)
  /\ status' = [status EXCEPT ![i] = "processing"]
  /\ pc' = [pc EXCEPT ![w] = "send"]
  /\ cur' = [cur EXCEPT ![w] = i]
  /\ UNCHANGED <<attemptCount, due, lag, todo, snap, crashes, mailVars>>

Claim(w, i) ==
  /\ pc[w] = "loop"
  /\ FirstOf(w, i)
  /\ Claimable(w, i)
  /\ status' = [status EXCEPT ![i] = "processing"]
  /\ due' = [due EXCEPT ![i] = Lease]
  /\ pc' = [pc EXCEPT ![w] = "send"]
  /\ cur' = [cur EXCEPT ![w] = i]
  /\ UNCHANGED <<attemptCount, lag, todo, snap, crashes, mailVars>>

\* The claim returned no row: another run has taken or settled it.
Skip(w, i) ==
  /\ pc[w] = "loop"
  /\ FirstOf(w, i)
  /\ ~Claimable(w, i)
  /\ Drop(w, i)
  /\ UNCHANGED <<rowVars, crashes, mailVars>>

\* transport.sendMail resolves.
SendAccepted(w) ==
  /\ pc[w] = "send"
  /\ tries' = [tries EXCEPT ![cur[w]] = @ + 1]
  /\ copies' = [copies EXCEPT ![cur[w]] = @ + 1]
  /\ pc' = [pc EXCEPT ![w] = "mark"]
  /\ UNCHANGED <<rowVars, lag, todo, snap, cur, crashes>>

\* Mutation: the error of a hand-over is swallowed.
SendErrorsSwallowed(w) ==
  /\ pc[w] = "send"
  /\ tries' = [tries EXCEPT ![cur[w]] = @ + 1]
  /\ copies' \in {copies, [copies EXCEPT ![cur[w]] = @ + 1]}
  /\ pc' = [pc EXCEPT ![w] = "mark"]
  /\ UNCHANGED <<rowVars, lag, todo, snap, cur, crashes>>

\* Building the mail or sendMail throws; the provider may still have taken it.
SendErrors(w) ==
  /\ pc[w] = "send"
  /\ tries' = [tries EXCEPT ![cur[w]] = @ + 1]
  /\ copies' \in {copies, [copies EXCEPT ![cur[w]] = @ + 1]}
  /\ pc' = [pc EXCEPT ![w] = "fail"]
  /\ UNCHANGED <<rowVars, lag, todo, snap, cur, crashes>>

\* UPDATE ... SET status = 'sent' WHERE id = item.id, whatever the row is by now.
WriteSent(w) ==
  LET i == cur[w] IN
  /\ status' = [status EXCEPT ![i] = "sent"]
  /\ attemptCount' = [attemptCount EXCEPT ![i] = snap[w][i] + 1]
  /\ UNCHANGED due

MarkSent(w) ==
  /\ pc[w] = "mark"
  /\ WriteSent(w)
  /\ Drop(w, cur[w])
  /\ UNCHANGED <<crashes, mailVars>>

\* That update throws inside the try: the failure path runs for a mail that was
\* sent.  With AckLoss the update may have been applied.
MarkSentErrors(w) ==
  /\ pc[w] = "mark"
  /\ UNCHANGED rowVars \/ (AckLoss /\ WriteSent(w))
  /\ pc' = [pc EXCEPT ![w] = "fail"]
  /\ UNCHANGED <<lag, todo, snap, cur, crashes, mailVars>>

\* Mutation: a row is given up one attempt early.
TerminalEarly(attempts) == attempts + 1 >= MaxAttempts

Terminal(attempts) == attempts >= MaxAttempts

\* The catch block, from the attempt count the batch read.
RecordFailure(w) ==
  LET i == cur[w]
      attempts == snap[w][i] + 1
  IN
  /\ pc[w] = "fail"
  /\ status' = [status EXCEPT ![i] = IF Terminal(attempts) THEN "failed" ELSE "pending"]
  /\ attemptCount' = [attemptCount EXCEPT ![i] = attempts]
  /\ due' = [due EXCEPT ![i] = Backoff[attempts]]
  /\ Drop(w, i)
  /\ UNCHANGED <<crashes, mailVars>>

Finish(w) ==
  /\ pc[w] = "loop"
  /\ todo[w] = {}
  /\ pc' = [pc EXCEPT ![w] = "idle"]
  /\ UNCHANGED <<rowVars, lag, todo, snap, cur, crashes, mailVars>>

\* The process dies, or a statement outside the try throws: the batch is
\* forgotten.  A hand-over under way may or may not have happened.
Crash(w) ==
  /\ pc[w] # "idle"
  /\ crashes < MaxCrashes
  /\ crashes' = crashes + 1
  /\ pc' = [pc EXCEPT ![w] = "idle"]
  /\ lag' = [lag EXCEPT ![w] = 0]
  /\ todo' = [todo EXCEPT ![w] = {}]
  /\ snap' = [snap EXCEPT ![w] = [i \in Items |-> 0]]
  /\ cur' = [cur EXCEPT ![w] = NoItem]
  /\ \/ UNCHANGED mailVars
     \/ /\ pc[w] = "send"
        /\ tries' = [tries EXCEPT ![cur[w]] = @ + 1]
        /\ copies' \in {copies, [copies EXCEPT ![cur[w]] = @ + 1]}
  /\ UNCHANGED rowVars

-----------------------------------------------------------------------------
Run(w) == \/ Start(w) \/ Reclaim(w) \/ Select(w)
          \/ \E i \in Items : Claim(w, i) \/ Skip(w, i)
          \/ SendAccepted(w) \/ SendErrors(w)
          \/ MarkSent(w) \/ MarkSentErrors(w)
          \/ RecordFailure(w) \/ Finish(w)

Next == \/ Tick
        \/ \E i \in Items : Enqueue(i)
        \/ \E w \in Workers : Run(w) \/ Crash(w)

Spec == Init /\ [][Next]_vars

\* The scheduler keeps starting runs, a run keeps executing, time goes by.
Fairness == WF_vars(Tick) /\ \A w \in Workers : WF_vars(Run(w))

FairSpec == Spec /\ Fairness

-----------------------------------------------------------------------------
(* Properties.                                                             *)

TypeOK ==
  /\ status \in [Items -> NotificationStatus \cup {"none"}]
  /\ attemptCount \in [Items -> 0..MaxAttempts]
  /\ due \in [Items -> Int]
  /\ pc \in [Workers -> {"idle", "reclaim", "select", "loop",
                         "send", "mark", "fail"}]
  /\ lag \in [Workers -> Nat]
  /\ todo \in [Workers -> SUBSET Items]
  /\ snap \in [Workers -> [Items -> 0..(MaxAttempts - 1)]]
  /\ cur \in [Workers -> Items \cup {NoItem}]
  /\ crashes \in Nat
  /\ tries \in [Items -> Nat]
  /\ copies \in [Items -> Nat]

\* While hand-overs fit in their lease, a row is in the hands of one run at most,
\* whatever overlaps, crashes and reclaims happen: no two runs send the same mail
\* at the same time (the conditional claim and the lease of the dispatcher).
ExclusiveClaim ==
  \A v, w \in Workers : (v # w /\ HoldsClaim(v) /\ HoldsClaim(w)) => cur[v] # cur[w]

\* A row is given up as failed only when MAX_ATTEMPTS hand-overs really took
\* place, even when runs overlap, outlive their lease or write back an attempt
\* count they read long ago.
NoEarlyGiveUp ==
  \A i \in Items : status[i] = "failed" => tries[i] >= MaxAttempts

\* A row is marked sent only when the provider accepted a hand-over of it.
SentWasAccepted ==
  \A i \in Items : status[i] = "sent" => copies[i] > 0

\* Every row inserted is eventually sent or given up, provided the scheduler
\* keeps starting runs and crashes stop: a lease that ends is taken back, a batch
\* that forgot the row is followed by another.
EveryRowSettles ==
  \A i \in Items : status[i] # "none" ~> status[i] \in {"sent", "failed"}

\* The dispatcher implements the delivery promise of MailDelivery.
MailOf(i) == IF status[i] \in {"pending", "processing"} THEN "queued" ELSE status[i]

Delivery == INSTANCE MailDelivery WITH mail <- [i \in Items |-> MailOf(i)]

DeliverySpec == Delivery!Spec
=============================================================================
