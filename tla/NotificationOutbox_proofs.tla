---------------------- MODULE NotificationOutbox_proofs ----------------------
(***************************************************************************)
(* Proofs about the dispatcher, for any number of rows, runs, attempts,    *)
(* crashes and any lease.                                                  *)
(***************************************************************************)
EXTENDS NotificationOutbox, TLAPS

-----------------------------------------------------------------------------
(* Types.                                                                  *)

\* A row that waits or is being handled still has an attempt left.
Retryable ==
  \A i \in Items : status[i] \in {"pending", "processing"}
                     => attemptCount[i] < MaxAttempts

\* A run between its claim and the record of the outcome has a row in hand.
RowInHand == \A w \in Workers : HoldsClaim(w) => cur[w] \in Items

TypeInv == TypeOK /\ Retryable /\ RowInHand

\* A counter that is raised, or not, never goes down.
LEMMA Raised ==
  ASSUME NEW f \in [Items -> Nat], NEW i \in Items,
         NEW g \in {f, [f EXCEPT ![i] = @ + 1]}
  PROVE  /\ g \in [Items -> Nat]
         /\ \A j \in Items : f[j] <= g[j]
         /\ g # f => g[i] = f[i] + 1
  <1>1. CASE g = f
    BY <1>1
  <1>2. CASE g = [f EXCEPT ![i] = @ + 1]
    BY <1>2
  <1> QED BY <1>1, <1>2

LEMMA TypeInit == Init => TypeInv
  <1> QED BY OutboxAssumption DEF Init, TypeInv, TypeOK, Retryable, RowInHand,
                                  HoldsClaim, NotificationStatus

LEMMA TypeStep == TypeInv /\ [Next]_vars => TypeInv'
  <1> SUFFICES ASSUME TypeInv, [Next]_vars PROVE TypeInv'
    OBVIOUS
  <1> USE OutboxAssumption
      DEF TypeInv, TypeOK, Retryable, RowInHand, HoldsClaim, NotificationStatus,
          rowVars, runVars, mailVars
  <1>1. CASE Tick
    BY <1>1 DEF Tick, UsesNow
  <1>2. ASSUME NEW i \in Items, Enqueue(i) PROVE TypeInv'
    BY <1>2 DEF Enqueue
  <1>3. ASSUME NEW w \in Workers, Start(w) PROVE TypeInv'
    BY <1>3 DEF Start
  <1>4. ASSUME NEW w \in Workers, Reclaim(w) PROVE TypeInv'
    BY <1>4 DEF Reclaim
  <1>5. ASSUME NEW w \in Workers, Select(w) PROVE TypeInv'
    <2>1. PICK S \in SUBSET Items :
            /\ todo' = [todo EXCEPT ![w] = S]
            /\ snap' = [snap EXCEPT ![w] =
                          [i \in Items |-> IF i \in S THEN attemptCount[i] ELSE 0]]
            /\ \A i \in S : status[i] = "pending"
      BY <1>5 DEF Select, Batches
    <2>2. /\ pc' = [pc EXCEPT ![w] = "loop"]
          /\ lag' = [lag EXCEPT ![w] = 0]
          /\ UNCHANGED <<rowVars, cur, crashes, mailVars>>
      BY <1>5 DEF Select
    <2>3. [i \in Items |-> IF i \in S THEN attemptCount[i] ELSE 0]
            \in [Items -> 0..(MaxAttempts - 1)]
      BY <2>1
    <2>4. snap' \in [Workers -> [Items -> 0..(MaxAttempts - 1)]]
      BY <2>1, <2>3
    <2>5. TypeOK'
      BY <2>1, <2>2, <2>4
    <2> QED BY <2>2, <2>5
  <1>6. ASSUME NEW w \in Workers, NEW i \in Items, Claim(w, i) PROVE TypeInv'
    BY <1>6 DEF Claim, FirstOf, Claimable
  <1>7. ASSUME NEW w \in Workers, NEW i \in Items, Skip(w, i) PROVE TypeInv'
    <2>1. TypeOK'
      BY <1>7 DEF Skip, FirstOf, Claimable, Drop
    <2>2. Retryable'
      BY <1>7 DEF Skip, FirstOf, Claimable, Drop
    <2>3. RowInHand'
      BY <1>7 DEF Skip, FirstOf, Claimable, Drop
    <2> QED BY <2>1, <2>2, <2>3
  <1>8. ASSUME NEW w \in Workers, SendAccepted(w) PROVE TypeInv'
    <2>0. cur[w] \in Items
      BY <1>8 DEF SendAccepted
    <2>1. TypeOK'
      BY <2>0, <1>8 DEF SendAccepted
    <2>2. Retryable'
      BY <2>0, <1>8 DEF SendAccepted
    <2>3. RowInHand'
      BY <2>0, <1>8 DEF SendAccepted
    <2> QED BY <2>1, <2>2, <2>3
  <1>9. ASSUME NEW w \in Workers, SendErrors(w) PROVE TypeInv'
    <2>0. cur[w] \in Items
      BY <1>9 DEF SendErrors
    <2>1. TypeOK'
      <3>1. tries' \in [Items -> Nat]
        BY <2>0, <1>9 DEF SendErrors
      <3>2. copies' \in [Items -> Nat]
        <4>1. copies' \in {copies, [copies EXCEPT ![cur[w]] = @ + 1]}
          BY <1>9 DEF SendErrors
        <4>2. [copies EXCEPT ![cur[w]] = @ + 1] \in [Items -> Nat]
          BY <2>0
        <4> QED BY <4>1, <4>2
      <3>3. /\ pc' = [pc EXCEPT ![w] = "fail"]
            /\ UNCHANGED <<rowVars, lag, todo, snap, cur, crashes>>
        BY <1>9 DEF SendErrors
      <3> QED BY <3>1, <3>2, <3>3
    <2>2. Retryable'
      BY <2>0, <1>9 DEF SendErrors
    <2>3. RowInHand'
      BY <2>0, <1>9 DEF SendErrors
    <2> QED BY <2>1, <2>2, <2>3
  <1>10. ASSUME NEW w \in Workers, MarkSent(w) PROVE TypeInv'
    <2>0. cur[w] \in Items
      BY <1>10 DEF MarkSent
    <2>1. TypeOK'
      <3>1. /\ status' \in [Items -> NotificationStatus \cup {"none"}]
            /\ attemptCount' \in [Items -> 0..MaxAttempts]
            /\ due' = due
        BY <2>0, <1>10 DEF MarkSent, WriteSent
      <3>2. /\ todo' \in [Workers -> SUBSET Items]
            /\ snap' \in [Workers -> [Items -> 0..(MaxAttempts - 1)]]
        BY <2>0, <1>10 DEF MarkSent, Drop
      <3>3. /\ pc' = [pc EXCEPT ![w] = "loop"]
            /\ cur' = [cur EXCEPT ![w] = NoItem]
            /\ UNCHANGED <<lag, crashes, mailVars>>
        BY <1>10 DEF MarkSent, Drop
      <3> QED BY <3>1, <3>2, <3>3
    <2>2. Retryable'
      BY <2>0, <1>10 DEF MarkSent, WriteSent, Drop
    <2>3. RowInHand'
      BY <2>0, <1>10 DEF MarkSent, WriteSent, Drop
    <2> QED BY <2>1, <2>2, <2>3
  <1>11. ASSUME NEW w \in Workers, MarkSentErrors(w) PROVE TypeInv'
    <2>0. cur[w] \in Items
      BY <1>11 DEF MarkSentErrors
    <2>1. TypeOK'
      <3>1. CASE UNCHANGED rowVars
        BY <2>0, <1>11, <3>1 DEF MarkSentErrors
      <3>2. CASE WriteSent(w)
        <4>1. /\ status' \in [Items -> NotificationStatus \cup {"none"}]
              /\ attemptCount' \in [Items -> 0..MaxAttempts]
              /\ due' = due
          BY <2>0, <3>2 DEF WriteSent
        <4>2. /\ pc' = [pc EXCEPT ![w] = "fail"]
              /\ UNCHANGED <<lag, todo, snap, cur, crashes, mailVars>>
          BY <1>11 DEF MarkSentErrors
        <4> QED BY <4>1, <4>2
      <3> QED BY <1>11, <3>1, <3>2 DEF MarkSentErrors
    <2>2. Retryable'
      BY <2>0, <1>11 DEF MarkSentErrors, WriteSent
    <2>3. RowInHand'
      BY <2>0, <1>11 DEF MarkSentErrors, WriteSent
    <2> QED BY <2>1, <2>2, <2>3
  <1>12. ASSUME NEW w \in Workers, RecordFailure(w) PROVE TypeInv'
    <2>0. cur[w] \in Items
      BY <1>12 DEF RecordFailure, Terminal
    <2>1. TypeOK'
      <3>1. snap[w][cur[w]] + 1 \in 1..MaxAttempts
        BY <2>0
      <3>2. due' \in [Items -> Int]
        BY <2>0, <1>12, <3>1 DEF RecordFailure, Terminal
      <3>3. /\ status' \in [Items -> NotificationStatus \cup {"none"}]
            /\ attemptCount' \in [Items -> 0..MaxAttempts]
        BY <2>0, <1>12, <3>1 DEF RecordFailure, Terminal
      <3>4. /\ todo' \in [Workers -> SUBSET Items]
            /\ snap' \in [Workers -> [Items -> 0..(MaxAttempts - 1)]]
        BY <2>0, <1>12 DEF RecordFailure, Terminal, Drop
      <3> QED BY <1>12, <3>2, <3>3, <3>4 DEF RecordFailure, Terminal, Drop
    <2>2. Retryable'
      BY <2>0, <1>12 DEF RecordFailure, Terminal, Drop
    <2>3. RowInHand'
      BY <2>0, <1>12 DEF RecordFailure, Terminal, Drop
    <2> QED BY <2>1, <2>2, <2>3
  <1>13. ASSUME NEW w \in Workers, Finish(w) PROVE TypeInv'
    BY <1>13 DEF Finish
  <1>14. ASSUME NEW w \in Workers, Crash(w) PROVE TypeInv'
    <2>1. TypeOK'
      <3>1. tries' \in [Items -> Nat] /\ copies' \in [Items -> Nat]
        <4>1. CASE UNCHANGED mailVars
          BY <4>1
        <4>2. CASE ~UNCHANGED mailVars
          <5>1. /\ tries' = [tries EXCEPT ![cur[w]] = @ + 1]
                /\ copies' \in {copies, [copies EXCEPT ![cur[w]] = @ + 1]}
            BY <1>14, <4>2 DEF Crash
          <5>2. /\ [tries EXCEPT ![cur[w]] = @ + 1] \in [Items -> Nat]
                /\ [copies EXCEPT ![cur[w]] = @ + 1] \in [Items -> Nat]
            <6>1. cur[w] \in Items
              BY <1>14, <4>2 DEF Crash
            <6> QED BY <6>1
          <5> QED BY <5>1, <5>2
        <4> QED BY <4>1, <4>2
      <3>2. [i \in Items |-> 0] \in [Items -> 0..(MaxAttempts - 1)]
        OBVIOUS
      <3>3. snap' = [snap EXCEPT ![w] = [i \in Items |-> 0]]
        BY <1>14 DEF Crash
      <3>4. snap' \in [Workers -> [Items -> 0..(MaxAttempts - 1)]]
        BY <3>2, <3>3
      <3>5. /\ pc' = [pc EXCEPT ![w] = "idle"]
            /\ lag' = [lag EXCEPT ![w] = 0]
            /\ todo' = [todo EXCEPT ![w] = {}]
            /\ cur' = [cur EXCEPT ![w] = NoItem]
            /\ crashes' = crashes + 1
            /\ UNCHANGED rowVars
        BY <1>14 DEF Crash
      <3> QED BY <3>1, <3>4, <3>5
    <2>2. Retryable'
      BY <1>14 DEF Crash
    <2>3. RowInHand'
      BY <1>14 DEF Crash
    <2> QED BY <2>1, <2>2, <2>3
  <1>15. CASE UNCHANGED vars
    BY <1>15 DEF vars
  <1> QED BY <1>1, <1>2, <1>3, <1>4, <1>5, <1>6, <1>7, <1>8, <1>9, <1>10, <1>11, <1>12, <1>13, <1>14, <1>15
          DEF Next, Run

\* The attempt counts stored and remembered stay within MAX_ATTEMPTS, and every
\* variable keeps its type, whatever runs overlap or die.
THEOREM Typing == Spec => []TypeOK
  <1>1. TypeInv => TypeOK
    BY DEF TypeInv
  <1> QED BY TypeInit, TypeStep, <1>1, PTL DEF Spec

-----------------------------------------------------------------------------
(* Nothing is given up early, nothing is called sent that was not accepted. *)

\* An attempt count, stored or remembered by a run, never exceeds the number of
\* hand-overs that took place; a run that comes from a hand-over is one below.
CountsAreReal ==
  /\ \A i \in Items : attemptCount[i] <= tries[i]
  /\ \A w \in Workers, i \in Items : snap[w][i] <= tries[i]
  /\ \A w \in Workers : pc[w] \in {"mark", "fail"}
                          => snap[w][cur[w]] + 1 <= tries[cur[w]]

\* A run about to mark its row sent has seen the provider accept it.
AcceptedBeforeMark == \A w \in Workers : pc[w] = "mark" => copies[cur[w]] > 0

CountInv == CountsAreReal /\ AcceptedBeforeMark /\ NoEarlyGiveUp /\ SentWasAccepted

\* What a step keeps when no count goes down and the runs it leaves in "mark" or
\* "fail" were there before with the same row and count.
LEMMA CountsKept ==
  ASSUME TypeOK, RowInHand, CountsAreReal, RowInHand',
         tries' \in [Items -> Nat], \A i \in Items : tries[i] <= tries'[i],
         \A i \in Items : attemptCount'[i] <= tries'[i],
         snap' \in [Workers -> [Items -> Nat]],
         \A v \in Workers, i \in Items : snap'[v][i] \in {0, snap[v][i]},
         \A v \in Workers : pc'[v] \in {"mark", "fail"} =>
           /\ snap'[v] = snap[v] /\ cur'[v] = cur[v]
           /\ pc[v] \notin {"mark", "fail"} => snap[v][cur[v]] + 1 <= tries'[cur[v]]
  PROVE  CountsAreReal'
  <1>1. \A v \in Workers, i \in Items : snap'[v][i] <= tries'[i]
    <2> TAKE v \in Workers, i \in Items
    <2>1. snap[v][i] \in Nat /\ tries[i] \in Nat /\ tries'[i] \in Nat
      BY DEF TypeOK
    <2>2. snap[v][i] <= tries[i]
      BY DEF CountsAreReal
    <2> QED BY <2>1, <2>2
  <1>2. ASSUME NEW v \in Workers, pc'[v] \in {"mark", "fail"}
        PROVE  snap'[v][cur'[v]] + 1 <= tries'[cur'[v]]
    <2>1. cur[v] \in Items
      BY <1>2 DEF RowInHand, HoldsClaim
    <2>2. CASE pc[v] \in {"mark", "fail"}
      <3>1. snap[v][cur[v]] + 1 <= tries[cur[v]]
        BY <2>2 DEF CountsAreReal
      <3>2. /\ snap[v][cur[v]] \in Nat /\ tries[cur[v]] \in Nat
            /\ tries'[cur[v]] \in Nat /\ tries[cur[v]] <= tries'[cur[v]]
        BY <2>1 DEF TypeOK
      <3> QED BY <1>2, <3>1, <3>2
    <2> QED BY <1>2, <2>2
  <1> QED BY <1>1, <1>2 DEF CountsAreReal

LEMMA CountInit == Init => CountInv
  <1> QED BY OutboxAssumption DEF Init, CountInv, CountsAreReal, AcceptedBeforeMark,
                                  NoEarlyGiveUp, SentWasAccepted

\* A hand-over, whatever its outcome, keeps the invariant.
LEMMA HandedOver ==
  ASSUME TypeInv, TypeInv', CountInv, NEW w \in Workers, pc[w] = "send",
         tries' = [tries EXCEPT ![cur[w]] = @ + 1],
         copies' \in {copies, [copies EXCEPT ![cur[w]] = @ + 1]},
         status' = status, attemptCount' = attemptCount,
         \/ pc' = [pc EXCEPT ![w] = "mark"] /\ copies' # copies
         \/ pc' = [pc EXCEPT ![w] = "fail"]
         \/ pc' = [pc EXCEPT ![w] = "idle"],
         \/ snap' = snap /\ cur' = cur
         \/ /\ pc'[w] = "idle"
            /\ snap' = [snap EXCEPT ![w] = [i \in Items |-> 0]]
            /\ cur' = [cur EXCEPT ![w] = NoItem]
  PROVE  CountInv'
  <1>1. cur[w] \in Items
    BY DEF TypeInv, RowInHand, HoldsClaim
  <1>2. tries \in [Items -> Nat] /\ copies \in [Items -> Nat]
    BY DEF TypeInv, TypeOK
  <1>3. /\ tries' \in [Items -> Nat]
        /\ \A i \in Items : tries[i] <= tries'[i]
        /\ tries'[cur[w]] = tries[cur[w]] + 1
    BY <1>1, <1>2
  <1>4. /\ copies' \in [Items -> Nat]
        /\ \A i \in Items : copies[i] <= copies'[i]
        /\ copies' # copies => copies'[cur[w]] = copies[cur[w]] + 1
    BY <1>1, <1>2, Raised
  <1>5. /\ pc = [v \in Workers |-> pc[v]]
        /\ cur = [v \in Workers |-> cur[v]]
        /\ attemptCount \in [Items -> Nat]
        /\ snap \in [Workers -> [Items -> Nat]]
    <2>1. 0..MaxAttempts \subseteq Nat /\ 0..(MaxAttempts - 1) \subseteq Nat
      BY OutboxAssumption
    <2>2. pc = [v \in Workers |-> pc[v]] /\ cur = [v \in Workers |-> cur[v]]
      BY DEF TypeInv, TypeOK
    <2>3. attemptCount \in [Items -> Nat]
      BY <2>1 DEF TypeInv, TypeOK
    <2>4. snap \in [Workers -> [Items -> Nat]]
      BY <2>1 DEF TypeInv, TypeOK
    <2> QED BY <2>2, <2>3, <2>4
  <1>6. \A v \in Workers : v # w =>
          pc'[v] = pc[v] /\ snap'[v] = snap[v] /\ cur'[v] = cur[v]
    BY <1>5
  <1>7. pc'[w] # "idle" => snap'[w] = snap[w] /\ cur'[w] = cur[w]
    BY <1>5
  <1>8. CountsAreReal'
    <2>1. \A i \in Items : attemptCount'[i] <= tries'[i]
      BY <1>2, <1>3, <1>5 DEF CountInv, CountsAreReal
    <2>2. /\ snap' \in [Workers -> [Items -> Nat]]
          /\ \A v \in Workers, i \in Items : snap'[v][i] \in {0, snap[v][i]}
      <3>1. CASE snap' = snap
        BY <1>5, <3>1
      <3>2. CASE snap' = [snap EXCEPT ![w] = [i \in Items |-> 0]]
        BY <1>5, <3>2
      <3> QED BY <3>1, <3>2
    <2>3. snap[w][cur[w]] + 1 <= tries'[cur[w]]
      BY <1>1, <1>2, <1>3, <1>5 DEF CountInv, CountsAreReal
    <2>4. \A v \in Workers : pc'[v] \in {"mark", "fail"} =>
           /\ snap'[v] = snap[v] /\ cur'[v] = cur[v]
           /\ pc[v] \notin {"mark", "fail"} => snap[v][cur[v]] + 1 <= tries'[cur[v]]
      BY <1>6, <1>7, <2>3
    <2> QED BY <1>3, <2>1, <2>2, <2>4, CountsKept DEF TypeInv, CountInv
  <1>9. AcceptedBeforeMark'
    <2> SUFFICES ASSUME NEW v \in Workers, pc'[v] = "mark" PROVE copies'[cur'[v]] > 0
      BY DEF AcceptedBeforeMark
    <2>1. CASE v = w
      BY <2>1, <1>1, <1>2, <1>4, <1>5, <1>7
    <2>2. CASE v # w
      <3>1. cur[v] \in Items /\ copies[cur[v]] > 0
        BY <2>2, <1>6 DEF TypeInv, RowInHand, HoldsClaim, CountInv, AcceptedBeforeMark
      <3> QED BY <2>2, <3>1, <1>2, <1>4, <1>6
    <2> QED BY <2>1, <2>2
  <1>10. NoEarlyGiveUp' /\ SentWasAccepted'
    <2>1. ASSUME NEW i \in Items, status[i] = "failed" PROVE tries'[i] >= MaxAttempts
      <3>1. tries[i] >= MaxAttempts
        BY <2>1 DEF CountInv, NoEarlyGiveUp
      <3> QED BY <3>1, <1>2, <1>3, OutboxAssumption
    <2>2. ASSUME NEW i \in Items, status[i] = "sent" PROVE copies'[i] > 0
      <3>1. copies[i] > 0
        BY <2>2 DEF CountInv, SentWasAccepted
      <3> QED BY <3>1, <1>2, <1>4
    <2> QED BY <2>1, <2>2 DEF NoEarlyGiveUp, SentWasAccepted
  <1> QED BY <1>8, <1>9, <1>10 DEF CountInv

LEMMA CountStep == TypeInv /\ TypeInv' /\ CountInv /\ [Next]_vars => CountInv'
  <1> SUFFICES ASSUME TypeInv, TypeInv', CountInv, [Next]_vars PROVE CountInv'
    OBVIOUS
  <1> USE OutboxAssumption
      DEF TypeInv, TypeOK, RowInHand, HoldsClaim, NotificationStatus,
          CountInv, CountsAreReal, AcceptedBeforeMark, NoEarlyGiveUp,
          SentWasAccepted, rowVars, runVars, mailVars
  <1>1. CASE Tick
    BY <1>1 DEF Tick, UsesNow
  <1>2. ASSUME NEW i \in Items, Enqueue(i) PROVE CountInv'
    BY <1>2 DEF Enqueue
  <1>3. ASSUME NEW w \in Workers, Start(w) PROVE CountInv'
    BY <1>3 DEF Start
  <1>4. ASSUME NEW w \in Workers, Reclaim(w) PROVE CountInv'
    BY <1>4 DEF Reclaim
  <1>5. ASSUME NEW w \in Workers, Select(w) PROVE CountInv'
    <2>1. CountsAreReal'
      BY <1>5 DEF Select, Batches
    <2>2. AcceptedBeforeMark'
      BY <1>5 DEF Select, Batches
    <2>3. NoEarlyGiveUp'
      BY <1>5 DEF Select, Batches
    <2>4. SentWasAccepted'
      BY <1>5 DEF Select, Batches
    <2> QED BY <2>1, <2>2, <2>3, <2>4
  <1>6. ASSUME NEW w \in Workers, NEW i \in Items, Claim(w, i) PROVE CountInv'
    <2>1. CountsAreReal'
      BY <1>6 DEF Claim, FirstOf, Claimable
    <2>2. AcceptedBeforeMark'
      BY <1>6 DEF Claim, FirstOf, Claimable
    <2>3. NoEarlyGiveUp'
      BY <1>6 DEF Claim, FirstOf, Claimable
    <2>4. SentWasAccepted'
      BY <1>6 DEF Claim, FirstOf, Claimable
    <2> QED BY <2>1, <2>2, <2>3, <2>4
  <1>7. ASSUME NEW w \in Workers, NEW i \in Items, Skip(w, i) PROVE CountInv'
    <2>1. CountsAreReal'
      BY <1>7 DEF Skip, FirstOf, Claimable, Drop
    <2>2. AcceptedBeforeMark'
      BY <1>7 DEF Skip, FirstOf, Claimable, Drop
    <2>3. NoEarlyGiveUp'
      BY <1>7 DEF Skip, FirstOf, Claimable, Drop
    <2>4. SentWasAccepted'
      BY <1>7 DEF Skip, FirstOf, Claimable, Drop
    <2> QED BY <2>1, <2>2, <2>3, <2>4
  <1>8. ASSUME NEW w \in Workers, SendAccepted(w) PROVE CountInv'
    <2>1. /\ tries' = [tries EXCEPT ![cur[w]] = @ + 1]
          /\ copies' = [copies EXCEPT ![cur[w]] = @ + 1]
          /\ pc[w] = "send" /\ pc' = [pc EXCEPT ![w] = "mark"]
          /\ status' = status /\ attemptCount' = attemptCount
          /\ snap' = snap /\ cur' = cur
      BY <1>8 DEF SendAccepted
    <2>2. cur[w] \in Items /\ copies \in [Items -> Nat]
      BY <2>1
    <2>3. [copies EXCEPT ![cur[w]] = @ + 1][cur[w]] # copies[cur[w]]
      BY <2>2
    <2> QED BY <2>1, <2>3, HandedOver
  <1>9. ASSUME NEW w \in Workers, SendErrors(w) PROVE CountInv'
    <2>1. /\ tries' = [tries EXCEPT ![cur[w]] = @ + 1]
          /\ copies' \in {copies, [copies EXCEPT ![cur[w]] = @ + 1]}
          /\ pc[w] = "send" /\ pc' = [pc EXCEPT ![w] = "fail"]
          /\ status' = status /\ attemptCount' = attemptCount
          /\ snap' = snap /\ cur' = cur
      BY <1>9 DEF SendErrors
    <2> QED BY <2>1, HandedOver
  <1>10. ASSUME NEW w \in Workers, MarkSent(w) PROVE CountInv'
    <2>0. cur[w] \in Items
      BY <1>10 DEF MarkSent
    <2>1. CountsAreReal'
      BY <2>0, <1>10 DEF MarkSent, WriteSent, Drop
    <2>2. AcceptedBeforeMark'
      BY <2>0, <1>10 DEF MarkSent, WriteSent, Drop
    <2>3. NoEarlyGiveUp'
      BY <2>0, <1>10 DEF MarkSent, WriteSent, Drop
    <2>4. SentWasAccepted'
      BY <2>0, <1>10 DEF MarkSent, WriteSent, Drop
    <2> QED BY <2>1, <2>2, <2>3, <2>4
  <1>11. ASSUME NEW w \in Workers, MarkSentErrors(w) PROVE CountInv'
    <2>0. cur[w] \in Items
      BY <1>11 DEF MarkSentErrors
    <2>1. CountsAreReal'
      <3>1. CASE UNCHANGED rowVars
        BY <2>0, <1>11, <3>1 DEF MarkSentErrors
      <3>2. CASE WriteSent(w)
        BY <2>0, <1>11, <3>2 DEF MarkSentErrors, WriteSent
      <3> QED BY <1>11, <3>1, <3>2 DEF MarkSentErrors
    <2>2. AcceptedBeforeMark'
      BY <2>0, <1>11 DEF MarkSentErrors, WriteSent
    <2>3. NoEarlyGiveUp'
      BY <2>0, <1>11 DEF MarkSentErrors, WriteSent
    <2>4. SentWasAccepted'
      BY <2>0, <1>11 DEF MarkSentErrors, WriteSent
    <2> QED BY <2>1, <2>2, <2>3, <2>4
  <1>12. ASSUME NEW w \in Workers, RecordFailure(w) PROVE CountInv'
    <2>0. cur[w] \in Items
      BY <1>12 DEF RecordFailure, Terminal
    <2>1. CountsAreReal'
      BY <2>0, <1>12 DEF RecordFailure, Terminal, Drop
    <2>2. AcceptedBeforeMark'
      BY <2>0, <1>12 DEF RecordFailure, Terminal, Drop
    <2>3. NoEarlyGiveUp'
      BY <2>0, <1>12 DEF RecordFailure, Terminal, Drop
    <2>4. SentWasAccepted'
      BY <2>0, <1>12 DEF RecordFailure, Terminal, Drop
    <2> QED BY <2>1, <2>2, <2>3, <2>4
  <1>13. ASSUME NEW w \in Workers, Finish(w) PROVE CountInv'
    BY <1>13 DEF Finish
  <1>14. ASSUME NEW w \in Workers, Crash(w) PROVE CountInv'
    <2>1. /\ pc' = [pc EXCEPT ![w] = "idle"]
          /\ status' = status /\ attemptCount' = attemptCount
          /\ snap' = [snap EXCEPT ![w] = [i \in Items |-> 0]]
          /\ cur' = [cur EXCEPT ![w] = NoItem]
      BY <1>14 DEF Crash
    <2>2. CASE UNCHANGED mailVars
      BY <2>1, <2>2
    <2>3. CASE ~UNCHANGED mailVars
      <3>1. /\ pc[w] = "send"
            /\ tries' = [tries EXCEPT ![cur[w]] = @ + 1]
            /\ copies' \in {copies, [copies EXCEPT ![cur[w]] = @ + 1]}
        BY <1>14, <2>3 DEF Crash
      <3> QED BY <2>1, <3>1, HandedOver
    <2> QED BY <2>2, <2>3
  <1>15. CASE UNCHANGED vars
    BY <1>15 DEF vars
  <1> QED BY <1>1, <1>2, <1>3, <1>4, <1>5, <1>6, <1>7, <1>8, <1>9, <1>10,
             <1>11, <1>12, <1>13, <1>14, <1>15
          DEF Next, Run

\* "après cinq essais il devient failed" never comes early, under overlapping runs,
\* crashes and lost acknowledgements.
THEOREM NeverEarly == Spec => []NoEarlyGiveUp
  <1>1. CountInv => NoEarlyGiveUp
    BY DEF CountInv
  <1> QED BY TypeInit, TypeStep, CountInit, CountStep, <1>1, PTL DEF Spec

\* "sent" is never written for a mail the provider did not take.
THEOREM SentIsAccepted == Spec => []SentWasAccepted
  <1>1. CountInv => SentWasAccepted
    BY DEF CountInv
  <1> QED BY TypeInit, TypeStep, CountInit, CountStep, <1>1, PTL DEF Spec

-----------------------------------------------------------------------------
(* Exclusion, when hand-overs fit in their lease.                          *)

\* The statuses a row may have while a run holds it.
HeldStatus == IF AckLoss THEN {"processing", "sent"} ELSE {"processing"}

\* A row in hand is still leased and in nobody else's hands.
HandInv ==
  \A w \in Workers : HoldsClaim(w) =>
    /\ status[cur[w]] \in HeldStatus
    /\ due[cur[w]] > 0
    /\ \A v \in Workers : (v # w /\ HoldsClaim(v)) => cur[v] # cur[w]

LEMMA HandInit == Init => HandInv
  <1> QED BY DEF Init, HandInv, HoldsClaim

LEMMA HandStep ==
  ASSUME ~SlowSends PROVE TypeInv /\ HandInv /\ [Next]_vars => HandInv'
  <1> SUFFICES ASSUME TypeInv, HandInv, [Next]_vars PROVE HandInv'
    OBVIOUS
  <1> USE OutboxAssumption
      DEF TypeInv, TypeOK, RowInHand, HoldsClaim, NotificationStatus, HeldStatus,
          HandInv, rowVars, runVars, mailVars
  <1>1. CASE Tick
    BY <1>1 DEF Tick, UsesNow
  <1>2. ASSUME NEW i \in Items, Enqueue(i) PROVE HandInv'
    BY <1>2 DEF Enqueue
  <1>3. ASSUME NEW w \in Workers, Start(w) PROVE HandInv'
    BY <1>3 DEF Start
  <1>4. ASSUME NEW w \in Workers, Reclaim(w) PROVE HandInv'
    BY <1>4 DEF Reclaim, Due
  <1>5. ASSUME NEW w \in Workers, Select(w) PROVE HandInv'
    BY <1>5 DEF Select
  <1>6. ASSUME NEW w \in Workers, NEW i \in Items, Claim(w, i) PROVE HandInv'
    <2>1. /\ status[i] = "pending"
          /\ status' = [status EXCEPT ![i] = "processing"]
          /\ due' = [due EXCEPT ![i] = Lease]
          /\ pc' = [pc EXCEPT ![w] = "send"]
          /\ cur' = [cur EXCEPT ![w] = i]
      BY <1>6 DEF Claim, Claimable
    <2>2. \A v \in Workers : HoldsClaim(v) => cur[v] # i
      BY <2>1
    <2>3. \A v \in Workers : v # w => pc'[v] = pc[v] /\ cur'[v] = cur[v]
      BY <2>1
    <2>4. pc'[w] = "send" /\ cur'[w] = i /\ status'[i] = "processing" /\ due'[i] > 0
      BY <2>1
    <2>5. \A j \in Items : j # i => status'[j] = status[j] /\ due'[j] = due[j]
      BY <2>1
    <2>6. ASSUME NEW v \in Workers, HoldsClaim(v)'
          PROVE  /\ status'[cur'[v]] \in HeldStatus
                 /\ due'[cur'[v]] > 0
                 /\ \A u \in Workers : (u # v /\ HoldsClaim(u)') => cur'[u] # cur'[v]
      <3>1. CASE v = w
        <4>1. \A u \in Workers : (u # w /\ HoldsClaim(u)') => cur'[u] # i
          <5> SUFFICES ASSUME NEW u \in Workers, u # w, HoldsClaim(u)'
                       PROVE  cur'[u] # i
            OBVIOUS
          <5>1. HoldsClaim(u) /\ cur'[u] = cur[u]
            BY <2>3
          <5> QED BY <2>2, <5>1
        <4> QED BY <2>4, <3>1, <4>1
      <3>2. CASE v # w
        <4>1. HoldsClaim(v) /\ cur'[v] = cur[v] /\ cur[v] # i /\ cur[v] \in Items
          BY <2>2, <2>3, <2>6, <3>2
        <4>2. \A u \in Workers : (u # v /\ u # w /\ HoldsClaim(u)') => cur'[u] # cur'[v]
          <5> SUFFICES ASSUME NEW u \in Workers, u # v, u # w, HoldsClaim(u)'
                       PROVE  cur'[u] # cur'[v]
            OBVIOUS
          <5>1. HoldsClaim(u) /\ cur'[u] = cur[u]
            BY <2>3
          <5> QED BY <4>1, <5>1
        <4>3. status'[cur[v]] = status[cur[v]] /\ due'[cur[v]] = due[cur[v]]
          BY <2>5, <4>1
        <4> QED BY <2>4, <4>1, <4>2, <4>3
      <3> QED BY <3>1, <3>2
    <2> QED BY <2>6
  <1>7. ASSUME NEW w \in Workers, NEW i \in Items, Skip(w, i) PROVE HandInv'
    BY <1>7 DEF Skip, FirstOf, Claimable, Drop
  <1>8. ASSUME NEW w \in Workers, SendAccepted(w) PROVE HandInv'
    BY <1>8 DEF SendAccepted
  <1>9. ASSUME NEW w \in Workers, SendErrors(w) PROVE HandInv'
    BY <1>9 DEF SendErrors
  <1>10. ASSUME NEW w \in Workers, MarkSent(w) PROVE HandInv'
    BY <1>10 DEF MarkSent, WriteSent, Drop
  <1>11. ASSUME NEW w \in Workers, MarkSentErrors(w) PROVE HandInv'
    BY <1>11 DEF MarkSentErrors, WriteSent
  <1>12. ASSUME NEW w \in Workers, RecordFailure(w) PROVE HandInv'
    BY <1>12 DEF RecordFailure, Terminal, Drop
  <1>13. ASSUME NEW w \in Workers, Finish(w) PROVE HandInv'
    BY <1>13 DEF Finish
  <1>14. ASSUME NEW w \in Workers, Crash(w) PROVE HandInv'
    BY <1>14 DEF Crash
  <1>15. CASE UNCHANGED vars
    BY <1>15 DEF vars
  <1> QED BY <1>1, <1>2, <1>3, <1>4, <1>5, <1>6, <1>7, <1>8, <1>9, <1>10,
             <1>11, <1>12, <1>13, <1>14, <1>15
          DEF Next, Run

\* While hand-overs fit in their lease no two runs ever hold the same row, however
\* many overlap and wherever they die.
THEOREM Exclusion == ASSUME ~SlowSends PROVE Spec => []ExclusiveClaim
  <1>1. HandInv => ExclusiveClaim
    BY DEF HandInv, ExclusiveClaim
  <1>2. TypeInv /\ HandInv /\ [Next]_vars => HandInv'
    BY HandStep
  <1> QED BY TypeInit, TypeStep, HandInit, <1>1, <1>2, PTL DEF Spec

-----------------------------------------------------------------------------
(* The dispatcher implements MailDelivery, when moreover the database      *)
(* acknowledges what it commits.                                           *)

LEMMA DeliveryInit == Init => Delivery!Init
  <1> QED BY DEF Init, Delivery!Init, MailOf

LEMMA DeliveryStep ==
  ASSUME ~SlowSends, ~AckLoss
  PROVE  TypeInv /\ CountInv /\ HandInv /\ [Next]_vars
           => [Delivery!Next]_(Delivery!vars)
  <1> SUFFICES ASSUME TypeInv, CountInv, HandInv, [Next]_vars
               PROVE  Delivery!Next \/ UNCHANGED Delivery!vars
    OBVIOUS
  <1> DEFINE M == [i \in Items |-> MailOf(i)]
  <1> USE DEF rowVars, runVars, mailVars
  <1>a. ASSUME NEW w \in Workers, HoldsClaim(w)
        PROVE  cur[w] \in Items /\ status[cur[w]] = "processing"
    BY <1>a DEF TypeInv, RowInHand, HandInv, HeldStatus
  <1>b. ASSUME UNCHANGED status, UNCHANGED mailVars PROVE UNCHANGED Delivery!vars
    BY <1>b DEF Delivery!vars, MailOf
  <1>c. ASSUME NEW w \in Workers, pc[w] = "send", UNCHANGED status,
               tries' = [tries EXCEPT ![cur[w]] = @ + 1],
               copies' \in {copies, [copies EXCEPT ![cur[w]] = @ + 1]}
        PROVE  Delivery!Next
    <2>1. cur[w] \in Items /\ MailOf(cur[w]) = "queued"
      BY <1>a, <1>c DEF HoldsClaim, MailOf
    <2>2. Delivery!HandOver(cur[w])
      BY <1>c, <2>1 DEF Delivery!HandOver, MailOf
    <2> QED BY <2>1, <2>2 DEF Delivery!Next
  <1>1. CASE Tick
    BY <1>1, <1>b DEF Tick
  <1>2. ASSUME NEW i \in Items, Enqueue(i) PROVE Delivery!Next
    <2>1. MailOf(i) = "none"
      BY <1>2 DEF Enqueue, MailOf
    <2>2. M' = [M EXCEPT ![i] = "queued"]
      BY <1>2 DEF Enqueue, MailOf, TypeInv, TypeOK
    <2>3. Delivery!Queue(i)
      BY <1>2, <2>1, <2>2 DEF Enqueue, Delivery!Queue
    <2> QED BY <2>3 DEF Delivery!Next
  <1>3. ASSUME NEW w \in Workers, Start(w) \/ Select(w) \/ Finish(w)
        PROVE  UNCHANGED Delivery!vars
    BY <1>3, <1>b DEF Start, Select, Finish
  <1>4. ASSUME NEW w \in Workers, Reclaim(w) PROVE UNCHANGED Delivery!vars
    <2>1. \A i \in Items : MailOf(i)' = MailOf(i)
      BY <1>4 DEF Reclaim, MailOf
    <2> QED BY <1>4, <2>1 DEF Reclaim, Delivery!vars
  <1>5. ASSUME NEW w \in Workers, NEW i \in Items, Claim(w, i)
        PROVE  UNCHANGED Delivery!vars
    <2>1. \A j \in Items : MailOf(j)' = MailOf(j)
      BY <1>5 DEF Claim, Claimable, MailOf, TypeInv, TypeOK
    <2> QED BY <1>5, <2>1 DEF Claim, Delivery!vars
  <1>6. ASSUME NEW w \in Workers, NEW i \in Items, Skip(w, i)
        PROVE  UNCHANGED Delivery!vars
    BY <1>6, <1>b DEF Skip
  <1>7. ASSUME NEW w \in Workers, SendAccepted(w) PROVE Delivery!Next
    BY <1>7, <1>c DEF SendAccepted
  <1>8. ASSUME NEW w \in Workers, SendErrors(w) PROVE Delivery!Next
    BY <1>8, <1>c DEF SendErrors
  <1>9. ASSUME NEW w \in Workers, MarkSent(w) PROVE Delivery!Next
    <2>1. cur[w] \in Items /\ status[cur[w]] = "processing" /\ copies[cur[w]] > 0
      BY <1>9, <1>a DEF MarkSent, HoldsClaim, CountInv, AcceptedBeforeMark
    <2>2. MailOf(cur[w]) = "queued" /\ M' = [M EXCEPT ![cur[w]] = "sent"]
      BY <1>9, <2>1 DEF MarkSent, WriteSent, MailOf, TypeInv, TypeOK
    <2>3. Delivery!Settle(cur[w])
      BY <1>9, <2>1, <2>2 DEF MarkSent, Delivery!Settle
    <2> QED BY <2>1, <2>3 DEF Delivery!Next
  <1>10. ASSUME NEW w \in Workers, MarkSentErrors(w) PROVE UNCHANGED Delivery!vars
    BY <1>10, <1>b DEF MarkSentErrors
  <1>11. ASSUME NEW w \in Workers, RecordFailure(w)
         PROVE  Delivery!Next \/ UNCHANGED Delivery!vars
    <2> DEFINE attempts == snap[w][cur[w]] + 1
    <2>1. cur[w] \in Items /\ status[cur[w]] = "processing"
      BY <1>11, <1>a DEF RecordFailure, HoldsClaim
    <2>2. attempts <= tries[cur[w]] /\ tries[cur[w]] \in Nat /\ attempts \in Nat
      BY <1>11, <2>1, OutboxAssumption
         DEF RecordFailure, CountInv, CountsAreReal, TypeInv, TypeOK
    <2>3. status' = [status EXCEPT
            ![cur[w]] = IF attempts >= MaxAttempts THEN "failed" ELSE "pending"]
      BY <1>11 DEF RecordFailure, Terminal
    <2>4. CASE attempts >= MaxAttempts
      <3>1. MailOf(cur[w]) = "queued" /\ M' = [M EXCEPT ![cur[w]] = "failed"]
        BY <2>1, <2>3, <2>4 DEF MailOf, TypeInv, TypeOK
      <3>2. tries[cur[w]] >= MaxAttempts
        BY <2>2, <2>4, OutboxAssumption
      <3>3. UNCHANGED <<tries, copies>>
        BY <1>11 DEF RecordFailure, Terminal
      <3>4. Delivery!GiveUp(cur[w])
        BY <2>1, <3>1, <3>2, <3>3 DEF Delivery!GiveUp
      <3> QED BY <2>1, <3>4 DEF Delivery!Next
    <2>5. CASE ~(attempts >= MaxAttempts)
      <3>1. \A j \in Items : MailOf(j)' = MailOf(j)
        BY <2>1, <2>3, <2>5 DEF MailOf, TypeInv, TypeOK
      <3> QED BY <1>11, <3>1 DEF RecordFailure, Delivery!vars
    <2> QED BY <2>4, <2>5
  <1>12. ASSUME NEW w \in Workers, Crash(w)
         PROVE  Delivery!Next \/ UNCHANGED Delivery!vars
    <2>1. CASE UNCHANGED mailVars
      BY <1>12, <2>1, <1>b DEF Crash
    <2>2. CASE ~UNCHANGED mailVars
      BY <1>12, <2>2, <1>c DEF Crash
    <2> QED BY <2>1, <2>2
  <1>13. CASE UNCHANGED vars
    BY <1>13, <1>b DEF vars
  <1> QED BY <1>1, <1>2, <1>3, <1>4, <1>5, <1>6, <1>7, <1>8, <1>9, <1>10,
             <1>11, <1>12, <1>13
          DEF Next, Run

\* Every row follows MailDelivery: it is handed over only while it waits, and
\* settles once, as sent after an accepted hand-over or as failed after
\* MAX_ATTEMPTS of them.
THEOREM ImplementsDelivery ==
  ASSUME ~SlowSends, ~AckLoss PROVE Spec => DeliverySpec
  <1>1. TypeInv /\ HandInv /\ [Next]_vars => HandInv'
    BY HandStep
  <1>2. TypeInv /\ CountInv /\ HandInv /\ [Next]_vars
          => [Delivery!Next]_(Delivery!vars)
    BY DeliveryStep
  <1> QED BY TypeInit, TypeStep, CountInit, CountStep, HandInit, DeliveryInit,
             <1>1, <1>2, PTL DEF Spec, DeliverySpec, Delivery!Spec
=============================================================================
