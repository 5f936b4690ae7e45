---------------------------- MODULE SessionLife ----------------------------
(***************************************************************************)
(* The life of a session under the requests that use it: each reads the    *)
(* row, judges it at the time it is then, and notes that the session was    *)
(* seen, unless that was noted lately.  Requests overlap, and end in any    *)
(* order.  Times count in units of the interval between two notes.          *)
(***************************************************************************)
EXTENDS Naturals

CONSTANTS Calls,            \* requests that overlap
          Roles,
          IdleTimeout, AbsoluteTimeout,   \* of each role
          TouchInterval,
          MaxTime, MaxDelay, \* bounds of the clock and of the time a request takes
          NoTime

LifeAssumption ==
  /\ IdleTimeout \in [Roles -> Nat] /\ AbsoluteTimeout \in [Roles -> Nat]
  /\ {TouchInterval, MaxTime, MaxDelay} \subseteq Nat
  /\ NoTime \notin Nat

VARIABLES
  now, role,
  createdAt, expiresAt, lastSeenAt, revokedAt,   \* the row of the session
  enabled,     \* the account is active
  requests,    \* a record per call: step, start, the row it read, and its time
  used,        \* last time a request was accepted, of those that have ended
  verdict      \* the last one: reason, time, and used as it was when the row was read

vars == <<now, role, createdAt, expiresAt, lastSeenAt, revokedAt, enabled, requests, used, verdict>>

Idle == [step |-> "idle", start |-> 0, at |-> 0,
         row |-> [expiresAt |-> 0, lastSeenAt |-> 0], before |-> 0]

\* createSessionForUser.
Init ==
  /\ now = 0 /\ role \in Roles
  /\ createdAt = 0 /\ lastSeenAt = 0 /\ revokedAt = NoTime
  /\ expiresAt = AbsoluteTimeout[role]
  /\ enabled = TRUE
  /\ requests = [c \in Calls |-> Idle]
  /\ used = 0
  /\ verdict = [reason |-> "accepted", at |-> 0, before |-> 0]

\* The row is read; a revoked session, or one of an account that is not active, is
\* refused whatever the time.
Resolve(c) ==
  /\ requests[c].step = "idle"
  /\ IF revokedAt = NoTime /\ enabled
     THEN /\ requests' = [requests EXCEPT ![c] =
               [step |-> "judge", start |-> now, at |-> 0, before |-> used,
                row |-> [expiresAt |-> expiresAt, lastSeenAt |-> lastSeenAt]]]
          /\ UNCHANGED verdict
     ELSE /\ verdict' = [reason |-> "closed", at |-> now, before |-> used]
          /\ UNCHANGED requests
  /\ UNCHANGED <<now, role, createdAt, expiresAt, lastSeenAt, revokedAt, enabled, used>>

Expired(row) == row.expiresAt <= now \/ now - createdAt > AbsoluteTimeout[role]
IdleTooLong(row) == now - row.lastSeenAt > IdleTimeout[role]

Judge(c) ==
  LET row == requests[c].row
      before == requests[c].before
      reason == IF Expired(row) THEN "expired"
                ELSE IF IdleTooLong(row) THEN "idle-timeout" ELSE "accepted"
  IN
  /\ requests[c].step = "judge"
  /\ verdict' = [reason |-> reason, at |-> now, before |-> before]
  /\ requests' = [requests EXCEPT ![c] =
       IF reason = "accepted" THEN [@ EXCEPT !.step = "touch", !.at = now] ELSE Idle]
  /\ UNCHANGED <<now, role, createdAt, expiresAt, lastSeenAt, revokedAt, enabled, used>>

\* Mutation: the note is left out until the session is about to time out.
SeenThisPeriod(request) == request.at - request.row.lastSeenAt < IdleTimeout[role]

SeenLately(request) == request.at - request.row.lastSeenAt < TouchInterval

\* touchSession, by the time and the row of the request.
Touch(c) ==
  /\ requests[c].step = "touch"
  /\ lastSeenAt' = IF SeenLately(requests[c]) THEN lastSeenAt ELSE requests[c].at
  /\ used' = IF requests[c].at > used THEN requests[c].at ELSE used
  /\ requests' = [requests EXCEPT ![c] = Idle]
  /\ UNCHANGED <<now, role, createdAt, expiresAt, revokedAt, enabled, verdict>>

\* A logout, a change of password, or the page of the sessions.
Revoke == /\ revokedAt = NoTime /\ revokedAt' = now
          /\ UNCHANGED <<now, role, createdAt, expiresAt, lastSeenAt, enabled, requests, used, verdict>>

\* The office disables the account, or enables it again.
Decide == /\ enabled' = ~enabled
          /\ UNCHANGED <<now, role, createdAt, expiresAt, lastSeenAt, revokedAt, requests, used, verdict>>

Tick == /\ now < MaxTime /\ now' = now + 1
        /\ \A c \in Calls : requests[c].step # "idle" => now' - requests[c].start <= MaxDelay
        /\ UNCHANGED <<role, createdAt, expiresAt, lastSeenAt, revokedAt, enabled, requests, used, verdict>>

Next == \/ \E c \in Calls : Resolve(c) \/ Judge(c) \/ Touch(c)
        \/ Revoke \/ Decide \/ Tick

Spec == Init /\ [][Next]_vars
-----------------------------------------------------------------------------
(* Properties.                                                             *)

Times == 0..MaxTime
Row == [expiresAt : Nat, lastSeenAt : Times]
Request == [step : {"idle", "judge", "touch"}, start : Times, at : Times,
            row : Row, before : Times]

\* The session and the requests are well typed.
TypeOK ==
  /\ {now, createdAt, lastSeenAt, used} \subseteq Times /\ role \in Roles
  /\ expiresAt \in Nat /\ revokedAt \in Times \cup {NoTime} /\ enabled \in BOOLEAN
  /\ requests \in [Calls -> Request]
  /\ verdict.reason \in {"accepted", "closed", "expired", "idle-timeout"}

\* "Inactivite toleree avant expiration": a session that is accepted was used within
\* the idle timeout before, and was opened within the absolute one; and one that is
\* refused as idle was not used for all of the timeout, but for the interval between
\* two notes or the time two requests take - although requests that overlap may note
\* an older time over a newer one.
TimeoutsHold ==
  LET age == verdict.at - verdict.before
      Note == IF TouchInterval > 2 * MaxDelay THEN TouchInterval ELSE 2 * MaxDelay
  IN
  /\ verdict.reason = "accepted" =>
       age <= IdleTimeout[role] /\ verdict.at - createdAt <= AbsoluteTimeout[role]
  /\ verdict.reason = "idle-timeout" =>
       age + Note > IdleTimeout[role]
=============================================================================
