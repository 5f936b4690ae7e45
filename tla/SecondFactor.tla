---------------------------- MODULE SecondFactor ----------------------------
(***************************************************************************)
(* The second factor of one account: enrolment, recovery codes, the        *)
(* challenge of a login and the sessions it opens.                         *)
(*                                                                         *)
(* A call is one execution of a handler, a statement or a transaction is   *)
(* one action, and what a call has read stays in it until it writes.  The  *)
(* password typed is always right (Accounts is about passwords); the code  *)
(* may be wrong.  A code of the application is a secret and a time step, a *)
(* recovery code a batch and a number in it; both are proofs here:         *)
(* <<"totp", secret, step>> and <<"recovery", batch, number>>.             *)
(***************************************************************************)
EXTENDS Naturals, FiniteSets

CONSTANTS Calls,          \* handler executions alive at one time
          Sessions,       \* identifiers of rows of sessions, never reused
          Challenges,     \* identifiers of rows of auth_challenges, never reused
          MaxAttempts,    \* auth_challenges.max_attempts (5)
          CodesPerBatch,  \* RECOVERY_CODE_COUNT (10)
          MaxSecrets,     \* bound: secrets drawn for the account
          MaxBatches,     \* bound: batches of recovery codes
          LastStep,       \* bound: the clock, in time steps of thirty seconds
          OnePage,        \* does one settings page send its requests one by one?
          NoSession, NoChallenge

ASSUME FactorAssumption ==
  /\ IsFiniteSet(Calls) /\ IsFiniteSet(Sessions) /\ IsFiniteSet(Challenges)
  /\ MaxAttempts \in Nat \ {0} /\ CodesPerBatch \in Nat \ {0}
  /\ MaxSecrets \in Nat \ {0} /\ MaxBatches \in Nat \ {0} /\ LastStep \in Nat \ {0}
  /\ OnePage \in BOOLEAN
  /\ NoSession \notin Sessions /\ NoChallenge \notin Challenges

VARIABLES
  factor,     \* the row of user_two_factor, secret 0 when there is none
  drawn,      \* secrets drawn so far
  live,       \* recovery codes whose used_at is null
  batches,    \* batches of recovery codes made so far
  challenge,  \* challenge[k]: state and attempts
  session,    \* session[s]: state, is last_verified_at recent, the challenge behind it
  now,        \* the time step of the clock
  pc,         \* pc[c]: the statement call c is at
  call,       \* call[c]: what call c has read
  proved,     \* history: secrets a setup was confirmed with
  uses,       \* history: uses[p]: how often proof p was accepted
  compared,   \* history: compared[k]: codes compared under challenge k
  older       \* history: sessions an activation or a removal under way has to end

rows == <<factor, drawn, live, batches>>
logins == <<challenge, compared>>
records == <<proved, older>>
vars == <<rows, logins, session, now, pc, call, uses, records>>

Batch(b) == {"recovery"} \X {b} \X (1..CodesPerBatch)
Proofs == ({"totp"} \X (1..MaxSecrets) \X (1..(LastStep + 1))) \cup UNION {Batch(b) : b \in 1..MaxBatches}

NoFactor == [secret |-> 0, enabled |-> FALSE, pending |-> FALSE, lastUsed |-> 0]
Idle == [op |-> "none", session |-> NoSession, challenge |-> NoChallenge,
         secret |-> 0, step |-> 0]
OpenSessions == {s \in Sessions : session[s].state = "open"}

Init ==
  /\ factor = NoFactor /\ drawn = 0 /\ live = {} /\ batches = 0
  /\ challenge = [k \in Challenges |-> [state |-> "none", attempts |-> 0]]
  /\ session = [s \in Sessions |->
       [state |-> "none", recent |-> FALSE, challenge |-> NoChallenge]]
  /\ now = 0
  /\ pc = [c \in Calls |-> "idle"]
  /\ call = [c \in Calls |-> Idle]
  /\ proved = {} /\ uses = [p \in Proofs |-> 0]
  /\ compared = [k \in Challenges |-> 0]
  /\ older = {}

\* Call c goes on to statement at with what it has read, or returns.
Goto(c, at, read) == /\ pc' = [pc EXCEPT ![c] = at]
                     /\ call' = [call EXCEPT ![c] = read]
Return(c) == Goto(c, "idle", Idle)

-----------------------------------------------------------------------------
(* beginLogin after the password, completeTwoFactorLogin.                  *)

\* The row of the factor decides whether the password is enough.
LoginReadsFactor(c) ==
  /\ pc[c] = "idle"
  /\ Goto(c, IF factor.enabled THEN "challenge" ELSE "open", [Idle EXCEPT !.op = "login"])
  /\ UNCHANGED <<rows, logins, session, now, uses, records>>

IssueChallenge(c) ==
  /\ pc[c] = "challenge"
  /\ \E k \in Challenges :
       /\ challenge[k].state = "none"
       /\ challenge' = [challenge EXCEPT ![k].state = "live"]
  /\ Return(c)
  /\ UNCHANGED <<rows, compared, session, now, uses, records>>

Claimable(k) == challenge[k].state = "live" /\ challenge[k].attempts < MaxAttempts

\* The challenge route: the attempt is counted before anything is compared.
ClaimAttempt(c, k) ==
  /\ pc[c] = "idle" /\ Claimable(k)
  /\ challenge' = [challenge EXCEPT ![k].attempts = @ + 1]
  /\ Goto(c, "join", [Idle EXCEPT !.op = "login", !.challenge = k])
  /\ UNCHANGED <<rows, compared, session, now, uses, records>>

\* The account is read with its factor; without an enabled one the login fails.
JoinFactor(c) ==
  /\ pc[c] = "join"
  /\ IF factor.enabled THEN Goto(c, "verify", [call[c] EXCEPT !.secret = factor.secret])
     ELSE Return(c)
  /\ UNCHANGED <<rows, logins, session, now, uses, records>>

\* Mutation: the update of the last step asks for no later step.
AdvancesToo(step) == factor.secret # 0

\* The conditional update finds the row of the account, whatever secret it holds.
Advances(step) == factor.secret # 0 /\ factor.lastUsed < step

Spent(p) == live \ {p}

\* A window of one step on either side of the clock; steps count from 1.
ValidSteps == {step \in 1..(LastStep + 1) : step <= now + 1 /\ now <= step + 1}

\* What follows an accepted code: the challenge is consumed, or the session marked.
Accepted(c) == Goto(c, IF call[c].op = "login" THEN "consume" ELSE "mark", call[c])

\* The history of accepted codes leaves aside a code of a secret the row no
\* longer holds.
Used(p) == uses' = [uses EXCEPT ![p] = @ + 1]

VerifyTotp(c) ==
  \E step \in ValidSteps :
    LET p == <<"totp", call[c].secret, step>> IN
    /\ Advances(step)
    /\ factor' = [factor EXCEPT !.lastUsed = step]
    /\ IF factor.secret = call[c].secret THEN Used(p) ELSE uses' = uses
    /\ Accepted(c)
    /\ live' = live

VerifyRecovery(c) ==
  \E p \in live :
    /\ live' = Spent(p)
    /\ Used(p)
    /\ Accepted(c)
    /\ factor' = factor

\* verifySecondFactor: a wrong code ends the call.
VerifyCode(c) ==
  /\ pc[c] = "verify"
  /\ \/ VerifyTotp(c)
     \/ VerifyRecovery(c)
     \/ Return(c) /\ UNCHANGED <<factor, live, uses>>
  /\ compared' = [k \in Challenges |->
                    IF k = call[c].challenge THEN compared[k] + 1 ELSE compared[k]]
  /\ UNCHANGED <<drawn, batches, challenge, session, now, records>>

\* Mutation: the challenge is marked by its identifier alone.
ConsumableTwice(k) == challenge[k].state # "none"

Consumable(k) == challenge[k].state \in {"live", "expired"}

ConsumeChallenge(c) ==
  LET k == call[c].challenge IN
  /\ pc[c] = "consume"
  /\ IF Consumable(k)
     THEN challenge' = [challenge EXCEPT ![k].state = "consumed"] /\ Goto(c, "open", call[c])
     ELSE challenge' = challenge /\ Return(c)
  /\ UNCHANGED <<rows, compared, session, now, uses, records>>

OpenSession(c) ==
  /\ pc[c] = "open"
  /\ \E s \in Sessions :
       /\ session[s].state = "none"
       /\ session' = [session EXCEPT ![s] =
            [state |-> "open", recent |-> TRUE, challenge |-> call[c].challenge]]
  /\ Return(c)
  /\ UNCHANGED <<rows, logins, now, uses, records>>

-----------------------------------------------------------------------------
(* The settings of an open session: setup, confirmation, removal, codes.   *)

Settings == {"setup", "confirm", "remove", "replace"}
InSettings == {c \in Calls : call[c].op \in Settings}

\* The pages disable their buttons while a request is pending.
MayAsk(c, s) == pc[c] = "idle" /\ s \in OpenSessions /\ (OnePage => InSettings = {})

\* verifySensitiveAction reads the account and the factor together: an enabled
\* factor asks for a code before the session is marked as verified.
StartSensitive(c, s, op) ==
  /\ MayAsk(c, s)
  /\ Goto(c, IF factor.enabled THEN "verify" ELSE "mark",
          [Idle EXCEPT !.op = op, !.session = s, !.secret = factor.secret])
  /\ UNCHANGED <<rows, logins, session, now, uses, records>>

SetupTwoFactor(c, s) == StartSensitive(c, s, "setup")
RemoveTwoFactor(c, s) == StartSensitive(c, s, "remove")
ReplaceRecoveryCodes(c, s) == StartSensitive(c, s, "replace")

MarkVerified(c) ==
  /\ pc[c] = "mark"
  /\ session' = [session EXCEPT ![call[c].session].recent = TRUE]
  /\ Goto(c, "status", call[c])
  /\ UNCHANGED <<rows, logins, now, uses, records>>

\* Mutation: a setup does not look at the status.
StatusForgotten(op) == op = "setup" \/ factor.enabled

\* A setup wants no enabled factor, a removal or new codes want one.
StatusAllows(op) == factor.enabled = (op # "setup")

ReadStatus(c) ==
  /\ pc[c] = "status"
  /\ IF StatusAllows(call[c].op) THEN Goto(c, call[c].op, call[c]) ELSE Return(c)
  /\ UNCHANGED <<rows, logins, session, now, uses, records>>

\* beginTwoFactorSetup: the row is replaced whatever it has become.
DrawSecret(c) ==
  /\ pc[c] = "setup" /\ drawn < MaxSecrets
  /\ drawn' = drawn + 1
  /\ factor' = [NoFactor EXCEPT !.secret = drawn + 1, !.pending = TRUE]
  /\ Goto(c, "wipe", call[c])
  /\ UNCHANGED <<live, batches, logins, session, now, uses, records>>

WipeCodes(c) ==
  /\ pc[c] = "wipe"
  /\ live' = {}
  /\ Return(c)
  /\ UNCHANGED <<factor, drawn, batches, logins, session, now, uses, records>>

\* activateTwoFactor wants a session verified within a quarter of an hour.
ActivateTwoFactor(c, s) ==
  /\ MayAsk(c, s) /\ session[s].recent
  /\ Goto(c, "pending", [Idle EXCEPT !.op = "confirm", !.session = s])
  /\ UNCHANGED <<rows, logins, session, now, uses, records>>

\* The pending row is read and the code compared with the secret it holds.
ReadPending(c) ==
  /\ pc[c] = "pending"
  /\ \/ /\ factor.pending /\ ~factor.enabled
        /\ \E step \in ValidSteps :
             Goto(c, "activate", [call[c] EXCEPT !.secret = factor.secret, !.step = step])
     \/ Return(c)
  /\ UNCHANGED <<rows, logins, session, now, uses, records>>

\* Mutation: the code is compared after the factor was enabled.
ActivateUnproved(c) ==
  /\ proved' = proved
  /\ factor' = [factor EXCEPT !.enabled = TRUE, !.pending = FALSE]

\* The update is by user: the row may hold another secret by now, or be gone.
EnableFactor(c) ==
  /\ proved' = proved \cup {call[c].secret}
  /\ factor' = IF factor.secret = 0 THEN factor
               ELSE [factor EXCEPT !.enabled = TRUE, !.pending = FALSE,
                                   !.lastUsed = call[c].step]

NewBatch == /\ batches < MaxBatches
            /\ batches' = batches + 1
            /\ live' = Batch(batches + 1)

\* What an activation or a removal finds open is to be closed by it.
Marked(c) == older' = OpenSessions \ {call[c].session}

ConfirmSetup(c) ==
  /\ pc[c] = "activate"
  /\ EnableFactor(c)
  /\ NewBatch
  /\ Used(<<"totp", call[c].secret, call[c].step>>)
  /\ Marked(c)
  /\ Goto(c, "revoke", call[c])
  /\ UNCHANGED <<drawn, logins, session, now>>

\* Mutation: the codes stay when the factor is removed.
RemovedCodesStay == live

RemovedCodes == {}

DisableFactor(c) ==
  /\ pc[c] = "remove"
  /\ factor' = NoFactor /\ live' = RemovedCodes
  /\ Marked(c)
  /\ Goto(c, "revoke", call[c])
  /\ UNCHANGED <<drawn, batches, logins, session, now, uses, proved>>

\* Mutation: the session that asked is the one that is closed.
RevokedOwn(c) == {call[c].session}

Revoked(c) == OpenSessions \ {call[c].session}

\* A statement of its own; an activation then reads the status again.
RevokeOtherSessions(c) ==
  /\ pc[c] = "revoke"
  /\ session' = [s \in Sessions |->
       IF s \in Revoked(c) THEN [session[s] EXCEPT !.state = "closed"] ELSE session[s]]
  /\ older' = older \ Revoked(c)
  /\ Return(c)
  /\ UNCHANGED <<rows, logins, now, uses, proved>>

RegenerateCodes(c) ==
  /\ pc[c] = "replace"
  /\ NewBatch
  /\ Return(c)
  /\ UNCHANGED <<factor, drawn, logins, session, now, uses, records>>

-----------------------------------------------------------------------------
(* Time, browsers and processes.                                           *)

Tick ==
  /\ now < LastStep
  /\ now' = now + 1
  /\ UNCHANGED <<rows, logins, session, pc, call, uses, records>>

SetupExpires ==
  /\ factor.pending
  /\ factor' = [factor EXCEPT !.pending = FALSE]
  /\ UNCHANGED <<drawn, live, batches, logins, session, now, pc, call, uses, records>>

ChallengeExpires(k) ==
  /\ challenge[k].state = "live"
  /\ challenge' = [challenge EXCEPT ![k].state = "expired"]
  /\ UNCHANGED <<rows, compared, session, now, pc, call, uses, records>>

VerificationAges(s) ==
  /\ s \in OpenSessions /\ session[s].recent
  /\ session' = [session EXCEPT ![s].recent = FALSE]
  /\ UNCHANGED <<rows, logins, now, pc, call, uses, records>>

\* logoutUser, revokeOwnedSession, or the session times out.
CloseSession(s) ==
  /\ s \in OpenSessions
  /\ session' = [session EXCEPT ![s].state = "closed"]
  /\ older' = older \ {s}
  /\ UNCHANGED <<rows, logins, now, pc, call, uses, proved>>

\* A statement fails or the process dies: what was committed stays, and nobody
\* revokes the sessions it had to revoke.
CallDies(c) ==
  /\ pc[c] # "idle"
  /\ older' = IF pc[c] = "revoke" THEN {} ELSE older
  /\ Return(c)
  /\ UNCHANGED <<rows, logins, session, now, uses, proved>>

LoginStep(c) ==
  \/ LoginReadsFactor(c) \/ IssueChallenge(c) \/ JoinFactor(c)
  \/ \E k \in Challenges : ClaimAttempt(c, k)
  \/ ConsumeChallenge(c) \/ OpenSession(c)

SettingsStep(c) ==
  \/ \E s \in Sessions : \/ SetupTwoFactor(c, s) \/ RemoveTwoFactor(c, s)
                         \/ ReplaceRecoveryCodes(c, s) \/ ActivateTwoFactor(c, s)
  \/ MarkVerified(c) \/ ReadStatus(c) \/ DrawSecret(c) \/ WipeCodes(c)
  \/ ReadPending(c) \/ ConfirmSetup(c) \/ DisableFactor(c)
  \/ RevokeOtherSessions(c) \/ RegenerateCodes(c)

Next ==
  \/ \E c \in Calls : LoginStep(c) \/ VerifyCode(c) \/ SettingsStep(c) \/ CallDies(c)
  \/ \E k \in Challenges : ChallengeExpires(k)
  \/ \E s \in Sessions : VerificationAges(s) \/ CloseSession(s)
  \/ Tick \/ SetupExpires

Spec == Init /\ [][Next]_vars
-----------------------------------------------------------------------------
(* Properties.                                                             *)

Statements == {"idle", "challenge", "join", "verify", "consume", "open", "mark", "status",
               "setup", "wipe", "pending", "activate", "remove", "replace", "revoke"}
Readings == [op : Settings \cup {"none", "login"}, session : Sessions \cup {NoSession},
             challenge : Challenges \cup {NoChallenge}, secret : 0..MaxSecrets,
             step : 0..(LastStep + 1)]

\* Every row, call and record has its type.
TypeOK ==
  /\ factor \in [secret : 0..MaxSecrets, enabled : BOOLEAN, pending : BOOLEAN,
                 lastUsed : 0..(LastStep + 1)]
  /\ drawn \in 0..MaxSecrets /\ batches \in 0..MaxBatches
  /\ live \subseteq Proofs
  /\ challenge \in [Challenges -> [state : {"none", "live", "expired", "consumed"},
                                   attempts : 0..MaxAttempts]]
  /\ session \in [Sessions -> [state : {"none", "open", "closed"}, recent : BOOLEAN,
                               challenge : Challenges \cup {NoChallenge}]]
  /\ now \in 0..LastStep
  /\ pc \in [Calls -> Statements] /\ call \in [Calls -> Readings]
  /\ proved \subseteq 1..MaxSecrets /\ uses \in [Proofs -> Nat]
  /\ compared \in [Challenges -> Nat]
  /\ older \subseteq Sessions

\* Calls that are about to open a session for challenge k, and sessions opened for it.
Opening(k) == {c \in Calls : pc[c] = "open" /\ call[c].challenge = k}
OpenedFor(k) == {s \in Sessions : session[s].challenge = k}

\* A challenge stands for at most MaxAttempts comparisons of a code and at most
\* one session, opened or about to be, however many browsers answer it at once and
\* whatever expires, fails or dies meanwhile.
ChallengesAreBounded ==
  \A k \in Challenges :
    /\ compared[k] <= MaxAttempts
    /\ \A c, e \in Opening(k) : c = e
    /\ \A s, t \in OpenedFor(k) : s = t
    /\ Opening(k) = {} \/ OpenedFor(k) = {}

\* "last_used_time_step empeche d'utiliser deux fois le meme pas": a code of the
\* application or of a recovery batch is accepted once, by logins and by settings
\* together.
CodesWorkOnce == \A p \in Proofs : uses[p] <= 1

\* The recovery codes kept are those of the last batch that were not used, and
\* only while the factor is enabled: enrolment, removal and replacement each write
\* the factor and the codes in more than one place.
RecoveryCodesMatchFactor ==
  live = IF factor.enabled THEN {p \in Batch(batches) : uses[p] = 0} ELSE {}

\* A secret is in force only after a code of it was shown to the server.
EnabledSecretWasProved == factor.enabled => factor.secret \in proved

\* Once an activation or a removal is over, and did not die before its last
\* statement, no session that was open before is still open but its own.
OlderSessionsEnd ==
  (\A c \in Calls : pc[c] # "revoke") => older = {}

\* "La desactivation exige [...] un second facteur valide": only a removal switches
\* an enabled factor off.
OnlyRemovalDisables ==
  [][factor.enabled /\ ~factor'.enabled => \E c \in Calls : pc[c] = "remove" /\ pc'[c] = "revoke"]_vars
=============================================================================
