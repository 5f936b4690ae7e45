------------------------ MODULE SecondFactor_proofs ------------------------
(***************************************************************************)
(* For every number of calls, sessions, challenges, secrets and codes: a   *)
(* challenge is bounded; and as long as one settings page sends its        *)
(* requests one by one, what the second factor promises of its secret, of  *)
(* its codes and of the older sessions.                                    *)
(***************************************************************************)
EXTENDS SecondFactor, FiniteSetTheorems, TLAPS

Sensitive == {"setup", "remove", "replace"}

\* What a call at a statement is about.
KnownAt(at, read) ==
  /\ at = "idle" => read.op = "none"
  /\ at \in {"challenge", "join", "consume", "open"} => read.op = "login"
  /\ at \in {"join", "consume"} => read.challenge \in Challenges
  /\ at = "verify" => /\ read.op \in Sensitive \cup {"login"}
                      /\ read.op = "login" => read.challenge \in Challenges
  /\ at \in {"mark", "status"} => read.op \in Sensitive
  /\ at \in {"setup", "wipe"} => read.op = "setup"
  /\ at \in {"remove", "replace"} => read.op = at
  /\ at \in {"pending", "activate"} => read.op = "confirm"
  /\ at = "activate" => read.secret \in 1..MaxSecrets
  /\ at = "revoke" => read.op \in {"confirm", "remove"}
  /\ read.op \in Settings => read.challenge = NoChallenge

Known == \A c \in Calls : KnownAt(pc[c], call[c])

WellTyped == TypeOK /\ Known /\ (factor.pending => factor.secret # 0)

-----------------------------------------------------------------------------
(* Types.                                                                  *)

LEMMA GotoTyping ==
  ASSUME WellTyped, NEW c \in Calls, NEW at \in Statements, NEW read \in Readings,
         Goto(c, at, read), KnownAt(at, read)
  PROVE  pc' \in [Calls -> Statements] /\ call' \in [Calls -> Readings] /\ Known'
<1>1. pc' \in [Calls -> Statements] /\ call' \in [Calls -> Readings]
      /\ \A e \in Calls : IF e = c THEN pc'[e] = at /\ call'[e] = read
                          ELSE pc'[e] = pc[e] /\ call'[e] = call[e]
  BY DEF Goto, WellTyped, TypeOK
<1>2. \A e \in Calls : KnownAt(pc'[e], call'[e])
  BY <1>1 DEF WellTyped, Known
<1>3. Known' BY <1>2 DEF Known, KnownAt, Sensitive, Settings
<1> QED BY <1>1, <1>3

\* The readings a call may have, from those it has.
LEMMA ReadingsOfCall ==
  ASSUME WellTyped, NEW c \in Calls
  PROVE  /\ Idle \in Readings /\ call[c] \in Readings /\ KnownAt(pc[c], call[c])
         /\ Idle.op = "none" /\ Idle.challenge = NoChallenge
         /\ \A k \in Challenges : /\ [Idle EXCEPT !.op = "login", !.challenge = k] \in Readings
                                  /\ [Idle EXCEPT !.op = "login", !.challenge = k].op = "login"
                                  /\ [Idle EXCEPT !.op = "login", !.challenge = k].challenge = k
         /\ [Idle EXCEPT !.op = "login"] \in Readings /\ [Idle EXCEPT !.op = "login"].op = "login"
         /\ [Idle EXCEPT !.op = "login"].challenge = NoChallenge
         /\ factor.secret \in 0..MaxSecrets
<1>1. Idle \in Readings /\ Idle.op = "none" /\ Idle.challenge = NoChallenge
  BY FactorAssumption DEF Idle, Readings
<1>2. call[c] \in Readings /\ KnownAt(pc[c], call[c]) /\ factor.secret \in 0..MaxSecrets
  BY DEF WellTyped, TypeOK, Known
<1>3. ASSUME NEW k \in Challenges
      PROVE  /\ [Idle EXCEPT !.op = "login", !.challenge = k] \in Readings
             /\ [Idle EXCEPT !.op = "login", !.challenge = k].op = "login"
             /\ [Idle EXCEPT !.op = "login", !.challenge = k].challenge = k
  BY <1>1 DEF Readings
<1>4. /\ [Idle EXCEPT !.op = "login"] \in Readings /\ [Idle EXCEPT !.op = "login"].op = "login"
      /\ [Idle EXCEPT !.op = "login"].challenge = NoChallenge
  BY <1>1 DEF Readings
<1> QED BY <1>1, <1>2, <1>3, <1>4

LEMMA LoginTyping ==
  ASSUME WellTyped, NEW c \in Calls, LoginStep(c)
  PROVE  WellTyped'
<1> DEFINE Moved == pc' \in [Calls -> Statements] /\ call' \in [Calls -> Readings] /\ Known'
<1>1. ASSUME NEW at \in Statements, NEW read \in Readings, Goto(c, at, read), KnownAt(at, read)
      PROVE  Moved
  BY <1>1, GotoTyping
<1> HIDE DEF Moved
<1>2. {"idle", "challenge", "open", "join", "verify", "consume"} \subseteq Statements BY DEF Statements
<1>3. \A read \in Readings : read.op = "none" => KnownAt("idle", read)
  BY DEF KnownAt, Settings
<1>4. Return(c) => Moved BY <1>1, <1>2, <1>3, ReadingsOfCall DEF Return
<1>5. CASE LoginReadsFactor(c)
  <2>1. KnownAt("challenge", [Idle EXCEPT !.op = "login"]) /\ KnownAt("open", [Idle EXCEPT !.op = "login"])
    BY ReadingsOfCall DEF KnownAt, Settings
  <2>2. Moved BY <1>5, <2>1, <1>1, <1>2, ReadingsOfCall DEF LoginReadsFactor
  <2> QED BY <1>5, <2>2 DEF LoginReadsFactor, Moved, WellTyped, TypeOK, rows, logins, records
<1>6. CASE IssueChallenge(c)
  <2>1. Moved BY <1>4, <1>6 DEF IssueChallenge
  <2>2. challenge' \in [Challenges -> [state : {"none", "live", "expired", "consumed"},
                                       attempts : 0..MaxAttempts]]
    BY <1>6 DEF IssueChallenge, WellTyped, TypeOK
  <2> QED BY <1>6, <2>1, <2>2 DEF IssueChallenge, Moved, WellTyped, TypeOK, rows, records
<1>7. CASE \E k \in Challenges : ClaimAttempt(c, k)
  <2>1. PICK k \in Challenges : ClaimAttempt(c, k) BY <1>7
  <2>2. KnownAt("join", [Idle EXCEPT !.op = "login", !.challenge = k])
    BY ReadingsOfCall DEF KnownAt, Settings
  <2>3. Moved BY <2>1, <2>2, <1>1, <1>2, ReadingsOfCall DEF ClaimAttempt
  <2>4. challenge[k].attempts + 1 \in 0..MaxAttempts
    BY <2>1, FactorAssumption DEF ClaimAttempt, Claimable, WellTyped, TypeOK
  <2>5. challenge' \in [Challenges -> [state : {"none", "live", "expired", "consumed"},
                                       attempts : 0..MaxAttempts]]
    BY <2>1, <2>4 DEF ClaimAttempt, WellTyped, TypeOK
  <2> QED BY <2>1, <2>3, <2>5 DEF ClaimAttempt, Moved, WellTyped, TypeOK, rows, records
<1>8. CASE JoinFactor(c)
  <2>1. [call[c] EXCEPT !.secret = factor.secret] \in Readings
        /\ [call[c] EXCEPT !.secret = factor.secret].op = call[c].op
        /\ [call[c] EXCEPT !.secret = factor.secret].challenge = call[c].challenge
    BY ReadingsOfCall DEF Readings
  <2>2. KnownAt("verify", [call[c] EXCEPT !.secret = factor.secret])
    BY <1>8, <2>1, ReadingsOfCall DEF JoinFactor, KnownAt, Settings
  <2>3. Moved BY <1>8, <2>1, <2>2, <1>1, <1>2, <1>4 DEF JoinFactor
  <2> QED BY <1>8, <2>3 DEF JoinFactor, Moved, WellTyped, TypeOK, rows, logins, records
<1>9. CASE ConsumeChallenge(c)
  <2>1. KnownAt("open", call[c])
    BY <1>9, ReadingsOfCall DEF ConsumeChallenge, KnownAt, Settings
  <2>2. Moved BY <1>9, <2>1, <1>1, <1>2, <1>4, ReadingsOfCall DEF ConsumeChallenge
  <2>3. challenge' \in [Challenges -> [state : {"none", "live", "expired", "consumed"},
                                       attempts : 0..MaxAttempts]]
    BY <1>9 DEF ConsumeChallenge, WellTyped, TypeOK
  <2> QED BY <1>9, <2>2, <2>3 DEF ConsumeChallenge, Moved, WellTyped, TypeOK, rows, records
<1>10. CASE OpenSession(c)
  <2>1. Moved BY <1>4, <1>10 DEF OpenSession
  <2>2. call[c].challenge \in Challenges \cup {NoChallenge} BY ReadingsOfCall DEF Readings
  <2>3. session' \in [Sessions -> [state : {"none", "open", "closed"}, recent : BOOLEAN,
                                   challenge : Challenges \cup {NoChallenge}]]
    BY <1>10, <2>2 DEF OpenSession, WellTyped, TypeOK
  <2> QED BY <1>10, <2>1, <2>3 DEF OpenSession, Moved, WellTyped, TypeOK, rows, logins, records
<1> QED BY <1>5, <1>6, <1>7, <1>8, <1>9, <1>10 DEF LoginStep

LEMMA StepsOfClock ==
  ASSUME WellTyped
  PROVE  ValidSteps \subseteq 1..(LastStep + 1) /\ ValidSteps \subseteq 0..(LastStep + 1)
BY FactorAssumption DEF ValidSteps

LEMMA UsesTyping ==
  ASSUME WellTyped, NEW p, Used(p)
  PROVE  uses' \in [Proofs -> Nat]
<1>1. uses' = [uses EXCEPT ![p] = uses[p] + 1] BY DEF Used
<1>2. uses \in [Proofs -> Nat] BY DEF WellTyped, TypeOK
<1>3. CASE p \in Proofs BY <1>1, <1>2, <1>3
<1>4. CASE p \notin Proofs BY <1>1, <1>2, <1>4
<1> QED BY <1>3, <1>4

LEMMA VerifyTyping ==
  ASSUME WellTyped, NEW c \in Calls, VerifyCode(c)
  PROVE  WellTyped'
<1>1. call[c].op \in Sensitive \cup {"login"} /\ call[c].op \in Settings \cup {"login"}
      /\ (call[c].op = "login" => call[c].challenge \in Challenges)
      /\ (call[c].op \in Settings => call[c].challenge = NoChallenge)
  BY ReadingsOfCall DEF VerifyCode, KnownAt, Sensitive, Settings
<1>2. KnownAt(IF call[c].op = "login" THEN "consume" ELSE "mark", call[c])
  BY <1>1 DEF KnownAt, Sensitive, Settings
<1>3. {"idle", "consume", "mark"} \subseteq Statements BY DEF Statements
<1>4. KnownAt("idle", Idle) BY ReadingsOfCall DEF KnownAt, Settings
<1>5. Accepted(c) \/ Return(c)
  BY DEF VerifyCode, VerifyTotp, VerifyRecovery
<1>6. pc' \in [Calls -> Statements] /\ call' \in [Calls -> Readings] /\ Known'
  <2>1. CASE Accepted(c)
    BY <2>1, <1>2, <1>3, ReadingsOfCall, GotoTyping DEF Accepted
  <2>2. CASE Return(c)
    BY <2>2, <1>3, <1>4, ReadingsOfCall, GotoTyping DEF Return
  <2> QED BY <1>5, <2>1, <2>2
<1>7. uses' \in [Proofs -> Nat]
  <2>1. \/ uses' = uses \/ \E p : Used(p)
    BY DEF VerifyCode, VerifyTotp, VerifyRecovery
  <2> QED BY <2>1, UsesTyping DEF WellTyped, TypeOK
<1>8. /\ factor' \in [secret : 0..MaxSecrets, enabled : BOOLEAN, pending : BOOLEAN,
                      lastUsed : 0..(LastStep + 1)]
      /\ factor'.pending => factor'.secret # 0
  <2>1. \/ factor' = factor
        \/ \E step \in ValidSteps : factor' = [factor EXCEPT !.lastUsed = step]
    BY DEF VerifyCode, VerifyTotp, VerifyRecovery
  <2> QED BY <2>1, StepsOfClock DEF WellTyped, TypeOK
<1>9. live' \subseteq Proofs
  BY DEF VerifyCode, VerifyTotp, VerifyRecovery, Spent, WellTyped, TypeOK
<1>10. compared' \in [Challenges -> Nat]
  BY DEF VerifyCode, WellTyped, TypeOK
<1> QED BY <1>6, <1>7, <1>8, <1>9, <1>10 DEF VerifyCode, WellTyped, TypeOK, records

LEMMA SettingsTyping ==
  ASSUME WellTyped, NEW c \in Calls, SettingsStep(c)
  PROVE  WellTyped'
<1> DEFINE Moved == pc' \in [Calls -> Statements] /\ call' \in [Calls -> Readings] /\ Known'
<1>1. ASSUME NEW at \in Statements, NEW read \in Readings, Goto(c, at, read), KnownAt(at, read)
      PROVE  Moved
  BY <1>1, GotoTyping
<1>2. Moved /\ UNCHANGED <<rows, logins, session, now, uses, records>> => WellTyped'
  BY DEF WellTyped, TypeOK, rows, logins, records
<1> HIDE DEF Moved
<1>3. /\ {"idle", "verify", "mark", "status", "setup", "remove", "replace", "wipe", "pending",
          "activate", "revoke"} \subseteq Statements
      /\ Sensitive \subseteq Settings
  BY DEF Statements, Sensitive, Settings
<1>4. Return(c) => Moved
  BY <1>1, <1>3, ReadingsOfCall DEF Return, KnownAt, Settings
<1>5. /\ factor \in [secret : 0..MaxSecrets, enabled : BOOLEAN, pending : BOOLEAN,
                     lastUsed : 0..(LastStep + 1)]
      /\ drawn \in 0..MaxSecrets /\ batches \in 0..MaxBatches /\ live \subseteq Proofs
      /\ session \in [Sessions -> [state : {"none", "open", "closed"}, recent : BOOLEAN,
                                   challenge : Challenges \cup {NoChallenge}]]
      /\ MaxSecrets \in Nat /\ MaxBatches \in Nat /\ LastStep \in Nat
      /\ factor.pending => factor.secret # 0
      /\ NoFactor \in [secret : 0..MaxSecrets, enabled : BOOLEAN, pending : BOOLEAN,
                       lastUsed : 0..(LastStep + 1)]
      /\ OpenSessions \subseteq Sessions
  BY FactorAssumption DEF WellTyped, TypeOK, NoFactor, OpenSessions
<1>6. NewBatch => batches' \in 0..MaxBatches /\ live' \subseteq Proofs
  <2> SUFFICES ASSUME NewBatch PROVE batches' \in 0..MaxBatches /\ live' \subseteq Proofs
    OBVIOUS
  <2>1. batches + 1 \in 1..MaxBatches BY <1>5 DEF NewBatch
  <2>2. Batch(batches + 1) \subseteq Proofs BY <2>1 DEF Proofs
  <2> QED BY <2>1, <2>2, <1>5 DEF NewBatch
<1>7. CASE \E s \in Sessions : SetupTwoFactor(c, s) \/ RemoveTwoFactor(c, s) \/ ReplaceRecoveryCodes(c, s)
  <2>1. PICK s \in Sessions, op \in Sensitive : StartSensitive(c, s, op)
    BY <1>7 DEF SetupTwoFactor, RemoveTwoFactor, ReplaceRecoveryCodes, Sensitive
  <2> DEFINE read == [Idle EXCEPT !.op = op, !.session = s, !.secret = factor.secret]
  <2>2. read \in Readings /\ read.op = op /\ read.challenge = NoChallenge
    BY <1>3, ReadingsOfCall DEF Readings
  <2> HIDE DEF read
  <2>3. KnownAt("verify", read) /\ KnownAt("mark", read)
    BY <2>2 DEF KnownAt, Sensitive, Settings
  <2>4. Goto(c, IF factor.enabled THEN "verify" ELSE "mark", read)
        /\ UNCHANGED <<rows, logins, session, now, uses, records>>
    BY <2>1 DEF StartSensitive, read
  <2> QED BY <2>2, <2>3, <2>4, <1>1, <1>2, <1>3
<1>8. CASE \E s \in Sessions : ActivateTwoFactor(c, s)
  <2>1. PICK s \in Sessions : ActivateTwoFactor(c, s) BY <1>8
  <2> DEFINE read == [Idle EXCEPT !.op = "confirm", !.session = s]
  <2>2. read \in Readings /\ read.op = "confirm" /\ read.challenge = NoChallenge
    BY ReadingsOfCall DEF Readings, Settings
  <2> HIDE DEF read
  <2>3. KnownAt("pending", read) BY <2>2 DEF KnownAt, Sensitive
  <2>4. Goto(c, "pending", read) /\ UNCHANGED <<rows, logins, session, now, uses, records>>
    BY <2>1 DEF ActivateTwoFactor, read
  <2> QED BY <2>2, <2>3, <2>4, <1>1, <1>2, <1>3
<1>9. CASE MarkVerified(c)
  <2>1. KnownAt("status", call[c]) BY <1>9, ReadingsOfCall DEF MarkVerified, KnownAt
  <2>2. Moved BY <1>9, <2>1, <1>1, <1>3, ReadingsOfCall DEF MarkVerified
  <2>3. session' \in [Sessions -> [state : {"none", "open", "closed"}, recent : BOOLEAN,
                                   challenge : Challenges \cup {NoChallenge}]]
    BY <1>5, <1>9 DEF MarkVerified
  <2> QED BY <1>9, <2>2, <2>3 DEF MarkVerified, Moved, WellTyped, TypeOK, rows, logins, records
<1>10. CASE ReadStatus(c)
  <2>1. call[c].op \in Sensitive /\ KnownAt(call[c].op, call[c])
    BY <1>10, ReadingsOfCall DEF ReadStatus, KnownAt, Sensitive
  <2>2. call[c].op \in Statements BY <1>3, <2>1 DEF Sensitive
  <2> QED BY <1>10, <2>1, <2>2, <1>1, <1>2, <1>3, <1>4, ReadingsOfCall DEF ReadStatus
<1>11. CASE DrawSecret(c)
  <2>1. KnownAt("wipe", call[c]) BY <1>11, ReadingsOfCall DEF DrawSecret, KnownAt
  <2>2. Moved BY <1>11, <2>1, <1>1, <1>3, ReadingsOfCall DEF DrawSecret
  <2>3. drawn + 1 \in 1..MaxSecrets BY <1>5, <1>11 DEF DrawSecret
  <2>4. /\ [NoFactor EXCEPT !.secret = drawn + 1, !.pending = TRUE]
             \in [secret : 0..MaxSecrets, enabled : BOOLEAN, pending : BOOLEAN,
                  lastUsed : 0..(LastStep + 1)]
        /\ [NoFactor EXCEPT !.secret = drawn + 1, !.pending = TRUE].secret = drawn + 1
    <3>1. drawn + 1 \in 0..MaxSecrets BY <1>5, <2>3
    <3> QED BY <1>5, <3>1
  <2> QED BY <1>11, <2>2, <2>3, <2>4 DEF DrawSecret, Moved, WellTyped, TypeOK, logins, records
<1>12. CASE WipeCodes(c)
  BY <1>4, <1>12 DEF WipeCodes, Moved, WellTyped, TypeOK, logins, records
<1>13. CASE ReadPending(c)
  <2>1. CASE Return(c) /\ UNCHANGED <<rows, logins, session, now, uses, records>>
    BY <2>1, <1>2, <1>4
  <2>2. CASE ~Return(c)
    <3>1. PICK step \in ValidSteps :
            factor.pending /\ Goto(c, "activate", [call[c] EXCEPT !.secret = factor.secret, !.step = step])
      BY <1>13, <2>2 DEF ReadPending
    <3> DEFINE read == [call[c] EXCEPT !.secret = factor.secret, !.step = step]
    <3>2. step \in 0..(LastStep + 1) /\ factor.secret \in 1..MaxSecrets
      BY <1>5, <3>1, StepsOfClock
    <3>3. /\ read \in Readings /\ read.op = call[c].op /\ read.challenge = call[c].challenge
          /\ read.secret = factor.secret
      BY <3>2, ReadingsOfCall DEF Readings
    <3> HIDE DEF read
    <3>4. KnownAt("activate", read)
      BY <1>13, <3>2, <3>3, ReadingsOfCall DEF ReadPending, KnownAt, Sensitive
    <3> QED BY <1>13, <3>1, <3>3, <3>4, <1>1, <1>2, <1>3 DEF ReadPending, read
  <2> QED BY <1>13, <2>1, <2>2 DEF ReadPending
<1>14. CASE ConfirmSetup(c)
  <2>1. call[c].secret \in 1..MaxSecrets /\ call[c].step \in 0..(LastStep + 1)
    BY <1>14, ReadingsOfCall DEF ConfirmSetup, KnownAt, Readings
  <2>2. KnownAt("revoke", call[c]) BY <1>14, ReadingsOfCall DEF ConfirmSetup, KnownAt
  <2>3. Moved BY <1>14, <2>2, <1>1, <1>3, ReadingsOfCall DEF ConfirmSetup
  <2>4. /\ factor' \in [secret : 0..MaxSecrets, enabled : BOOLEAN, pending : BOOLEAN,
                        lastUsed : 0..(LastStep + 1)]
        /\ factor'.pending => factor'.secret # 0
        /\ proved' \subseteq 1..MaxSecrets
    BY <1>5, <1>14, <2>1 DEF ConfirmSetup, EnableFactor, WellTyped, TypeOK
  <2>5. uses' \in [Proofs -> Nat] BY <1>14, UsesTyping DEF ConfirmSetup
  <2>6. older' \subseteq Sessions BY <1>5, <1>14 DEF ConfirmSetup, Marked
  <2> QED BY <1>6, <1>14, <2>3, <2>4, <2>5, <2>6 DEF ConfirmSetup, Moved, WellTyped, TypeOK, logins
<1>15. CASE DisableFactor(c)
  <2>1. KnownAt("revoke", call[c]) BY <1>15, ReadingsOfCall DEF DisableFactor, KnownAt
  <2>2. Moved BY <1>15, <2>1, <1>1, <1>3, ReadingsOfCall DEF DisableFactor
  <2>3. older' \subseteq Sessions BY <1>5, <1>15 DEF DisableFactor, Marked
  <2>4. NoFactor.pending = FALSE BY DEF NoFactor
  <2> QED BY <1>5, <1>15, <2>2, <2>3, <2>4
          DEF DisableFactor, RemovedCodes, Moved, WellTyped, TypeOK, logins
<1>16. CASE RevokeOtherSessions(c)
  <2>1. session' \in [Sessions -> [state : {"none", "open", "closed"}, recent : BOOLEAN,
                                   challenge : Challenges \cup {NoChallenge}]]
    BY <1>5, <1>16 DEF RevokeOtherSessions
  <2>2. older' \subseteq Sessions BY <1>16 DEF RevokeOtherSessions, WellTyped, TypeOK
  <2> QED BY <1>4, <1>16, <2>1, <2>2 DEF RevokeOtherSessions, Moved, WellTyped, TypeOK, rows, logins
<1>17. CASE RegenerateCodes(c)
  BY <1>4, <1>6, <1>17 DEF RegenerateCodes, Moved, WellTyped, TypeOK, logins, records
<1> QED BY <1>7, <1>8, <1>9, <1>10, <1>11, <1>12, <1>13, <1>14, <1>15, <1>16, <1>17 DEF SettingsStep

LEMMA StepTyping ==
  ASSUME WellTyped, [Next]_vars
  PROVE  WellTyped'
<1>1. CASE UNCHANGED vars
  BY <1>1 DEF vars, rows, logins, records, WellTyped, Known, KnownAt, TypeOK, Sensitive, Settings
<1>2. ASSUME NEW c \in Calls, CallDies(c) PROVE WellTyped'
  <2>1. KnownAt("idle", Idle) /\ "idle" \in Statements
    BY ReadingsOfCall DEF KnownAt, Settings, Statements
  <2>2. pc' \in [Calls -> Statements] /\ call' \in [Calls -> Readings] /\ Known'
    BY <1>2, <2>1, ReadingsOfCall, GotoTyping DEF CallDies, Return
  <2> QED BY <1>2, <2>2 DEF CallDies, WellTyped, TypeOK, rows, logins
<1>3. ASSUME UNCHANGED <<pc, call>> PROVE Known'
  BY <1>3 DEF WellTyped, Known, KnownAt, Sensitive, Settings
<1>4. ASSUME NEW k \in Challenges, ChallengeExpires(k) PROVE WellTyped'
  BY <1>3, <1>4 DEF ChallengeExpires, WellTyped, TypeOK, rows, records
<1>5. ASSUME NEW s \in Sessions, VerificationAges(s) \/ CloseSession(s) PROVE WellTyped'
  <2>1. session' \in [Sessions -> [state : {"none", "open", "closed"}, recent : BOOLEAN,
                                   challenge : Challenges \cup {NoChallenge}]]
    <3>1. session \in [Sessions -> [state : {"none", "open", "closed"}, recent : BOOLEAN,
                                    challenge : Challenges \cup {NoChallenge}]]
      BY DEF WellTyped, TypeOK
    <3>2. \/ session' = [session EXCEPT ![s].recent = FALSE]
          \/ session' = [session EXCEPT ![s].state = "closed"]
      BY <1>5 DEF VerificationAges, CloseSession
    <3> QED BY <3>1, <3>2
  <2> QED BY <1>3, <1>5, <2>1 DEF VerificationAges, CloseSession, WellTyped, TypeOK, rows, logins, records
<1>6. CASE Tick
  BY <1>3, <1>6, FactorAssumption DEF Tick, WellTyped, TypeOK, rows, logins, records
<1>7. CASE SetupExpires
  BY <1>3, <1>7 DEF SetupExpires, WellTyped, TypeOK, logins, records
<1> QED BY <1>1, <1>2, <1>4, <1>5, <1>6, <1>7, LoginTyping, VerifyTyping, SettingsTyping DEF Next

LEMMA InitTyping == Init => WellTyped
<1> SUFFICES ASSUME Init PROVE WellTyped
  OBVIOUS
<1>1. Idle \in Readings /\ Idle.op = "none" BY FactorAssumption DEF Idle, Readings
<1>2. NoFactor \in [secret : 0..MaxSecrets, enabled : BOOLEAN, pending : BOOLEAN,
                    lastUsed : 0..(LastStep + 1)] /\ ~NoFactor.pending
  BY FactorAssumption DEF NoFactor
<1>3. TypeOK BY <1>1, <1>2, FactorAssumption DEF Init, TypeOK, Statements
<1>4. Known BY <1>1 DEF Init, Known, KnownAt, Settings
<1> QED BY <1>2, <1>3, <1>4 DEF Init, WellTyped

\* Every row, call and record of any number of calls, sessions and challenges has
\* its type.
THEOREM Typing == Spec => []TypeOK
<1>1. WellTyped /\ [Next]_vars => WellTyped' BY StepTyping
<1>2. WellTyped => TypeOK BY DEF WellTyped
<1> QED BY InitTyping, <1>1, <1>2, PTL DEF Spec

-----------------------------------------------------------------------------
(* Challenges.                                                             *)

\* Calls that took an attempt of challenge k and have not compared a code yet.
Comparing(k) == {c \in Calls : pc[c] \in {"join", "verify"} /\ call[c].challenge = k}

\* Each attempt that was counted is of one code, compared or to be compared.
Counted(k) == compared[k] + Cardinality(Comparing(k)) <= challenge[k].attempts

OpenOnce(k) ==
  /\ \A c, e \in Opening(k) : c = e
  /\ \A s, t \in OpenedFor(k) : s = t
  /\ Opening(k) = {} \/ OpenedFor(k) = {}
  /\ Opening(k) # {} \/ OpenedFor(k) # {} => challenge[k].state = "consumed"

Bounded == WellTyped /\ \A k \in Challenges : Counted(k) /\ OpenOnce(k)

\* What a call that goes on changes of these sets.
LEMMA CallsMove ==
  ASSUME WellTyped, NEW c \in Calls, NEW at, NEW read, Goto(c, at, read), NEW k \in Challenges
  PROVE  /\ Comparing(k)' = (Comparing(k) \ {c})
              \cup (IF at \in {"join", "verify"} /\ read.challenge = k THEN {c} ELSE {})
         /\ Opening(k)' = (Opening(k) \ {c})
              \cup (IF at = "open" /\ read.challenge = k THEN {c} ELSE {})
<1>1. \A e \in Calls : IF e = c THEN pc'[e] = at /\ call'[e] = read
                       ELSE pc'[e] = pc[e] /\ call'[e] = call[e]
  BY DEF Goto, WellTyped, TypeOK
<1> QED BY <1>1 DEF Comparing, Opening

LEMMA ComparingIsFinite ==
  ASSUME NEW k
  PROVE  IsFiniteSet(Comparing(k)) /\ Cardinality(Comparing(k)) \in Nat
<1>1. IsFiniteSet(Comparing(k)) BY FactorAssumption, FS_Subset DEF Comparing
<1> QED BY <1>1, FS_CardinalityType

LEMMA CountedLess ==
  ASSUME WellTyped, WellTyped', NEW k \in Challenges, Counted(k),
         Comparing(k)' \subseteq Comparing(k),
         compared'[k] = compared[k], challenge'[k].attempts = challenge[k].attempts
  PROVE  Counted(k)'
<1>1. IsFiniteSet(Comparing(k)) /\ Cardinality(Comparing(k)) \in Nat BY ComparingIsFinite
<1>2. Cardinality(Comparing(k)') <= Cardinality(Comparing(k)) /\ Cardinality(Comparing(k)') \in Nat
  BY <1>1, FS_Subset, FS_CardinalityType
<1>3. compared[k] \in Nat /\ challenge[k].attempts \in Nat
  BY FactorAssumption DEF WellTyped, TypeOK
<1>4. compared'[k] + Cardinality(Comparing(k)') <= challenge'[k].attempts
  BY <1>1, <1>2, <1>3 DEF Counted
<1> QED BY <1>4 DEF Counted

LEMMA OpenLess ==
  ASSUME NEW k \in Challenges, OpenOnce(k),
         Opening(k)' \subseteq Opening(k), OpenedFor(k)' \subseteq OpenedFor(k),
         challenge[k].state = "consumed" => challenge'[k].state = "consumed"
  PROVE  OpenOnce(k)'
BY DEF OpenOnce

\* A statement that neither counts, compares nor consumes.
LEMMA NoChallengeTouched ==
  ASSUME Bounded, WellTyped', NEW c \in Calls, NEW at, NEW read, Goto(c, at, read),
         UNCHANGED <<challenge, compared>>,
         \A s \in Sessions : session'[s].challenge = session[s].challenge,
         \/ at \notin {"join", "verify", "open"}
         \/ read.challenge = NoChallenge
         \/ at = "verify" /\ pc[c] = "join" /\ read.challenge = call[c].challenge
  PROVE  Bounded'
<1>1. NoChallenge \notin Challenges BY FactorAssumption
<1>2. ASSUME NEW k \in Challenges PROVE Counted(k)' /\ OpenOnce(k)'
  <2>1. Counted(k) /\ OpenOnce(k) BY DEF Bounded
  <2>2. Comparing(k)' \subseteq Comparing(k) /\ Opening(k)' \subseteq Opening(k)
    <3>1. c \in Comparing(k) \/ ~(at \in {"join", "verify"} /\ read.challenge = k)
      BY <1>1 DEF Comparing
    <3>2. ~(at = "open" /\ read.challenge = k) BY <1>1
    <3> QED BY <3>1, <3>2, CallsMove DEF Bounded
  <2>3. OpenedFor(k)' \subseteq OpenedFor(k) BY DEF OpenedFor
  <2> QED BY <2>1, <2>2, <2>3, CountedLess, OpenLess DEF Bounded
<1> QED BY <1>2 DEF Bounded

LEMMA ClaimBounded ==
  ASSUME Bounded, WellTyped', NEW c \in Calls, NEW h \in Challenges, ClaimAttempt(c, h)
  PROVE  Bounded'
<1> DEFINE read == [Idle EXCEPT !.op = "login", !.challenge = h]
<1>1. Goto(c, "join", read) /\ read.challenge = h /\ pc[c] = "idle"
      /\ challenge' = [challenge EXCEPT ![h].attempts = challenge[h].attempts + 1]
      /\ UNCHANGED <<compared, session>>
  BY ReadingsOfCall DEF ClaimAttempt, Bounded
<1> HIDE DEF read
<1>2. ASSUME NEW k \in Challenges PROVE Counted(k)' /\ OpenOnce(k)'
  <2>1. Counted(k) /\ OpenOnce(k) BY DEF Bounded
  <2>2. /\ Comparing(k)' = IF k = h THEN Comparing(k) \cup {c} ELSE Comparing(k)
        /\ Opening(k)' \subseteq Opening(k)
        /\ c \notin Comparing(k)
    BY <1>1, CallsMove DEF Bounded, Comparing
  <2>3. OpenedFor(k)' \subseteq OpenedFor(k) BY <1>1 DEF OpenedFor
  <2>4. /\ challenge'[k].state = challenge[k].state
        /\ challenge'[k].attempts = IF k = h THEN challenge[k].attempts + 1 ELSE challenge[k].attempts
    BY <1>1 DEF Bounded, WellTyped, TypeOK
  <2>5. OpenOnce(k)' BY <2>1, <2>2, <2>3, <2>4, OpenLess
  <2>6. CASE k # h BY <2>1, <2>2, <2>4, <2>5, <2>6, <1>1, CountedLess DEF Bounded
  <2>7. CASE k = h
    <3>1. IsFiniteSet(Comparing(k)) /\ Cardinality(Comparing(k)) \in Nat BY ComparingIsFinite
    <3>2. Cardinality(Comparing(k)') = Cardinality(Comparing(k)) + 1
      BY <2>2, <2>7, <3>1, FS_AddElement
    <3>3. compared[k] \in Nat /\ challenge[k].attempts \in Nat
      BY FactorAssumption DEF Bounded, WellTyped, TypeOK
    <3>4. compared'[k] + Cardinality(Comparing(k)') <= challenge'[k].attempts
      BY <1>1, <2>1, <2>4, <2>7, <3>1, <3>2, <3>3 DEF Counted
    <3> QED BY <2>5, <3>4 DEF Counted
  <2> QED BY <2>6, <2>7
<1> QED BY <1>2 DEF Bounded

LEMMA VerifyBounded ==
  ASSUME Bounded, WellTyped', NEW c \in Calls, VerifyCode(c)
  PROVE  Bounded'
<1>1. /\ pc[c] = "verify" /\ UNCHANGED <<challenge, session>>
      /\ compared' = [k \in Challenges |->
                        IF k = call[c].challenge THEN compared[k] + 1 ELSE compared[k]]
  BY DEF VerifyCode
<1>2. PICK at \in {"consume", "mark", "idle"} : \E read : Goto(c, at, read)
  BY DEF VerifyCode, VerifyTotp, VerifyRecovery, Accepted, Return
<1>3. PICK read : Goto(c, at, read) BY <1>2
<1>4. ASSUME NEW k \in Challenges PROVE Counted(k)' /\ OpenOnce(k)'
  <2>1. Counted(k) /\ OpenOnce(k) BY DEF Bounded
  <2>2. Comparing(k)' = Comparing(k) \ {c} /\ Opening(k)' \subseteq Opening(k)
    BY <1>2, <1>3, CallsMove DEF Bounded
  <2>3. OpenedFor(k)' \subseteq OpenedFor(k) BY <1>1 DEF OpenedFor
  <2>4. OpenOnce(k)' BY <1>1, <2>1, <2>2, <2>3, OpenLess
  <2>5. CASE k # call[c].challenge
    BY <1>1, <2>1, <2>2, <2>4, <2>5, CountedLess DEF Bounded
  <2>6. CASE k = call[c].challenge
    <3>1. IsFiniteSet(Comparing(k)) /\ Cardinality(Comparing(k)) \in Nat BY ComparingIsFinite
    <3>2. c \in Comparing(k) BY <1>1, <2>6 DEF Comparing
    <3>3. Cardinality(Comparing(k)') = Cardinality(Comparing(k)) - 1
      BY <2>2, <3>1, <3>2, FS_RemoveElement
    <3>4. compared[k] \in Nat /\ challenge[k].attempts \in Nat
      BY FactorAssumption DEF Bounded, WellTyped, TypeOK
    <3>5. compared'[k] + Cardinality(Comparing(k)') <= challenge'[k].attempts
      BY <1>1, <2>1, <2>6, <3>1, <3>3, <3>4 DEF Counted
    <3> QED BY <2>4, <3>5 DEF Counted
  <2> QED BY <2>5, <2>6
<1> QED BY <1>4 DEF Bounded

LEMMA ConsumeBounded ==
  ASSUME Bounded, WellTyped', NEW c \in Calls, ConsumeChallenge(c)
  PROVE  Bounded'
<1> DEFINE h == call[c].challenge
<1>1. /\ pc[c] = "consume" /\ h \in Challenges
      /\ UNCHANGED <<compared, session>>
  BY ReadingsOfCall DEF ConsumeChallenge, KnownAt, Bounded
<1>2. CASE ~Consumable(h)
  <2>1. Goto(c, "idle", Idle) /\ challenge' = challenge
    BY <1>2 DEF ConsumeChallenge, Return
  <2> QED BY <1>1, <2>1, NoChallengeTouched
<1>3. CASE Consumable(h)
  <2>1. Goto(c, "open", call[c]) /\ challenge' = [challenge EXCEPT ![h].state = "consumed"]
    BY <1>3 DEF ConsumeChallenge
  <2>2. ASSUME NEW k \in Challenges PROVE Counted(k)' /\ OpenOnce(k)'
    <3>1. Counted(k) /\ OpenOnce(k) BY DEF Bounded
    <3>2. /\ Comparing(k)' \subseteq Comparing(k)
          /\ Opening(k)' \subseteq IF k = h THEN Opening(k) \cup {c} ELSE Opening(k)
      BY <2>1, CallsMove DEF Bounded
    <3>3. OpenedFor(k)' = OpenedFor(k) BY <1>1 DEF OpenedFor
    <3>4. /\ challenge'[k].attempts = challenge[k].attempts
          /\ challenge'[k].state = IF k = h THEN "consumed" ELSE challenge[k].state
      BY <1>1, <2>1 DEF Bounded, WellTyped, TypeOK
    <3>5. Counted(k)' BY <1>1, <3>1, <3>2, <3>4, CountedLess DEF Bounded
    <3>6. CASE k # h BY <3>1, <3>2, <3>3, <3>4, <3>5, <3>6, OpenLess
    <3>7. CASE k = h
      <4>1. Opening(k) = {} /\ OpenedFor(k) = {}
        BY <1>3, <3>1, <3>7 DEF OpenOnce, Consumable
      <4> QED BY <3>2, <3>3, <3>4, <3>5, <3>7, <4>1 DEF OpenOnce
    <3> QED BY <3>6, <3>7
  <2> QED BY <2>2 DEF Bounded
<1> QED BY <1>2, <1>3

LEMMA OpenBounded ==
  ASSUME Bounded, WellTyped', NEW c \in Calls, OpenSession(c)
  PROVE  Bounded'
<1>1. PICK s \in Sessions :
        session' = [session EXCEPT ![s] =
          [state |-> "open", recent |-> TRUE, challenge |-> call[c].challenge]]
  BY DEF OpenSession
<1>2. Goto(c, "idle", Idle) /\ UNCHANGED <<challenge, compared>> /\ pc[c] = "open"
  BY DEF OpenSession, Return, logins
<1>3. ASSUME NEW k \in Challenges PROVE Counted(k)' /\ OpenOnce(k)'
  <2>1. Counted(k) /\ OpenOnce(k) BY DEF Bounded
  <2>2. Comparing(k)' \subseteq Comparing(k) /\ Opening(k)' = Opening(k) \ {c}
    BY <1>2, CallsMove DEF Bounded
  <2>3. Counted(k)' BY <1>2, <2>1, <2>2, CountedLess DEF Bounded
  <2>4. OpenedFor(k)' \subseteq IF k = call[c].challenge THEN OpenedFor(k) \cup {s} ELSE OpenedFor(k)
    BY <1>1 DEF OpenedFor, Bounded, WellTyped, TypeOK
  <2>5. CASE k # call[c].challenge BY <1>2, <2>1, <2>2, <2>3, <2>4, <2>5, OpenLess
  <2>6. CASE k = call[c].challenge
    <3>1. c \in Opening(k) BY <1>2, <2>6 DEF Opening
    <3>2. Opening(k)' = {} /\ OpenedFor(k) = {} /\ challenge[k].state = "consumed"
      BY <2>1, <2>2, <3>1 DEF OpenOnce
    <3> QED BY <1>2, <2>3, <2>4, <3>2 DEF OpenOnce
  <2> QED BY <2>5, <2>6
<1> QED BY <1>3 DEF Bounded

LEMMA LoginBounded ==
  ASSUME Bounded, WellTyped', NEW c \in Calls, LoginStep(c)
  PROVE  Bounded'
<1>1. CASE LoginReadsFactor(c)
  <2>1. PICK at \in {"challenge", "open"} : Goto(c, at, [Idle EXCEPT !.op = "login"])
    BY <1>1 DEF LoginReadsFactor
  <2>2. [Idle EXCEPT !.op = "login"].challenge = NoChallenge BY ReadingsOfCall DEF Bounded
  <2>3. UNCHANGED <<challenge, compared, session>> BY <1>1 DEF LoginReadsFactor, logins
  <2> QED BY <2>1, <2>2, <2>3, NoChallengeTouched
<1>2. CASE IssueChallenge(c)
  <2>1. PICK h \in Challenges : challenge[h].state = "none"
                                /\ challenge' = [challenge EXCEPT ![h].state = "live"]
    BY <1>2 DEF IssueChallenge
  <2>2. Goto(c, "idle", Idle) /\ UNCHANGED <<compared, session>> BY <1>2 DEF IssueChallenge, Return
  <2>3. ASSUME NEW k \in Challenges PROVE Counted(k)' /\ OpenOnce(k)'
    <3>1. Comparing(k)' \subseteq Comparing(k) /\ Opening(k)' \subseteq Opening(k)
      BY <2>2, CallsMove DEF Bounded
    <3>2. OpenedFor(k)' \subseteq OpenedFor(k) BY <2>2 DEF OpenedFor
    <3>3. /\ challenge'[k].attempts = challenge[k].attempts
          /\ challenge[k].state = "consumed" => challenge'[k].state = "consumed"
      BY <2>1 DEF Bounded, WellTyped, TypeOK
    <3> QED BY <2>2, <3>1, <3>2, <3>3, CountedLess, OpenLess DEF Bounded
  <2> QED BY <2>3 DEF Bounded
<1>3. CASE JoinFactor(c)
  <2>1. UNCHANGED <<challenge, compared, session>> /\ pc[c] = "join" BY <1>3 DEF JoinFactor, logins
  <2>2. CASE Return(c) BY <2>1, <2>2, NoChallengeTouched DEF Return
  <2>3. CASE ~Return(c)
    <3> DEFINE read == [call[c] EXCEPT !.secret = factor.secret]
    <3>1. Goto(c, "verify", read) BY <1>3, <2>3 DEF JoinFactor
    <3>2. read.challenge = call[c].challenge BY ReadingsOfCall DEF Bounded, Readings
    <3> HIDE DEF read
    <3> QED BY <2>1, <3>1, <3>2, NoChallengeTouched
  <2> QED BY <2>2, <2>3
<1> QED BY <1>1, <1>2, <1>3, ClaimBounded, ConsumeBounded, OpenBounded DEF LoginStep

\* A setting has no challenge, and what it does to sessions leaves theirs.
LEMMA SettingsBounded ==
  ASSUME Bounded, WellTyped', NEW c \in Calls, SettingsStep(c)
  PROVE  Bounded'
<1>1. UNCHANGED <<challenge, compared>>
  BY DEF SettingsStep, SetupTwoFactor, RemoveTwoFactor, ReplaceRecoveryCodes, StartSensitive,
         ActivateTwoFactor, MarkVerified, ReadStatus, DrawSecret, WipeCodes, ReadPending,
         ConfirmSetup, DisableFactor, RevokeOtherSessions, RegenerateCodes, logins
<1>2. \A s \in Sessions : session'[s].challenge = session[s].challenge
  <2>1. \/ session' = session
        \/ session' = [session EXCEPT ![call[c].session].recent = TRUE]
        \/ session' = [s \in Sessions |->
             IF s \in Revoked(c) THEN [session[s] EXCEPT !.state = "closed"] ELSE session[s]]
    BY DEF SettingsStep, SetupTwoFactor, RemoveTwoFactor, ReplaceRecoveryCodes, StartSensitive,
           ActivateTwoFactor, MarkVerified, ReadStatus, DrawSecret, WipeCodes, ReadPending,
           ConfirmSetup, DisableFactor, RevokeOtherSessions, RegenerateCodes
  <2>2. session \in [Sessions -> [state : {"none", "open", "closed"}, recent : BOOLEAN,
                                  challenge : Challenges \cup {NoChallenge}]]
    BY DEF Bounded, WellTyped, TypeOK
  <2> QED BY <2>1, <2>2
<1>3. PICK at, read : Goto(c, at, read) /\ at \notin {"join", "open"}
                      /\ (at = "verify" => read.challenge = NoChallenge)
  <2>1. CASE \E s \in Sessions : SetupTwoFactor(c, s) \/ RemoveTwoFactor(c, s) \/ ReplaceRecoveryCodes(c, s)
    <3>1. PICK s \in Sessions, op \in Sensitive : StartSensitive(c, s, op)
      BY <2>1 DEF SetupTwoFactor, RemoveTwoFactor, ReplaceRecoveryCodes, Sensitive
    <3> DEFINE read == [Idle EXCEPT !.op = op, !.session = s, !.secret = factor.secret]
    <3>2. read.challenge = NoChallenge BY DEF Idle
    <3>3. Goto(c, "verify", read) \/ Goto(c, "mark", read) BY <3>1 DEF StartSensitive
    <3> HIDE DEF read
    <3> QED BY <3>2, <3>3
  <2>2. CASE ReadStatus(c)
    <3>1. call[c].op \in Sensitive
      BY <2>2, ReadingsOfCall DEF ReadStatus, KnownAt, Bounded
    <3> QED BY <2>2, <3>1 DEF ReadStatus, Return, Sensitive
  <2>3. CASE ReadPending(c)
    <3>1. \/ Goto(c, "idle", Idle)
          \/ \E step : Goto(c, "activate", [call[c] EXCEPT !.secret = factor.secret, !.step = step])
      BY <2>3 DEF ReadPending, Return
    <3>2. CASE Goto(c, "idle", Idle) BY <3>2
    <3>3. CASE ~Goto(c, "idle", Idle)
      <4>1. PICK step : Goto(c, "activate", [call[c] EXCEPT !.secret = factor.secret, !.step = step])
        BY <3>1, <3>3
      <4> DEFINE read == [call[c] EXCEPT !.secret = factor.secret, !.step = step]
      <4>2. Goto(c, "activate", read) BY <4>1
      <4> HIDE DEF read
      <4> QED BY <4>2
    <3> QED BY <3>2, <3>3
  <2>4. CASE \/ \E s \in Sessions : ActivateTwoFactor(c, s)
             \/ MarkVerified(c) \/ DrawSecret(c) \/ WipeCodes(c) \/ ConfirmSetup(c)
             \/ DisableFactor(c) \/ RevokeOtherSessions(c) \/ RegenerateCodes(c)
    <3>1. CASE \E s \in Sessions : ActivateTwoFactor(c, s)
      <4>1. PICK s \in Sessions : Goto(c, "pending", [Idle EXCEPT !.op = "confirm", !.session = s])
        BY <3>1 DEF ActivateTwoFactor
      <4> DEFINE read == [Idle EXCEPT !.op = "confirm", !.session = s]
      <4>2. Goto(c, "pending", read) BY <4>1
      <4> HIDE DEF read
      <4> QED BY <4>2
    <3>2. CASE MarkVerified(c) \/ DrawSecret(c) \/ ConfirmSetup(c) \/ DisableFactor(c)
      <4>1. PICK at \in {"status", "wipe", "revoke"} : Goto(c, at, call[c])
        BY <3>2 DEF MarkVerified, DrawSecret, ConfirmSetup, DisableFactor
      <4> QED BY <4>1
    <3>3. CASE WipeCodes(c) \/ RevokeOtherSessions(c) \/ RegenerateCodes(c)
      <4>1. Goto(c, "idle", Idle) BY <3>3 DEF WipeCodes, RevokeOtherSessions, RegenerateCodes, Return
      <4> QED BY <4>1
    <3> QED BY <2>4, <3>1, <3>2, <3>3
  <2> QED BY <2>1, <2>2, <2>3, <2>4 DEF SettingsStep
<1> QED BY <1>1, <1>2, <1>3, NoChallengeTouched

LEMMA StepBounded ==
  ASSUME Bounded, [Next]_vars
  PROVE  Bounded'
<1>1. WellTyped' BY StepTyping DEF Bounded
<1>2. ASSUME UNCHANGED <<pc, call>>,
             \A s \in Sessions : session'[s].challenge = session[s].challenge,
             UNCHANGED compared,
             \A k \in Challenges : /\ challenge'[k].attempts = challenge[k].attempts
                                   /\ challenge[k].state = "consumed" => challenge'[k].state = "consumed"
      PROVE  Bounded'
  <2>1. ASSUME NEW k \in Challenges PROVE Counted(k)' /\ OpenOnce(k)'
    <3>1. Counted(k) /\ OpenOnce(k) BY DEF Bounded
    <3>2. Comparing(k)' = Comparing(k) /\ Opening(k)' = Opening(k) /\ OpenedFor(k)' = OpenedFor(k)
      BY <1>2 DEF Comparing, Opening, OpenedFor
    <3> QED BY <1>1, <1>2, <3>1, <3>2, CountedLess, OpenLess DEF Bounded
  <2> QED BY <1>1, <2>1 DEF Bounded
<1>3. CASE UNCHANGED vars BY <1>2, <1>3 DEF vars, logins
<1>4. ASSUME NEW c \in Calls, CallDies(c) PROVE Bounded'
  <2>1. Goto(c, "idle", Idle) /\ UNCHANGED <<challenge, compared, session>>
    BY <1>4 DEF CallDies, Return, logins
  <2> QED BY <1>1, <2>1, NoChallengeTouched
<1>5. ASSUME NEW h \in Challenges, ChallengeExpires(h) PROVE Bounded'
  <2>1. \A k \in Challenges : /\ challenge'[k].attempts = challenge[k].attempts
                              /\ challenge[k].state = "consumed" => challenge'[k].state = "consumed"
    BY <1>5 DEF ChallengeExpires, Bounded, WellTyped, TypeOK
  <2> QED BY <1>2, <1>5, <2>1 DEF ChallengeExpires
<1>6. ASSUME NEW r \in Sessions, VerificationAges(r) \/ CloseSession(r) PROVE Bounded'
  <2>1. \A s \in Sessions : session'[s].challenge = session[s].challenge
    <3>1. session \in [Sessions -> [state : {"none", "open", "closed"}, recent : BOOLEAN,
                                    challenge : Challenges \cup {NoChallenge}]]
      BY DEF Bounded, WellTyped, TypeOK
    <3>2. \/ session' = [session EXCEPT ![r].recent = FALSE]
          \/ session' = [session EXCEPT ![r].state = "closed"]
      BY <1>6 DEF VerificationAges, CloseSession
    <3> QED BY <3>1, <3>2
  <2> QED BY <1>2, <1>6, <2>1 DEF VerificationAges, CloseSession, logins
<1>7. CASE Tick \/ SetupExpires BY <1>2, <1>7 DEF Tick, SetupExpires, logins
<1> QED BY <1>1, <1>3, <1>4, <1>5, <1>6, <1>7, LoginBounded, VerifyBounded, SettingsBounded DEF Next

LEMMA InitBounded == Init => Bounded
<1> SUFFICES ASSUME Init PROVE Bounded
  OBVIOUS
<1>1. ASSUME NEW k \in Challenges PROVE Counted(k) /\ OpenOnce(k)
  <2>1. Comparing(k) = {} /\ Opening(k) = {} BY DEF Init, Comparing, Opening
  <2>2. OpenedFor(k) = {} BY FactorAssumption DEF Init, OpenedFor
  <2>3. compared[k] = 0 /\ challenge[k].attempts = 0 BY DEF Init
  <2> QED BY <2>1, <2>2, <2>3, FS_EmptySet DEF Counted, OpenOnce
<1> QED BY <1>1, InitTyping DEF Bounded

LEMMA BoundedIsBounded == Bounded => ChallengesAreBounded
<1> SUFFICES ASSUME Bounded, NEW k \in Challenges
             PROVE  /\ compared[k] <= MaxAttempts
                    /\ \A c, e \in Opening(k) : c = e
                    /\ \A s, t \in OpenedFor(k) : s = t
                    /\ Opening(k) = {} \/ OpenedFor(k) = {}
  BY DEF ChallengesAreBounded
<1>1. Counted(k) /\ OpenOnce(k) BY DEF Bounded
<1>2. compared[k] \in Nat /\ challenge[k].attempts \in 0..MaxAttempts /\ MaxAttempts \in Nat
  BY FactorAssumption DEF Bounded, WellTyped, TypeOK
<1>3. Cardinality(Comparing(k)) \in Nat BY ComparingIsFinite
<1>4. compared[k] <= MaxAttempts BY <1>1, <1>2, <1>3 DEF Counted
<1> QED BY <1>1, <1>4 DEF OpenOnce

\* However many browsers answer one challenge at once, at most MaxAttempts codes are
\* compared with it and at most one session opens, for every number of each.
THEOREM ChallengesBounded == Spec => []ChallengesAreBounded
<1>1. Bounded /\ [Next]_vars => Bounded' BY StepBounded
<1> QED BY InitBounded, <1>1, BoundedIsBounded, PTL DEF Spec

-----------------------------------------------------------------------------
(* One settings page.                                                      *)

Alone == \A c, e \in InSettings : c = e

\* What a statement relies on since it was decided.
SecretAt(at, read) ==
  /\ at = "verify" => read.secret \in proved
  /\ at \in {"setup", "wipe"} => ~factor.enabled
  /\ at = "activate" => ~factor.enabled /\ read.secret = factor.secret
  /\ at = "replace" => factor.enabled

Secrets ==
  /\ proved \subseteq 1..drawn /\ factor.secret <= drawn
  /\ factor.enabled <=> factor.secret \in proved
  /\ \A c \in Calls : SecretAt(pc[c], call[c])

Codes ==
  /\ RecoveryCodesMatchFactor
  /\ CodesWorkOnce
  /\ factor.enabled => batches # 0
  /\ \A b \in 1..MaxBatches : b > batches => \A p \in Batch(b) : uses[p] = 0
  /\ \A s \in 1..MaxSecrets, t \in 1..(LastStep + 1) :
       s \notin proved \/ (s = factor.secret /\ t > factor.lastUsed) => uses[<<"totp", s, t>>] = 0

Elders ==
  /\ OlderSessionsEnd
  /\ \A c \in Calls : pc[c] = "revoke" => older \subseteq OpenSessions \ {call[c].session}

Paged == WellTyped /\ Alone /\ Secrets /\ Codes /\ Elders

LEMMA CallMoves ==
  ASSUME WellTyped, NEW c \in Calls, NEW at, NEW read, Goto(c, at, read)
  PROVE  \A e \in Calls : IF e = c THEN pc'[e] = at /\ call'[e] = read
                          ELSE pc'[e] = pc[e] /\ call'[e] = call[e]
BY DEF Goto, WellTyped, TypeOK

LEMMA OthersElsewhere ==
  ASSUME WellTyped, Alone, NEW c \in InSettings, NEW e \in Calls, e # c
  PROVE  pc[e] \notin {"setup", "wipe", "activate", "replace", "revoke"}
<1>1. call[e].op \notin Settings BY DEF Alone, InSettings
<1>2. KnownAt(pc[e], call[e]) BY DEF WellTyped, Known
<1> QED BY <1>1, <1>2 DEF KnownAt, Settings

\* The statements of settings are those of calls in settings.
LEMMA SettingsCalls ==
  ASSUME WellTyped, NEW c \in Calls,
         pc[c] \in {"mark", "status", "setup", "wipe", "remove", "replace", "pending",
                    "activate", "revoke"}
  PROVE  c \in InSettings
<1>1. KnownAt(pc[c], call[c]) BY DEF WellTyped, Known
<1> QED BY <1>1 DEF KnownAt, InSettings, Settings, Sensitive

LEMMA AloneKept ==
  ASSUME OnePage, WellTyped, Alone, [Next]_vars
  PROVE  Alone'
<1>1. ASSUME NEW c \in Calls, NEW at, NEW read, Goto(c, at, read),
             read.op \notin Settings \/ read.op = call[c].op \/ InSettings = {}
      PROVE  Alone'
  BY <1>1, CallMoves DEF Alone, InSettings
<1>2. CASE UNCHANGED call BY <1>2 DEF Alone, InSettings
<1>3. ASSUME NEW c \in Calls, Return(c) PROVE Alone'
  BY <1>1, <1>3, ReadingsOfCall DEF Return, Settings
<1>4. ASSUME NEW c \in Calls, NEW at, Goto(c, at, call[c]) PROVE Alone'
  BY <1>1, <1>4
<1>5. ASSUME NEW c \in Calls, LoginStep(c) PROVE Alone'
  <2>1. CASE LoginReadsFactor(c)
    <3>1. [Idle EXCEPT !.op = "login"].op \notin Settings BY ReadingsOfCall DEF Settings
    <3> QED BY <1>1, <2>1, <3>1 DEF LoginReadsFactor
  <2>2. CASE \E k \in Challenges : ClaimAttempt(c, k)
    <3>1. PICK k \in Challenges : ClaimAttempt(c, k) BY <2>2
    <3>2. [Idle EXCEPT !.op = "login", !.challenge = k].op \notin Settings BY ReadingsOfCall DEF Settings
    <3> QED BY <1>1, <3>1, <3>2 DEF ClaimAttempt
  <2>3. CASE JoinFactor(c)
    <3>1. [call[c] EXCEPT !.secret = factor.secret].op = call[c].op BY ReadingsOfCall DEF Readings
    <3> QED BY <1>1, <1>3, <2>3, <3>1 DEF JoinFactor
  <2>4. CASE IssueChallenge(c) \/ ConsumeChallenge(c) \/ OpenSession(c)
    BY <1>3, <1>4, <2>4 DEF IssueChallenge, ConsumeChallenge, OpenSession
  <2> QED BY <1>5, <2>1, <2>2, <2>3, <2>4 DEF LoginStep
<1>6. ASSUME NEW c \in Calls, VerifyCode(c) PROVE Alone'
  BY <1>3, <1>4, <1>6 DEF VerifyCode, VerifyTotp, VerifyRecovery, Accepted
<1>7. ASSUME NEW c \in Calls, SettingsStep(c) PROVE Alone'
  <2>1. CASE \E s \in Sessions : \/ SetupTwoFactor(c, s) \/ RemoveTwoFactor(c, s)
                                 \/ ReplaceRecoveryCodes(c, s) \/ ActivateTwoFactor(c, s)
    <3>1. InSettings = {}
      BY <2>1 DEF SetupTwoFactor, RemoveTwoFactor, ReplaceRecoveryCodes, StartSensitive,
                  ActivateTwoFactor, MayAsk
    <3>2. \A at, read : Goto(c, at, read) => Alone' BY <1>1, <3>1
    <3> QED BY <2>1, <3>2 DEF SetupTwoFactor, RemoveTwoFactor, ReplaceRecoveryCodes,
                              StartSensitive, ActivateTwoFactor
  <2>2. CASE ReadPending(c)
    <3>1. \A step : [call[c] EXCEPT !.secret = factor.secret, !.step = step].op = call[c].op
      BY ReadingsOfCall DEF Readings
    <3> QED BY <1>1, <1>3, <2>2, <3>1 DEF ReadPending
  <2>3. CASE MarkVerified(c) \/ ReadStatus(c) \/ DrawSecret(c) \/ WipeCodes(c) \/ ConfirmSetup(c)
             \/ DisableFactor(c) \/ RevokeOtherSessions(c) \/ RegenerateCodes(c)
    BY <1>3, <1>4, <2>3 DEF MarkVerified, ReadStatus, DrawSecret, WipeCodes, ConfirmSetup,
                            DisableFactor, RevokeOtherSessions, RegenerateCodes
  <2> QED BY <1>7, <2>1, <2>2, <2>3 DEF SettingsStep
<1>8. ASSUME NEW c \in Calls, CallDies(c) PROVE Alone' BY <1>3, <1>8 DEF CallDies
<1> QED BY <1>2, <1>5, <1>6, <1>7, <1>8
        DEF Next, vars, ChallengeExpires, VerificationAges, CloseSession, Tick, SetupExpires

\* The secret in force, and what else of it a statement relies on.
InForce == <<factor.secret, factor.enabled, proved, drawn>>

LEMMA SecretsOfLogin ==
  ASSUME WellTyped, Secrets, NEW c \in Calls, NEW at, NEW read, Goto(c, at, read),
         UNCHANGED InForce, SecretAt(at, read)
  PROVE  Secrets'
<1>1. UNCHANGED <<proved, drawn>> /\ factor'.secret = factor.secret /\ factor'.enabled = factor.enabled
  BY DEF InForce
<1>2. \A e \in Calls : SecretAt(pc[e], call[e])' BY <1>1, CallMoves DEF Secrets, SecretAt
<1> QED BY <1>1, <1>2 DEF Secrets

\* What a call in settings does to the secret, no other call relies on.
LEMMA SecretsOfSettings ==
  ASSUME WellTyped, Alone, Secrets, NEW c \in InSettings, NEW at, NEW read, Goto(c, at, read),
         proved \subseteq proved', proved' \subseteq 1..drawn', factor'.secret <= drawn',
         factor'.enabled <=> factor'.secret \in proved',
         at \in {"wipe", "revoke"}, at = "wipe" => ~factor'.enabled
  PROVE  Secrets'
<1>1. ASSUME NEW e \in Calls PROVE SecretAt(pc[e], call[e])'
  <2>1. CASE e = c BY <2>1, CallMoves DEF SecretAt, InSettings
  <2>2. CASE e # c
    <3>1. pc'[e] = pc[e] /\ call'[e] = call[e] BY <2>2, CallMoves DEF InSettings
    <3>2. pc[e] \notin {"setup", "wipe", "activate", "replace"} BY <2>2, OthersElsewhere
    <3>3. SecretAt(pc[e], call[e]) BY DEF Secrets
    <3> QED BY <3>1, <3>2, <3>3 DEF SecretAt
  <2> QED BY <2>1, <2>2
<1> QED BY <1>1 DEF Secrets

LEMMA SecretsKept ==
  ASSUME OnePage, WellTyped, Alone, Secrets, [Next]_vars
  PROVE  Secrets'
<1>1. CASE UNCHANGED <<pc, call>> /\ UNCHANGED InForce
  <2>1. UNCHANGED <<proved, drawn, pc, call>> /\ factor'.secret = factor.secret
        /\ factor'.enabled = factor.enabled
    BY <1>1 DEF InForce
  <2> QED BY <2>1 DEF Secrets, SecretAt
<1>2. \A read : SecretAt("idle", read) /\ SecretAt("challenge", read) /\ SecretAt("join", read)
                /\ SecretAt("consume", read) /\ SecretAt("open", read) /\ SecretAt("mark", read)
                /\ SecretAt("status", read) /\ SecretAt("remove", read) /\ SecretAt("pending", read)
                /\ SecretAt("revoke", read)
  BY DEF SecretAt
<1>3. UNCHANGED <<rows, records>> => UNCHANGED InForce BY DEF InForce, rows, records
<1>4. ASSUME NEW c \in Calls, Return(c), UNCHANGED InForce PROVE Secrets'
  BY <1>2, <1>4, SecretsOfLogin DEF Return
<1>5. ASSUME NEW c \in Calls, LoginStep(c) PROVE Secrets'
  <2>1. CASE JoinFactor(c)
    <3>1. CASE factor.enabled
      <4> DEFINE read == [call[c] EXCEPT !.secret = factor.secret]
      <4>1. read.secret = factor.secret BY ReadingsOfCall DEF Readings
      <4>2. Goto(c, "verify", read) /\ UNCHANGED InForce BY <1>3, <2>1, <3>1 DEF JoinFactor
      <4> HIDE DEF read
      <4>3. SecretAt("verify", read) BY <3>1, <4>1 DEF Secrets, SecretAt
      <4> QED BY <4>2, <4>3, SecretsOfLogin
    <3>2. CASE ~factor.enabled BY <1>3, <1>4, <2>1, <3>2 DEF JoinFactor
    <3> QED BY <3>1, <3>2
  <2>2. CASE LoginReadsFactor(c)
    BY <1>2, <1>3, <2>2, SecretsOfLogin DEF LoginReadsFactor
  <2>3. CASE \E k \in Challenges : ClaimAttempt(c, k)
    BY <1>2, <1>3, <2>3, SecretsOfLogin DEF ClaimAttempt
  <2>4. CASE IssueChallenge(c) \/ ConsumeChallenge(c) \/ OpenSession(c)
    BY <1>2, <1>3, <1>4, <2>4, SecretsOfLogin DEF IssueChallenge, ConsumeChallenge, OpenSession
  <2> QED BY <1>5, <2>1, <2>2, <2>3, <2>4 DEF LoginStep
<1>6. ASSUME NEW c \in Calls, VerifyCode(c) PROVE Secrets'
  <2>1. factor' = factor \/ \E step : factor' = [factor EXCEPT !.lastUsed = step]
    BY <1>6 DEF VerifyCode, VerifyTotp, VerifyRecovery
  <2>2. UNCHANGED InForce BY <1>6, <2>1 DEF VerifyCode, InForce, records, WellTyped, TypeOK
  <2>3. Return(c) \/ Goto(c, "consume", call[c]) \/ Goto(c, "mark", call[c])
    BY <1>6 DEF VerifyCode, VerifyTotp, VerifyRecovery, Accepted
  <2> QED BY <1>2, <1>4, <2>2, <2>3, SecretsOfLogin
<1>7. CASE \E c \in Calls, s \in Sessions :
             SetupTwoFactor(c, s) \/ RemoveTwoFactor(c, s) \/ ReplaceRecoveryCodes(c, s)
  <2>1. PICK c \in Calls, s \in Sessions, op \in Sensitive : StartSensitive(c, s, op)
    BY <1>7 DEF SetupTwoFactor, RemoveTwoFactor, ReplaceRecoveryCodes, Sensitive
  <2> DEFINE read == [Idle EXCEPT !.op = op, !.session = s, !.secret = factor.secret]
  <2>2. read.secret = factor.secret BY DEF Idle
  <2>3. Goto(c, IF factor.enabled THEN "verify" ELSE "mark", read) /\ UNCHANGED InForce
    BY <1>3, <2>1 DEF StartSensitive
  <2> HIDE DEF read
  <2>4. factor.enabled => SecretAt("verify", read) BY <2>2 DEF Secrets, SecretAt
  <2> QED BY <1>2, <2>3, <2>4, SecretsOfLogin
<1>8. ASSUME NEW c \in Calls, DrawSecret(c) PROVE Secrets'
  <2>1. c \in InSettings BY <1>8, SettingsCalls DEF DrawSecret
  <2>2. Goto(c, "wipe", call[c]) /\ UNCHANGED proved BY <1>8 DEF DrawSecret, records
  <2>3. /\ factor'.secret = drawn + 1 /\ ~factor'.enabled /\ drawn' = drawn + 1
    BY <1>8 DEF DrawSecret, NoFactor
  <2>4. drawn \in Nat BY DEF WellTyped, TypeOK
  <2>5. proved \subseteq 1..drawn BY DEF Secrets
  <2> QED BY <2>1, <2>2, <2>3, <2>4, <2>5, SecretsOfSettings
<1>9. ASSUME NEW c \in Calls, ConfirmSetup(c) PROVE Secrets'
  <2>1. c \in InSettings BY <1>9, SettingsCalls DEF ConfirmSetup
  <2>2. Goto(c, "revoke", call[c]) /\ UNCHANGED drawn BY <1>9 DEF ConfirmSetup
  <2>3. call[c].secret = factor.secret /\ call[c].secret \in 1..MaxSecrets
    BY <1>9, ReadingsOfCall DEF Secrets, SecretAt, ConfirmSetup, KnownAt
  <2>4. /\ proved' = proved \cup {factor.secret}
        /\ factor'.secret = factor.secret /\ factor'.enabled
    BY <1>9, <2>3, FactorAssumption DEF ConfirmSetup, EnableFactor, WellTyped, TypeOK
  <2>5. factor.secret \in 1..drawn /\ proved \subseteq 1..drawn
    BY <2>3, FactorAssumption DEF Secrets, WellTyped, TypeOK
  <2>6. /\ proved \subseteq proved' /\ proved' \subseteq 1..drawn'
        /\ factor'.secret <= drawn'
        /\ factor'.enabled <=> factor'.secret \in proved'
    <3>1. drawn \in Nat BY DEF WellTyped, TypeOK
    <3>2. drawn' = drawn BY <2>2
    <3>3. factor'.secret \in proved' BY <2>4
    <3>4. factor'.enabled <=> factor'.secret \in proved' BY <2>4, <3>3, Zenon
    <3>5. proved \subseteq proved' /\ proved' \subseteq 1..drawn' BY <2>4, <2>5, <3>2
    <3>6. factor'.secret <= drawn' BY <2>4, <2>5, <3>1, <3>2
    <3> QED BY <3>4, <3>5, <3>6, Zenon
  <2> QED BY <2>1, <2>2, <2>6, SecretsOfSettings
<1>10. ASSUME NEW c \in Calls, DisableFactor(c) PROVE Secrets'
  <2>1. c \in InSettings BY <1>10, SettingsCalls DEF DisableFactor
  <2>2. Goto(c, "revoke", call[c]) /\ UNCHANGED <<drawn, proved>> BY <1>10 DEF DisableFactor
  <2>3. factor'.secret = 0 /\ ~factor'.enabled BY <1>10 DEF DisableFactor, NoFactor
  <2>4. drawn \in Nat BY DEF WellTyped, TypeOK
  <2>5. proved \subseteq 1..drawn BY DEF Secrets
  <2> QED BY <2>1, <2>2, <2>3, <2>4, <2>5, SecretsOfSettings
<1>11. ASSUME NEW c \in Calls, ReadPending(c) PROVE Secrets'
  <2>1. UNCHANGED InForce BY <1>3, <1>11 DEF ReadPending
  <2>2. CASE Return(c) BY <1>4, <2>1, <2>2
  <2>3. CASE ~Return(c)
    <3>1. PICK step : ~factor.enabled
                      /\ Goto(c, "activate", [call[c] EXCEPT !.secret = factor.secret, !.step = step])
      BY <1>11, <2>3 DEF ReadPending
    <3> DEFINE read == [call[c] EXCEPT !.secret = factor.secret, !.step = step]
    <3>2. read.secret = factor.secret BY ReadingsOfCall DEF Readings
    <3>3. Goto(c, "activate", read) BY <3>1
    <3> HIDE DEF read
    <3>4. SecretAt("activate", read) BY <3>1, <3>2 DEF SecretAt
    <3> QED BY <2>1, <3>3, <3>4, SecretsOfLogin
  <2> QED BY <2>2, <2>3
<1>12. ASSUME NEW c \in Calls, ReadStatus(c) PROVE Secrets'
  <2>1. UNCHANGED InForce BY <1>3, <1>12 DEF ReadStatus
  <2>2. CASE ~StatusAllows(call[c].op) BY <1>4, <1>12, <2>1, <2>2 DEF ReadStatus
  <2>3. CASE StatusAllows(call[c].op)
    <3>1. call[c].op \in Sensitive BY <1>12, ReadingsOfCall DEF ReadStatus, KnownAt
    <3>2. SecretAt(call[c].op, call[c]) BY <2>3, <3>1 DEF StatusAllows, SecretAt, Sensitive
    <3> QED BY <1>12, <2>1, <2>3, <3>2, SecretsOfLogin DEF ReadStatus
  <2> QED BY <2>2, <2>3
<1>13. ASSUME NEW c \in Calls,
              \/ \E s \in Sessions : ActivateTwoFactor(c, s)
              \/ MarkVerified(c) \/ WipeCodes(c) \/ RevokeOtherSessions(c) \/ RegenerateCodes(c)
       PROVE  Secrets'
  <2>1. UNCHANGED InForce
    BY <1>3, <1>13 DEF ActivateTwoFactor, MarkVerified, WipeCodes, RevokeOtherSessions,
                       RegenerateCodes, InForce, rows, records
  <2>2. Return(c) \/ Goto(c, "status", call[c]) \/ \E s : Goto(c, "pending", [Idle EXCEPT !.op = "confirm", !.session = s])
    BY <1>13 DEF ActivateTwoFactor, MarkVerified, WipeCodes, RevokeOtherSessions, RegenerateCodes
  <2> QED BY <1>2, <1>4, <2>1, <2>2, SecretsOfLogin
<1>14. ASSUME NEW c \in Calls, CallDies(c) PROVE Secrets'
  BY <1>4, <1>14 DEF CallDies, InForce, rows
<1>15. ASSUME NEW c \in Calls, SettingsStep(c) PROVE Secrets'
  BY <1>7, <1>8, <1>9, <1>10, <1>11, <1>12, <1>13, <1>15 DEF SettingsStep
<1>16. CASE SetupExpires
  <2>1. factor'.secret = factor.secret /\ factor'.enabled = factor.enabled
    BY <1>16 DEF SetupExpires, WellTyped, TypeOK
  <2> QED BY <1>1, <1>16, <2>1 DEF SetupExpires, InForce, records
<1>17. CASE \/ UNCHANGED vars \/ \E k \in Challenges : ChallengeExpires(k)
            \/ \E s \in Sessions : VerificationAges(s) \/ CloseSession(s) \/ Tick
  BY <1>1, <1>17 DEF vars, ChallengeExpires, VerificationAges, CloseSession, Tick, InForce, rows, records
<1> QED BY <1>1, <1>5, <1>6, <1>14, <1>15, <1>16, <1>17 DEF Next, Tick, InForce, rows, records

\* A code of a batch is none of the application's, nor one of another batch.
LEMMA ProofsApart ==
  /\ \A b \in 1..MaxBatches : Batch(b) \subseteq Proofs
  /\ \A b, p : p \in Batch(b) => p[1] = "recovery" /\ p[2] = b
  /\ \A s \in 1..MaxSecrets, t \in 1..(LastStep + 1) : <<"totp", s, t>> \in Proofs
  /\ \A s, t : <<"totp", s, t>>[1] = "totp"
<1>1. \A b \in 1..MaxBatches : Batch(b) \subseteq Proofs BY DEF Proofs
<1>2. ASSUME NEW b, NEW p \in Batch(b) PROVE p[1] = "recovery" /\ p[2] = b
  BY DEF Batch
<1>3. \A s \in 1..MaxSecrets, t \in 1..(LastStep + 1) : <<"totp", s, t>> \in Proofs
  BY DEF Proofs
<1> QED BY <1>1, <1>2, <1>3

\* One more use of p is no use of another code.
LEMMA UsedOnce ==
  ASSUME WellTyped, NEW p, Used(p)
  PROVE  \A q \in Proofs : uses'[q] = IF q = p THEN uses[q] + 1 ELSE uses[q]
BY DEF Used, WellTyped, TypeOK

LEMMA CodesStay ==
  ASSUME Codes, UNCHANGED <<live, batches, uses>>, factor'.enabled = factor.enabled,
         factor'.secret = factor.secret, factor'.lastUsed = factor.lastUsed, UNCHANGED proved
  PROVE  Codes'
BY DEF Codes, RecoveryCodesMatchFactor, CodesWorkOnce

LEMMA CodesOfVerify ==
  ASSUME WellTyped, Secrets, Codes, NEW c \in Calls, VerifyCode(c)
  PROVE  Codes'
<1>1. UNCHANGED <<batches, proved>> BY DEF VerifyCode, records
<1>2. call[c].secret \in proved BY DEF VerifyCode, Secrets, SecretAt
<1>3. CASE UNCHANGED <<factor, live, uses>> BY <1>1, <1>3, CodesStay
<1>4. CASE VerifyRecovery(c)
  <2>1. PICK p \in live : live' = live \ {p} /\ Used(p) /\ factor' = factor
    BY <1>4 DEF VerifyRecovery, Spent
  <2>2. factor.enabled /\ p \in Batch(batches) /\ uses[p] = 0 /\ p \in Proofs
    BY <2>1 DEF Codes, RecoveryCodesMatchFactor, WellTyped, TypeOK
  <2>3. \A q \in Proofs : uses'[q] = IF q = p THEN uses[q] + 1 ELSE uses[q] BY <2>1, UsedOnce
  <2>4. p[1] = "recovery" /\ p[2] = batches BY <2>2, ProofsApart
  <2>5. batches \in 1..MaxBatches BY <2>2, FactorAssumption DEF Codes, WellTyped, TypeOK
  <2>6. RecoveryCodesMatchFactor'
    <3>1. live = {q \in Batch(batches) : uses[q] = 0} BY <2>2 DEF Codes, RecoveryCodesMatchFactor
    <3>2. \A q \in Batch(batches) : uses'[q] = IF q = p THEN 1 ELSE uses[q]
      BY <2>2, <2>3, <2>5, ProofsApart
    <3>3. live' = {q \in Batch(batches) : uses'[q] = 0} BY <2>1, <2>2, <3>1, <3>2
    <3> QED BY <1>1, <2>1, <2>2, <3>3 DEF RecoveryCodesMatchFactor, Batch
  <2>7. CodesWorkOnce' BY <2>2, <2>3 DEF Codes, CodesWorkOnce
  <2>8. ASSUME NEW b \in 1..MaxBatches, b > batches', NEW q \in Batch(b) PROVE uses'[q] = 0
    <3>1. q \in Proofs /\ q[2] = b BY ProofsApart
    <3>2. q # p BY <1>1, <2>4, <2>5, <2>8, <3>1
    <3> QED BY <1>1, <2>3, <2>8, <3>1, <3>2 DEF Codes
  <2>9. ASSUME NEW s \in 1..MaxSecrets, NEW t \in 1..(LastStep + 1),
               s \notin proved \/ (s = factor.secret /\ t > factor.lastUsed)
        PROVE  uses'[<<"totp", s, t>>] = 0
    <3>1. <<"totp", s, t>> \in Proofs /\ <<"totp", s, t>> # p BY <2>4, ProofsApart
    <3> QED BY <2>3, <2>9, <3>1 DEF Codes
  <2> QED BY <1>1, <2>1, <2>6, <2>7, <2>8, <2>9 DEF Codes, Batch
<1>5. CASE VerifyTotp(c)
  <2>1. PICK step \in ValidSteps :
          /\ Advances(step) /\ factor' = [factor EXCEPT !.lastUsed = step] /\ live' = live
          /\ IF factor.secret = call[c].secret THEN Used(<<"totp", call[c].secret, step>>)
             ELSE uses' = uses
    BY <1>5 DEF VerifyTotp
  <2>2. /\ factor'.enabled = factor.enabled /\ factor'.secret = factor.secret
        /\ factor'.lastUsed = step /\ step > factor.lastUsed
        /\ factor.secret \in 1..MaxSecrets /\ step \in 1..(LastStep + 1)
        /\ factor.lastUsed \in Nat
    BY <2>1, StepsOfClock, FactorAssumption DEF Advances, WellTyped, TypeOK
  <2>3. CASE factor.secret # call[c].secret
    <3>1. uses' = uses BY <2>1, <2>3
    <3>2. ASSUME NEW s \in 1..MaxSecrets, NEW t \in 1..(LastStep + 1),
                 s \notin proved \/ (s = factor.secret /\ t > step)
          PROVE  uses[<<"totp", s, t>>] = 0
      <4>1. t > step => t > factor.lastUsed BY <2>2, FactorAssumption
      <4> QED BY <3>2, <4>1 DEF Codes
    <3> QED BY <1>1, <2>1, <2>2, <3>1, <3>2 DEF Codes, RecoveryCodesMatchFactor, CodesWorkOnce
  <2>4. CASE factor.secret = call[c].secret
    <3> DEFINE p == <<"totp", factor.secret, step>>
    <3>1. p \in Proofs /\ p[1] = "totp" /\ p[2] = factor.secret /\ p[3] = step BY <2>2, ProofsApart
    <3>2. uses[p] = 0 BY <2>2 DEF Codes
    <3>3. \A q \in Proofs : uses'[q] = IF q = p THEN uses[q] + 1 ELSE uses[q]
      BY <2>1, <2>4, UsedOnce
    <3> HIDE DEF p
    <3>4. \A b \in 1..MaxBatches : \A q \in Batch(b) : uses'[q] = uses[q]
      <4> SUFFICES ASSUME NEW b \in 1..MaxBatches, NEW q \in Batch(b) PROVE uses'[q] = uses[q]
        OBVIOUS
      <4>1. q \in Proofs /\ q # p BY <3>1, ProofsApart
      <4> QED BY <3>3, <4>1
    <3>5. RecoveryCodesMatchFactor'
      <4>1. CASE ~factor.enabled
        BY <2>1, <2>2, <4>1 DEF Codes, RecoveryCodesMatchFactor
      <4>2. CASE factor.enabled
        <5>1. batches \in 1..MaxBatches BY <4>2, FactorAssumption DEF Codes, WellTyped, TypeOK
        <5>2. live = {q \in Batch(batches) : uses[q] = 0} BY <4>2 DEF Codes, RecoveryCodesMatchFactor
        <5>3. live' = {q \in Batch(batches) : uses'[q] = 0} BY <2>1, <3>4, <5>1, <5>2
        <5> QED BY <1>1, <2>2, <4>2, <5>3 DEF RecoveryCodesMatchFactor, Batch
      <4> QED BY <4>1, <4>2
    <3>6. CodesWorkOnce' BY <3>2, <3>3 DEF Codes, CodesWorkOnce
    <3>7. ASSUME NEW b \in 1..MaxBatches, b > batches', NEW q \in Batch(b) PROVE uses'[q] = 0
      BY <1>1, <3>4, <3>7 DEF Codes
    <3>8. ASSUME NEW s \in 1..MaxSecrets, NEW t \in 1..(LastStep + 1),
                 s \notin proved \/ (s = factor.secret /\ t > step)
          PROVE  uses'[<<"totp", s, t>>] = 0
      <4> DEFINE q == <<"totp", s, t>>
      <4>1. q \in Proofs /\ q[2] = s /\ q[3] = t BY ProofsApart
      <4>2. uses[q] = 0
        <5>1. t > step => t > factor.lastUsed BY <2>2, FactorAssumption
        <5> QED BY <3>8, <5>1 DEF Codes
      <4>3. q # p
        <5>1. s # factor.secret \/ t # step BY <1>2, <2>2, <2>4, <3>8
        <5> HIDE DEF q
        <5> QED BY <3>1, <4>1, <5>1
      <4> HIDE DEF q
      <4>4. uses'[q] = 0 BY <3>3, <4>1, <4>2, <4>3
      <4> QED BY <4>4 DEF q
    <3> QED BY <1>1, <2>1, <2>2, <3>5, <3>6, <3>7, <3>8 DEF Codes, Batch
  <2> QED BY <2>3, <2>4
<1> QED BY <1>3, <1>4, <1>5 DEF VerifyCode

\* A batch nobody has seen yet replaces the codes.
LEMMA CodesOfNewBatch ==
  ASSUME WellTyped, Codes, NewBatch
  PROVE  /\ batches' \in 1..MaxBatches /\ batches' # 0 /\ live' = Batch(batches')
         /\ \A p \in Batch(batches') : uses[p] = 0
         /\ \A b \in 1..MaxBatches : b > batches' => \A p \in Batch(b) : uses[p] = 0
<1>1. /\ batches \in 0..MaxBatches /\ MaxBatches \in Nat
      /\ batches' = batches + 1 /\ batches < MaxBatches /\ live' = Batch(batches + 1)
  BY FactorAssumption DEF WellTyped, TypeOK, NewBatch
<1>2. batches' \in 1..MaxBatches /\ batches' > batches BY <1>1
<1>3. \A b \in 1..MaxBatches : b > batches' => b > batches BY <1>1
<1> QED BY <1>1, <1>2, <1>3 DEF Codes

LEMMA CodesOfConfirm ==
  ASSUME WellTyped, Secrets, Codes, NEW c \in Calls, ConfirmSetup(c)
  PROVE  Codes'
<1> DEFINE secret == factor.secret
           step == call[c].step
<1>1. /\ call[c].secret = secret /\ secret \in 1..MaxSecrets /\ step \in 0..(LastStep + 1)
      /\ ~factor.enabled
  BY ReadingsOfCall DEF Secrets, SecretAt, ConfirmSetup, KnownAt, Readings
<1>2. /\ factor'.secret = secret /\ factor'.enabled /\ factor'.lastUsed = step
      /\ proved' = proved \cup {secret}
  BY <1>1, FactorAssumption DEF ConfirmSetup, EnableFactor, WellTyped, TypeOK
<1>3. secret \notin proved BY <1>1 DEF Secrets
<1> DEFINE p == <<"totp", secret, step>>
<1>4. Used(p) /\ NewBatch BY <1>1 DEF ConfirmSetup
<1>5. p[1] = "totp" /\ p[2] = secret /\ p[3] = step OBVIOUS
<1> HIDE DEF p
<1>6. \A q \in Proofs : uses'[q] = IF q = p THEN uses[q] + 1 ELSE uses[q] BY <1>4, UsedOnce
<1>7. \A b \in 1..MaxBatches : \A q \in Batch(b) : uses'[q] = uses[q]
  <2> SUFFICES ASSUME NEW b \in 1..MaxBatches, NEW q \in Batch(b) PROVE uses'[q] = uses[q]
    OBVIOUS
  <2>1. q \in Proofs /\ q # p BY <1>5, ProofsApart
  <2> QED BY <1>6, <2>1
<1>8. RecoveryCodesMatchFactor'
  <2>1. live' = {q \in Batch(batches') : uses'[q] = 0} BY <1>4, <1>7, CodesOfNewBatch
  <2> QED BY <1>2, <2>1 DEF RecoveryCodesMatchFactor, Batch
<1>9. CodesWorkOnce'
  <2> SUFFICES ASSUME NEW q \in Proofs PROVE uses'[q] <= 1
    BY DEF CodesWorkOnce
  <2>1. CASE q # p BY <1>6, <2>1 DEF Codes, CodesWorkOnce
  <2>2. CASE q = p
    <3>1. step \in 1..(LastStep + 1) => uses[<<"totp", secret, step>>] = 0
      BY <1>1, <1>3 DEF Codes
    <3>2. step \in 1..(LastStep + 1)
      <4>1. CASE p \in {"totp"} \X (1..MaxSecrets) \X (1..(LastStep + 1)) BY <1>5, <4>1
      <4>2. CASE \E b \in 1..MaxBatches : p \in Batch(b) BY <1>5, <4>2, ProofsApart
      <4> QED BY <2>2, <4>1, <4>2 DEF Proofs
    <3>3. uses[p] = 0 BY <3>1, <3>2 DEF p
    <3> QED BY <1>6, <2>2, <3>3
  <2> QED BY <2>1, <2>2
<1>10. ASSUME NEW s \in 1..MaxSecrets, NEW t \in 1..(LastStep + 1),
              s \notin proved' \/ (s = factor'.secret /\ t > factor'.lastUsed)
       PROVE  uses'[<<"totp", s, t>>] = 0
  <2> DEFINE q == <<"totp", s, t>>
  <2>1. q \in Proofs /\ q[2] = s /\ q[3] = t BY ProofsApart
  <2>2. s \notin proved BY <1>2, <1>3, <1>10
  <2>3. uses[q] = 0 BY <2>2 DEF Codes
  <2>4. s # secret \/ t # step
    <3>1. t > step => t # step BY <1>1
    <3> QED BY <1>2, <1>10, <3>1
  <2> HIDE DEF q
  <2>5. q # p BY <1>5, <2>1, <2>4
  <2>6. uses'[q] = 0 BY <1>6, <2>1, <2>3, <2>5
  <2> QED BY <2>6 DEF q
<1>11. ASSUME NEW b \in 1..MaxBatches, b > batches', NEW q \in Batch(b) PROVE uses'[q] = 0
  BY <1>4, <1>7, <1>11, CodesOfNewBatch
<1>12. batches' # 0 BY <1>4, CodesOfNewBatch
<1> QED BY <1>8, <1>9, <1>10, <1>11, <1>12 DEF Codes, Batch

\* Without an enabled factor there are no codes, and a secret that was never
\* confirmed has no use.
LEMMA CodesOff ==
  ASSUME WellTyped, Codes, ~factor'.enabled, live' = {}, UNCHANGED <<batches, uses, proved>>,
         factor'.secret \notin proved
  PROVE  Codes'
<1>1. RecoveryCodesMatchFactor' BY DEF RecoveryCodesMatchFactor
<1>2. CodesWorkOnce' BY DEF Codes, CodesWorkOnce
<1> QED BY <1>1, <1>2 DEF Codes, Batch

LEMMA CodesKept ==
  ASSUME WellTyped, Secrets, Codes, Secrets', [Next]_vars
  PROVE  Codes'
<1>1. UNCHANGED <<rows, records, uses>> => Codes' BY CodesStay DEF rows, records
<1>2. ASSUME NEW c \in Calls, LoginStep(c) \/ CallDies(c) PROVE Codes'
  <2>1. UNCHANGED <<live, batches, uses, factor, proved>>
    BY <1>2 DEF LoginStep, LoginReadsFactor, IssueChallenge, JoinFactor, ClaimAttempt,
                ConsumeChallenge, OpenSession, CallDies, rows, records
  <2> QED BY <2>1, CodesStay
<1>3. ~factor.enabled => live = {} BY DEF Codes, RecoveryCodesMatchFactor
<1>4. ASSUME NEW c \in Calls, SettingsStep(c) PROVE Codes'
  <2>1. CASE \/ \E s \in Sessions : \/ SetupTwoFactor(c, s) \/ RemoveTwoFactor(c, s)
                                    \/ ReplaceRecoveryCodes(c, s) \/ ActivateTwoFactor(c, s)
             \/ MarkVerified(c) \/ ReadStatus(c) \/ ReadPending(c) \/ RevokeOtherSessions(c)
    <3>1. UNCHANGED <<live, batches, uses, factor, proved>>
      BY <2>1 DEF SetupTwoFactor, RemoveTwoFactor, ReplaceRecoveryCodes, StartSensitive,
                  ActivateTwoFactor, MarkVerified, ReadStatus, ReadPending, RevokeOtherSessions,
                  rows, records
    <3> QED BY <3>1, CodesStay
  <2>2. CASE DrawSecret(c)
    <3>1. ~factor.enabled BY <2>2 DEF DrawSecret, Secrets, SecretAt
    <3>2. ~factor'.enabled BY <2>2 DEF DrawSecret, NoFactor
    <3>3. UNCHANGED <<live, batches, uses, proved>> BY <2>2 DEF DrawSecret, records
    <3>4. factor'.secret \notin proved BY <3>2, <3>3 DEF Secrets
    <3> QED BY <1>3, <3>1, <3>2, <3>3, <3>4, CodesOff
  <2>3. CASE WipeCodes(c)
    <3>1. ~factor.enabled BY <2>3 DEF WipeCodes, Secrets, SecretAt
    <3>2. UNCHANGED <<factor, batches, uses, proved>> /\ live' = {} BY <2>3 DEF WipeCodes, records
    <3> QED BY <3>1, <3>2, CodesOff DEF Secrets
  <2>4. CASE DisableFactor(c)
    <3>1. ~factor'.enabled /\ live' = {} BY <2>4 DEF DisableFactor, RemovedCodes, NoFactor
    <3>2. UNCHANGED <<batches, uses, proved>> BY <2>4 DEF DisableFactor
    <3>3. factor'.secret \notin proved BY <3>1, <3>2 DEF Secrets
    <3> QED BY <3>1, <3>2, <3>3, CodesOff
  <2>5. CASE RegenerateCodes(c)
    <3>1. factor.enabled BY <2>5 DEF RegenerateCodes, Secrets, SecretAt
    <3>2. NewBatch /\ UNCHANGED <<factor, uses, proved>> BY <2>5 DEF RegenerateCodes, records
    <3>3. RecoveryCodesMatchFactor'
      <4>1. live' = {p \in Batch(batches') : uses[p] = 0} BY <3>2, CodesOfNewBatch
      <4> QED BY <3>1, <3>2, <4>1 DEF RecoveryCodesMatchFactor, Batch
    <3>4. CodesWorkOnce' BY <3>2 DEF Codes, CodesWorkOnce
    <3> QED BY <3>2, <3>3, <3>4, CodesOfNewBatch DEF Codes, Batch
  <2> QED BY <1>4, <2>1, <2>2, <2>3, <2>4, <2>5, CodesOfConfirm DEF SettingsStep
<1>5. CASE SetupExpires
  <2>1. /\ factor'.secret = factor.secret /\ factor'.enabled = factor.enabled
        /\ factor'.lastUsed = factor.lastUsed
    BY <1>5 DEF SetupExpires, WellTyped, TypeOK
  <2> QED BY <1>5, <2>1, CodesStay DEF SetupExpires, records
<1>6. CASE \/ UNCHANGED vars \/ \E k \in Challenges : ChallengeExpires(k)
           \/ \E s \in Sessions : VerificationAges(s) \/ CloseSession(s)
           \/ Tick
  <2>1. UNCHANGED <<live, batches, uses, factor, proved>>
    BY <1>6 DEF vars, ChallengeExpires, VerificationAges, CloseSession, Tick, rows, records
  <2> QED BY <2>1, CodesStay
<1> QED BY <1>2, <1>4, <1>5, <1>6, CodesOfVerify DEF Next

\* Whoever does not revoke leaves what is open open.
LEMMA EldersStay ==
  ASSUME WellTyped, Elders, UNCHANGED older, OpenSessions \subseteq OpenSessions',
         \A e \in Calls : pc'[e] = "revoke" <=> pc[e] = "revoke",
         \A e \in Calls : pc[e] = "revoke" => call'[e].session = call[e].session
  PROVE  Elders'
BY DEF Elders, OlderSessionsEnd

LEMMA EldersOfGoto ==
  ASSUME WellTyped, Elders, UNCHANGED older, OpenSessions \subseteq OpenSessions',
         NEW c \in Calls, NEW at, NEW read, Goto(c, at, read), at # "revoke", pc[c] # "revoke"
  PROVE  Elders'
BY CallMoves, EldersStay

\* An activation or a removal finds nobody else about to revoke.
LEMMA EldersOfMarked ==
  ASSUME WellTyped, Alone, NEW c \in InSettings, Goto(c, "revoke", call[c]), Marked(c),
         UNCHANGED session
  PROVE  Elders'
<1>1. /\ \A e \in Calls : IF e = c THEN pc'[e] = "revoke" /\ call'[e] = call[c]
                          ELSE pc'[e] = pc[e] /\ call'[e] = call[e]
      /\ c \in Calls
  BY CallMoves DEF InSettings
<1>2. \A e \in Calls : e # c => pc[e] # "revoke" BY OthersElsewhere
<1>3. OpenSessions' = OpenSessions BY DEF OpenSessions
<1>4. older' = OpenSessions \ {call[c].session} BY DEF Marked
<1> QED BY <1>1, <1>2, <1>3, <1>4 DEF Elders, OlderSessionsEnd

\* Whoever revokes alone leaves nothing to revoke.
LEMMA EldersOver ==
  ASSUME WellTyped, Alone, NEW c \in Calls, pc[c] = "revoke", NEW at, NEW read,
         Goto(c, at, read), at # "revoke", older' = {}
  PROVE  Elders'
<1>1. c \in InSettings BY SettingsCalls
<1>2. \A e \in Calls : pc'[e] # "revoke" BY <1>1, CallMoves, OthersElsewhere
<1> QED BY <1>2 DEF Elders, OlderSessionsEnd

LEMMA EldersKept ==
  ASSUME WellTyped, Alone, Elders, [Next]_vars
  PROVE  Elders'
<1>1. session \in [Sessions -> [state : {"none", "open", "closed"}, recent : BOOLEAN,
                                challenge : Challenges \cup {NoChallenge}]]
  BY DEF WellTyped, TypeOK
<1>2. session' = session => OpenSessions \subseteq OpenSessions' BY DEF OpenSessions
<1>3. ASSUME NEW c \in Calls, LoginStep(c) PROVE Elders'
  <2>1. OpenSessions \subseteq OpenSessions'
    <3>1. \/ session' = session
          \/ \E s \in Sessions : /\ session[s].state = "none"
                                 /\ session' = [session EXCEPT ![s] =
                                      [state |-> "open", recent |-> TRUE, challenge |-> call[c].challenge]]
      BY <1>3 DEF LoginStep, LoginReadsFactor, IssueChallenge, JoinFactor, ClaimAttempt,
                  ConsumeChallenge, OpenSession
    <3> QED BY <1>1, <3>1 DEF OpenSessions
  <2>2. UNCHANGED older /\ pc[c] # "revoke"
    BY <1>3 DEF LoginStep, LoginReadsFactor, IssueChallenge, JoinFactor, ClaimAttempt,
                ConsumeChallenge, OpenSession, records
  <2>3. PICK at \in Statements \ {"revoke"} : \A e \in Calls :
          IF e = c THEN pc'[e] = at ELSE pc'[e] = pc[e] /\ call'[e] = call[e]
    <3>1. /\ \A read : Goto(c, "idle", read) \/ Goto(c, "challenge", read) \/ Goto(c, "open", read)
                       \/ Goto(c, "join", read) \/ Goto(c, "verify", read) =>
                 \E at \in Statements \ {"revoke"} : \A e \in Calls :
                   IF e = c THEN pc'[e] = at ELSE pc'[e] = pc[e] /\ call'[e] = call[e]
      BY CallMoves DEF Statements
    <3> QED BY <1>3, <3>1 DEF LoginStep, LoginReadsFactor, IssueChallenge, JoinFactor, ClaimAttempt,
                              ConsumeChallenge, OpenSession, Return
  <2> QED BY <2>1, <2>2, <2>3, EldersStay
<1>4. ASSUME NEW c \in Calls, VerifyCode(c) PROVE Elders'
  <2>1. UNCHANGED <<older, session>> /\ pc[c] # "revoke" BY <1>4 DEF VerifyCode, records
  <2>2. \/ Goto(c, "idle", Idle) \/ Goto(c, "consume", call[c]) \/ Goto(c, "mark", call[c])
    BY <1>4 DEF VerifyCode, VerifyTotp, VerifyRecovery, Accepted, Return
  <2> QED BY <1>2, <2>1, <2>2, EldersOfGoto
<1>5. ASSUME NEW c \in Calls, SettingsStep(c) PROVE Elders'
  <2>1. CASE \E s \in Sessions : \/ SetupTwoFactor(c, s) \/ RemoveTwoFactor(c, s)
                                 \/ ReplaceRecoveryCodes(c, s) \/ ActivateTwoFactor(c, s)
    <3>1. UNCHANGED <<older, session>> /\ pc[c] # "revoke"
      BY <2>1 DEF SetupTwoFactor, RemoveTwoFactor, ReplaceRecoveryCodes, StartSensitive,
                  ActivateTwoFactor, MayAsk, records
    <3>2. \A at, read : Goto(c, at, read) /\ at # "revoke" => Elders'
      BY <1>2, <3>1, EldersOfGoto
    <3> QED BY <2>1, <3>2 DEF SetupTwoFactor, RemoveTwoFactor, ReplaceRecoveryCodes,
                              StartSensitive, ActivateTwoFactor
  <2>2. CASE MarkVerified(c)
    <3>1. session' = [session EXCEPT ![call[c].session].recent = TRUE] BY <2>2 DEF MarkVerified
    <3>2. OpenSessions' = OpenSessions BY <1>1, <3>1 DEF OpenSessions
    <3> QED BY <2>2, <3>2, EldersOfGoto DEF MarkVerified, records
  <2>3. CASE ReadStatus(c)
    <3>1. UNCHANGED <<older, session>> /\ pc[c] # "revoke" BY <2>3 DEF ReadStatus, records
    <3>2. call[c].op # "revoke"
      BY <2>3, ReadingsOfCall DEF ReadStatus, KnownAt, Sensitive
    <3>3. Goto(c, call[c].op, call[c]) \/ Goto(c, "idle", Idle) BY <2>3 DEF ReadStatus, Return
    <3> QED BY <1>2, <3>1, <3>2, <3>3, EldersOfGoto
  <2>4. CASE DrawSecret(c) \/ WipeCodes(c) \/ RegenerateCodes(c)
    <3>1. UNCHANGED <<older, session>> /\ pc[c] # "revoke"
      BY <2>4 DEF DrawSecret, WipeCodes, RegenerateCodes, records
    <3>2. Goto(c, "wipe", call[c]) \/ Goto(c, "idle", Idle)
      BY <2>4 DEF DrawSecret, WipeCodes, RegenerateCodes, Return
    <3> QED BY <1>2, <3>1, <3>2, EldersOfGoto
  <2>5. CASE ReadPending(c)
    <3>1. UNCHANGED <<older, session>> /\ pc[c] # "revoke" BY <2>5 DEF ReadPending, records
    <3>2. \A at, read : Goto(c, at, read) /\ at # "revoke" => Elders'
      BY <1>2, <3>1, EldersOfGoto
    <3> QED BY <2>5, <3>2 DEF ReadPending, Return
  <2>6. CASE ConfirmSetup(c) \/ DisableFactor(c)
    <3>1. c \in InSettings BY <2>6, SettingsCalls DEF ConfirmSetup, DisableFactor
    <3>2. Goto(c, "revoke", call[c]) /\ Marked(c) /\ UNCHANGED session
      BY <2>6 DEF ConfirmSetup, DisableFactor
    <3> QED BY <3>1, <3>2, EldersOfMarked
  <2>7. CASE RevokeOtherSessions(c)
    <3>1. pc[c] = "revoke" /\ Goto(c, "idle", Idle) /\ older' = older \ (OpenSessions \ {call[c].session})
      BY <2>7 DEF RevokeOtherSessions, Return, Revoked
    <3>2. older' = {} BY <3>1 DEF Elders
    <3> QED BY <3>1, <3>2, EldersOver
  <2> QED BY <1>5, <2>1, <2>2, <2>3, <2>4, <2>5, <2>6, <2>7 DEF SettingsStep
<1>6. ASSUME NEW c \in Calls, CallDies(c) PROVE Elders'
  <2>1. Goto(c, "idle", Idle) /\ UNCHANGED session BY <1>6 DEF CallDies, Return
  <2>2. CASE pc[c] = "revoke" BY <1>6, <2>1, <2>2, EldersOver DEF CallDies
  <2>3. CASE pc[c] # "revoke"
    <3>1. UNCHANGED older BY <1>6, <2>3 DEF CallDies
    <3> QED BY <1>2, <2>1, <2>3, <3>1, EldersOfGoto
  <2> QED BY <2>2, <2>3
<1>7. ASSUME NEW s \in Sessions, CloseSession(s) PROVE Elders'
  <2>1. OpenSessions' = OpenSessions \ {s} BY <1>1, <1>7 DEF CloseSession, OpenSessions
  <2>2. UNCHANGED <<pc, call>> /\ older' = older \ {s} BY <1>7 DEF CloseSession
  <2> QED BY <2>1, <2>2 DEF Elders, OlderSessionsEnd
<1>8. ASSUME NEW s \in Sessions, VerificationAges(s) PROVE Elders'
  <2>1. OpenSessions' = OpenSessions BY <1>1, <1>8 DEF VerificationAges, OpenSessions
  <2> QED BY <1>8, <2>1, EldersStay DEF VerificationAges, records
<1>9. CASE \/ UNCHANGED vars \/ \E k \in Challenges : ChallengeExpires(k)
           \/ Tick \/ SetupExpires
  <2>1. UNCHANGED <<pc, call, session, older>>
    BY <1>9 DEF vars, ChallengeExpires, Tick, SetupExpires, records
  <2> QED BY <1>2, <2>1, EldersStay
<1> QED BY <1>3, <1>4, <1>5, <1>6, <1>7, <1>8, <1>9 DEF Next

LEMMA InitPaged == Init => Paged
<1> SUFFICES ASSUME Init PROVE Paged
  OBVIOUS
<1>1. WellTyped BY InitTyping
<1>2. /\ \A c \in Calls : pc[c] = "idle" /\ call[c].op = "none"
      /\ factor.secret = 0 /\ ~factor.enabled /\ drawn = 0 /\ proved = {} /\ live = {}
      /\ \A p \in Proofs : uses[p] = 0
      /\ older = {}
  BY DEF Init, Idle, NoFactor
<1>3. Alone BY <1>2 DEF Alone, InSettings, Settings
<1>4. Secrets BY <1>2 DEF Secrets, SecretAt
<1>5. Codes BY <1>2, ProofsApart DEF Codes, RecoveryCodesMatchFactor, CodesWorkOnce
<1>6. Elders BY <1>2 DEF Elders, OlderSessionsEnd
<1> QED BY <1>1, <1>3, <1>4, <1>5, <1>6 DEF Paged

LEMMA StepPaged ==
  ASSUME OnePage, Paged, [Next]_vars
  PROVE  Paged'
<1>1. WellTyped' BY StepTyping DEF Paged
<1>2. Alone' BY AloneKept DEF Paged
<1>3. Secrets' BY SecretsKept DEF Paged
<1>4. Codes' BY <1>3, CodesKept DEF Paged
<1>5. Elders' BY EldersKept DEF Paged
<1> QED BY <1>1, <1>2, <1>3, <1>4, <1>5 DEF Paged

\* As long as one settings page sends its requests one by one, a secret is in force
\* only after a code of it was shown, whatever logins run beside the settings.
THEOREM SecretWasProved == ASSUME OnePage PROVE Spec => []EnabledSecretWasProved
<1>1. Paged /\ [Next]_vars => Paged' BY StepPaged
<1>2. Paged => EnabledSecretWasProved BY DEF Paged, Secrets, EnabledSecretWasProved
<1> QED BY InitPaged, <1>1, <1>2, PTL DEF Spec

\* A code is accepted once, by logins and settings together, under the same
\* assumption.
THEOREM CodesOnce == ASSUME OnePage PROVE Spec => []CodesWorkOnce
<1>1. Paged /\ [Next]_vars => Paged' BY StepPaged
<1>2. Paged => CodesWorkOnce BY DEF Paged, Codes
<1> QED BY InitPaged, <1>1, <1>2, PTL DEF Spec

\* The recovery codes kept are those of the last batch nobody used, and none
\* without an enabled factor.
THEOREM RecoveryCodesMatch == ASSUME OnePage PROVE Spec => []RecoveryCodesMatchFactor
<1>1. Paged /\ [Next]_vars => Paged' BY StepPaged
<1>2. Paged => RecoveryCodesMatchFactor BY DEF Paged, Codes
<1> QED BY InitPaged, <1>1, <1>2, PTL DEF Spec

\* An activation or a removal that is over has closed every session that was open
\* before but its own.
THEOREM OlderSessionsEnded == ASSUME OnePage PROVE Spec => []OlderSessionsEnd
<1>1. Paged /\ [Next]_vars => Paged' BY StepPaged
<1>2. Paged => OlderSessionsEnd BY DEF Paged, Elders
<1> QED BY InitPaged, <1>1, <1>2, PTL DEF Spec

LEMMA OnlyRemoval ==
  ASSUME Paged, [Next]_vars, factor.enabled, ~factor'.enabled
  PROVE  \E c \in Calls : pc[c] = "remove" /\ pc'[c] = "revoke"
<1>1. CASE factor' = factor BY <1>1
<1>2. ASSUME NEW c \in Calls, DrawSecret(c) PROVE FALSE
  BY <1>2 DEF DrawSecret, Paged, Secrets, SecretAt
<1>3. ASSUME NEW c \in Calls, DisableFactor(c) PROVE pc[c] = "remove" /\ pc'[c] = "revoke"
  BY <1>3, CallMoves DEF DisableFactor, Paged
<1>4. ASSUME NEW c \in Calls, ConfirmSetup(c) \/ VerifyCode(c) PROVE FALSE
  BY <1>4 DEF ConfirmSetup, EnableFactor, VerifyCode, VerifyTotp, VerifyRecovery, Paged, WellTyped, TypeOK
<1>5. CASE SetupExpires BY <1>5 DEF SetupExpires, Paged, WellTyped, TypeOK
<1>6. CASE \/ UNCHANGED vars
           \/ \E c \in Calls : LoginStep(c) \/ CallDies(c)
           \/ \E k \in Challenges : ChallengeExpires(k)
           \/ \E s \in Sessions : VerificationAges(s) \/ CloseSession(s)
           \/ Tick
  BY <1>1, <1>6 DEF vars, LoginStep, LoginReadsFactor, IssueChallenge, JoinFactor, ClaimAttempt,
                    ConsumeChallenge, OpenSession, CallDies, ChallengeExpires, VerificationAges,
                    CloseSession, Tick, rows
<1>7. ASSUME NEW c \in Calls, SettingsStep(c), ~DrawSecret(c), ~ConfirmSetup(c), ~DisableFactor(c)
      PROVE  FALSE
  BY <1>1, <1>7 DEF SettingsStep, SetupTwoFactor, RemoveTwoFactor, ReplaceRecoveryCodes,
                    StartSensitive, ActivateTwoFactor, MarkVerified, ReadStatus, WipeCodes,
                    ReadPending, RevokeOtherSessions, RegenerateCodes, rows
<1> QED BY <1>2, <1>3, <1>4, <1>5, <1>6, <1>7 DEF Next

\* Nothing but a removal switches an enabled factor off: a setup that read the status
\* before an activation never overwrites it, from one page.
THEOREM OnlyRemovalSwitchesOff == ASSUME OnePage PROVE Spec => OnlyRemovalDisables
<1>1. Paged /\ [Next]_vars => Paged' BY StepPaged
<1>2. Paged /\ [Next]_vars =>
        [factor.enabled /\ ~factor'.enabled =>
           \E c \in Calls : pc[c] = "remove" /\ pc'[c] = "revoke"]_vars
  BY OnlyRemoval
<1> QED BY InitPaged, <1>1, <1>2, PTL DEF Spec, OnlyRemovalDisables
=============================================================================
