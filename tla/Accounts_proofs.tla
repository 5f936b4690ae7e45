--------------------------- MODULE Accounts_proofs ---------------------------
(***************************************************************************)
(* What the handlers of an account guarantee for every number of handlers, *)
(* sessions, links, origins and passwords, and for every lock threshold.   *)
(***************************************************************************)
EXTENDS Accounts, FiniteSetTheorems, TLAPS

-----------------------------------------------------------------------------
(* Types.                                                                  *)

LEMMA IdleTyped == TypeOK => Idle \in Readings
  BY DEF TypeOK, AccountTypes, Idle, Readings

\* A call that moves to a statement with a typed reading is typed, whatever
\* password is chosen by the same step.
LEMMA GotoTyped ==
  ASSUME CallTypes, NEW c \in Calls, NEW at \in Statements, NEW read \in Readings,
         Goto(c, at, read), chosen \in Nat, chosen' \in Nat, chosen <= chosen'
  PROVE  CallTypes'
<1>1. Readings \subseteq Readings'
  <2>1. 0..chosen \subseteq 0..chosen'
    OBVIOUS
  <2> QED BY <2>1 DEF Readings
<1>2. pc' \in [Calls -> Statements]
  BY DEF CallTypes, Goto
<1>3. call' \in [Calls -> Readings]
  BY DEF CallTypes, Goto
<1>4. call' \in [Calls -> Readings']
  BY <1>1, <1>3
<1> QED BY <1>2, <1>4 DEF CallTypes, Statements

\* The actions of one call, and those of nobody's call.
CallStep(c) == \/ LoginStep(c) \/ LinkStep(c) \/ SessionStep(c) \/ OfficeStep(c) \/ CallDies(c)
OutsideStep == \/ \E t \in Links : VerifyEmail(t) \/ ResetPassword(t) \/ LinkExpires(t)
               \/ \E s \in Sessions : CloseSession(s)
               \/ \E o \in Origins : WindowEnds(o)
               \/ Register \/ OfficeRevokes \/ LockRunsOut

LEMMA NextSteps == Next <=> (\E c \in Calls : CallStep(c)) \/ OutsideStep
  BY DEF Next, CallStep, OutsideStep

\* A new reading is typed: each is the old one, the empty one, or one of them
\* with a component of the right type.
LEMMA ReadingTyped ==
  ASSUME TypeOK, NEW c \in Calls
  PROVE  /\ call[c] \in Readings
         /\ \A o \in Origins : [Idle EXCEPT !.origin = o] \in Readings
         /\ \A s \in Sessions : [Idle EXCEPT !.session = s] \in Readings
         /\ \A k \in {"verify", "reset"} : [Idle EXCEPT !.kind = k] \in Readings
         /\ \A r \in 0..chosen : [call[c] EXCEPT !.rehash = r] \in Readings
         /\ \A l \in BOOLEAN : [call[c] EXCEPT !.lock = l] \in Readings
         /\ \A q \in SUBSET Links : [call[c] EXCEPT !.seen = q] \in Readings
<1> USE DEF Readings
<1>1. call[c] \in Readings
  BY DEF TypeOK, CallTypes
<1>2. Idle \in Readings
  BY IdleTyped
<1>3. \A o \in Origins : [Idle EXCEPT !.origin = o] \in Readings
  BY <1>2
<1>4. \A s \in Sessions : [Idle EXCEPT !.session = s] \in Readings
  BY <1>2
<1>5. \A k \in {"verify", "reset"} : [Idle EXCEPT !.kind = k] \in Readings
  BY <1>2
<1>6. \A r \in 0..chosen : [call[c] EXCEPT !.rehash = r] \in Readings
  BY <1>1
<1>7. \A l \in BOOLEAN : [call[c] EXCEPT !.lock = l] \in Readings
  BY <1>1
<1>8. \A q \in SUBSET Links : [call[c] EXCEPT !.seen = q] \in Readings
  BY <1>1
<1> QED BY <1>1, <1>3, <1>4, <1>5, <1>6, <1>7, <1>8

\* Every step of a call goes somewhere, with a typed reading.
LEMMA CallGoes ==
  ASSUME TypeOK, NEW c \in Calls,
         CallStep(c)
  PROVE  \E at \in Statements, read \in Readings : Goto(c, at, read)
<1> USE IdleTyped, ReadingTyped
<1>1. /\ CallTypes /\ chosen \in Nat /\ password \in 0..chosen
      /\ Idle \in Readings /\ call[c] \in Readings
  BY AccountAssumption DEF TypeOK, AccountTypes
<1>3. CASE LoginStep(c)
  <2>1. CASE \E o \in Origins : Login(c, o)
    BY <2>1 DEF Login, Statements
  <2>2. CASE RightPassword(c)
    BY <1>1, <2>2 DEF RightPassword, AfterCheck, Return, Statements
  <2>3. CASE WrongPassword(c)
    BY <1>1, <2>3 DEF WrongPassword, Statements
  <2>6. CASE CountFailure(c)
    <3> DEFINE lock == failures[call[c].origin] + 1 >= LockThreshold
    <3>1. lock \in BOOLEAN
      OBVIOUS
    <3>2. Goto(c, "punish", [call[c] EXCEPT !.lock = lock])
      BY <2>6 DEF CountFailure
    <3> HIDE DEF lock
    <3>3. [call[c] EXCEPT !.lock = lock] \in Readings
      BY <3>1
    <3> QED BY <3>2, <3>3 DEF Statements
  <2>4. CASE Unlock(c) \/ Rehash(c)
    BY <1>1, <2>4 DEF Unlock, Rehash, AfterCheck, Statements
  <2>5. CASE UnknownAccount(c) \/ Punish(c) \/ ClearFailures(c) \/ OpenSession(c) \/ FinishLogin(c)
    BY <1>1, <2>5 DEF UnknownAccount, Punish, ClearFailures, OpenSession, FinishLogin, Return, Statements
  <2> QED BY <1>3, <2>1, <2>2, <2>3, <2>4, <2>5, <2>6 DEF LoginStep
<1>4. CASE LinkStep(c)
  <2>1. CASE \E kind \in {"verify", "reset"} : AskLink(c, kind)
    BY <2>1 DEF AskLink, Statements
  <2>2. CASE Supersede(c)
    BY <2>2 DEF Supersede, LiveLinks, Statements
  <2>3. CASE IssueLink(c)
    BY <1>1, <2>3 DEF IssueLink, Return, Statements
  <2> QED BY <1>4, <2>1, <2>2, <2>3 DEF LinkStep
<1>5. CASE SessionStep(c)
  <2>1. CASE \E s \in Sessions : StartSensitive(c, s) \/ StartRevokeOthers(c, s)
    BY <2>1 DEF StartSensitive, StartRevokeOthers, Statements
  <2>2. CASE Reauthenticate(c)
    BY <1>1, <2>2 DEF Reauthenticate, Return, Statements
  <2>3. CASE ChangePassword(c) \/ RevokeAllSessions(c) \/ RevokeOtherSessions(c)
    BY <1>1, <2>3 DEF ChangePassword, RevokeAllSessions, RevokeOtherSessions, Return, Statements
  <2> QED BY <1>5, <2>1, <2>2, <2>3 DEF SessionStep
<1>6. CASE OfficeStep(c) \/ CallDies(c)
  BY <1>1, <1>6 DEF OfficeStep, OfficeReads, Disable, Enable, CallDies, Return, Statements
<1> QED BY <1>3, <1>4, <1>5, <1>6 DEF CallStep

\* A call that is about to rehash has read a password to hash.
RehashKnown == \A c \in Calls : pc[c] = "rehash" => call[c].rehash # 0

\* What the step of a call does to the columns of the account.
LEMMA AccountTyped ==
  ASSUME TypeOK, RehashKnown, NEW c \in Calls, CallStep(c)
  PROVE  AccountTypes' /\ chosen <= chosen'
<1>1. AccountTypes /\ call[c] \in Readings /\ chosen \in Nat /\ MaxPasswords \in Nat
  BY AccountAssumption DEF TypeOK, CallTypes, AccountTypes
<1>2. CASE UNCHANGED <<account, decision>>
  BY <1>1, <1>2 DEF account, AccountTypes
<1>3. CASE Punish(c)
  BY <1>1, <1>3 DEF Punish, AccountTypes
<1>4. CASE Unlock(c)
  BY <1>1, <1>4 DEF Unlock, AccountTypes
<1>5. CASE FinishLogin(c)
  BY <1>1, <1>5 DEF FinishLogin, AccountTypes
<1>6. CASE Disable(c)
  BY <1>1, <1>6 DEF Disable, AccountTypes
<1>7. CASE Enable(c)
  <2>1. disabledAt' \in BOOLEAN
    BY <1>7, Zenon DEF Enable
  <2> QED BY <1>1, <1>7, <2>1 DEF Enable, AccountTypes
<1>8. CASE ChangePassword(c)
  <2>1. legacy' \in BOOLEAN
    BY <1>8, Zenon DEF ChangePassword, NewPassword
  <2>2. UNCHANGED <<status, verified, disabledAt, lockedUntil, decision>>
    BY <1>8 DEF ChangePassword
  <2>3. password' = chosen + 1 /\ chosen' = chosen + 1 /\ chosen < MaxPasswords
    BY <1>8 DEF ChangePassword, NewPassword
  <2> QED BY <1>1, <2>1, <2>2, <2>3 DEF AccountTypes
<1>9. CASE Rehash(c)
  <2>1. call[c].rehash \in 1..chosen
    BY <1>1, <1>9 DEF Rehash, RehashKnown, Readings
  <2>2. legacy' \in BOOLEAN
    BY <1>9, Zenon DEF Rehash
  <2> QED BY <1>1, <1>9, <2>1, <2>2 DEF Rehash, AccountTypes
<1>10. CASE \/ \E o \in Origins : Login(c, o)
            \/ UnknownAccount(c) \/ WrongPassword(c) \/ RightPassword(c) \/ CountFailure(c)
            \/ ClearFailures(c) \/ OpenSession(c) \/ LinkStep(c) \/ CallDies(c)
  <2>1. UNCHANGED <<account, decision>>
    BY <1>10 DEF Login, UnknownAccount, WrongPassword, RightPassword, CountFailure, ClearFailures,
                 OpenSession, LinkStep, AskLink, Supersede, IssueLink, CallDies
  <2> QED BY <1>2, <2>1
<1>11. CASE \/ \E s \in Sessions : StartSensitive(c, s) \/ StartRevokeOthers(c, s)
            \/ Reauthenticate(c) \/ RevokeAllSessions(c) \/ RevokeOtherSessions(c)
            \/ \E to \in {"active", "disabled"} : OfficeReads(c, to)
  <2>1. UNCHANGED <<account, decision>>
    BY <1>11 DEF StartSensitive, StartRevokeOthers, Reauthenticate, RevokeAllSessions,
                 RevokeOtherSessions, OfficeReads
  <2> QED BY <1>2, <2>1
<1> QED
  BY <1>3, <1>4, <1>5, <1>6, <1>7, <1>8, <1>9, <1>10, <1>11
     DEF CallStep, LoginStep, SessionStep, OfficeStep

LEMMA RowsMade ==
  ASSUME TypeOK
  PROVE  /\ \A live \in SUBSET Links : Spend(live) \in [Links -> LinkRows]
         /\ \A kind \in {"none", "verify", "reset"} : Issued(kind) \in LinkRows
         /\ \A closed \in SUBSET Sessions : Close(closed) => session' \in [Sessions -> SessionRows]
         /\ \A kept \in SUBSET (Sessions \cup {NoSession}) :
              NewPassword(kept) => session' \in [Sessions -> SessionRows]
         /\ [state |-> "open", under |-> chosen] \in SessionRows
         /\ \A kind : LiveLinks(kind) \in SUBSET Links
<1>1. RowTypes /\ chosen \in Nat
  BY DEF TypeOK, AccountTypes
<1>2. Closed \in SessionRows /\ [state |-> "open", under |-> chosen] \in SessionRows
  BY <1>1 DEF Closed, SessionRows
<1>3. ASSUME NEW live \in SUBSET Links
      PROVE  Spend(live) \in [Links -> LinkRows]
  <2>1. \A t \in Links : [link[t] EXCEPT !.state = "spent", !.under = 0] \in LinkRows
    BY <1>1 DEF RowTypes, LinkRows
  <2> QED BY <1>1, <2>1 DEF Spend, RowTypes
<1>4. \A kind \in {"none", "verify", "reset"} : Issued(kind) \in LinkRows
  BY <1>1 DEF Issued, LinkRows
<1>5. ASSUME NEW closed \in SUBSET Sessions, Close(closed)
      PROVE  session' \in [Sessions -> SessionRows]
  BY <1>1, <1>2, <1>5 DEF Close, RowTypes
<1>6. ASSUME NEW kept \in SUBSET (Sessions \cup {NoSession}), NewPassword(kept)
      PROVE  session' \in [Sessions -> SessionRows]
  <2>1. \A s \in Sessions : [session[s] EXCEPT !.under = chosen + 1] \in SessionRows
    BY <1>1 DEF RowTypes, SessionRows
  <2> QED BY <1>1, <1>2, <1>6, <2>1 DEF NewPassword, RowTypes
<1>7. \A kind : LiveLinks(kind) \in SUBSET Links
  BY DEF LiveLinks
<1> QED BY <1>2, <1>3, <1>4, <1>5, <1>6, <1>7

\* What the step of a call does to the rows: the counters, links and sessions.
LEMMA RowsTyped ==
  ASSUME TypeOK, NEW c \in Calls, CallStep(c)
  PROVE  RowTypes'
<1>1. RowTypes /\ call[c] \in Readings /\ chosen \in Nat
  BY DEF TypeOK, CallTypes, AccountTypes
<1> USE RowsMade, <1>1 DEF RowTypes
<1>2. CASE UNCHANGED <<failures, link, worked, session>>
  BY <1>2 DEF LinkRows, SessionRows
<1>3. CASE UnknownAccount(c) \/ CountFailure(c)
  BY <1>3 DEF UnknownAccount, CountFailure, Counted, LinkRows, SessionRows
<1>4. CASE ClearFailures(c)
  BY <1>4 DEF ClearFailures, LinkRows, SessionRows
<1>5. CASE OpenSession(c)
  BY <1>5 DEF OpenSession, LinkRows, SessionRows
<1>6. CASE IssueLink(c)
  <2>1. call[c].seen \in SUBSET Links /\ call[c].kind \in {"none", "verify", "reset"}
    BY <1>1 DEF Readings
  <2>2. link' \in [Links -> LinkRows]
    <3>1. Spend(call[c].seen) \in [Links -> LinkRows] /\ Issued(call[c].kind) \in LinkRows
      BY <2>1
    <3> QED BY <1>6, <3>1 DEF IssueLink
  <2> QED BY <1>6, <2>2 DEF IssueLink
<1>7. CASE ChangePassword(c)
  <2>1. {call[c].session} \in SUBSET (Sessions \cup {NoSession})
    BY <1>1 DEF Readings
  <2>2. session' \in [Sessions -> SessionRows]
    BY <1>7, <2>1 DEF ChangePassword
  <2>3. link' \in [Links -> LinkRows]
    BY <1>7 DEF ChangePassword
  <2> QED BY <1>7, <2>2, <2>3 DEF ChangePassword
<1>8. CASE RevokeAllSessions(c) \/ RevokeOtherSessions(c) \/ Disable(c)
  BY <1>8 DEF RevokeAllSessions, RevokeOtherSessions, Disable, LinkRows, SessionRows
<1>9. CASE \/ \E o \in Origins : Login(c, o)
           \/ WrongPassword(c) \/ RightPassword(c) \/ Punish(c) \/ Unlock(c) \/ Rehash(c)
           \/ FinishLogin(c) \/ Supersede(c) \/ \E kind \in {"verify", "reset"} : AskLink(c, kind)
  BY <1>2, <1>9 DEF Login, WrongPassword, RightPassword, Punish, Unlock, Rehash, FinishLogin,
                    Supersede, AskLink
<1>10. CASE \/ \E s \in Sessions : StartSensitive(c, s) \/ StartRevokeOthers(c, s)
            \/ Reauthenticate(c) \/ Enable(c) \/ CallDies(c)
            \/ \E to \in {"active", "disabled"} : OfficeReads(c, to)
  BY <1>2, <1>10 DEF StartSensitive, StartRevokeOthers, Reauthenticate, Enable, CallDies, OfficeReads
<1> QED
  BY <1>3, <1>4, <1>5, <1>6, <1>7, <1>8, <1>9, <1>10
     DEF CallStep, LoginStep, LinkStep, SessionStep, OfficeStep

\* What the steps of nobody's call do.
LEMMA OutsideTyped ==
  ASSUME TypeOK, OutsideStep
  PROVE  AccountTypes' /\ RowTypes' /\ chosen <= chosen' /\ UNCHANGED <<pc, call>>
<1>1. AccountTypes /\ RowTypes /\ chosen \in Nat /\ MaxPasswords \in Nat
  BY AccountAssumption DEF TypeOK, AccountTypes
<1>2. ASSUME NEW t \in Links, VerifyEmail(t)
      PROVE  AccountTypes' /\ RowTypes' /\ chosen <= chosen' /\ UNCHANGED <<pc, call>>
  <2>1. link' \in [Links -> LinkRows]
    BY <1>2, RowsMade DEF VerifyEmail
  <2>2. verified' \in BOOLEAN
    BY <1>2, Zenon DEF VerifyEmail
  <2>3. worked' \in [Links -> Nat]
    BY <1>1, <1>2 DEF VerifyEmail, RowTypes
  <2>4. RowTypes'
    BY <1>1, <1>2, <2>1, <2>3 DEF VerifyEmail, RowTypes, SessionRows, LinkRows
  <2>5. AccountTypes'
    BY <1>1, <1>2, <2>2 DEF VerifyEmail, AccountTypes
  <2> QED BY <1>1, <1>2, <2>4, <2>5 DEF VerifyEmail
<1>3. ASSUME NEW t \in Links, ResetPassword(t)
      PROVE  AccountTypes' /\ RowTypes' /\ chosen <= chosen' /\ UNCHANGED <<pc, call>>
  <2>1. link' \in [Links -> LinkRows]
    BY <1>3, RowsMade DEF ResetPassword
  <2>2. session' \in [Sessions -> SessionRows]
    BY <1>3, RowsMade DEF ResetPassword
  <2>3. legacy' \in BOOLEAN
    BY <1>3, Zenon DEF ResetPassword, NewPassword
  <2>4. password' = chosen + 1 /\ chosen' = chosen + 1 /\ chosen < MaxPasswords
    BY <1>3 DEF ResetPassword, NewPassword
  <2>5. AccountTypes'
    BY <1>1, <1>3, <2>3, <2>4 DEF ResetPassword, AccountTypes
  <2>6. worked' \in [Links -> Nat]
    BY <1>1, <1>3 DEF ResetPassword, RowTypes
  <2>7. RowTypes'
    BY <1>1, <1>3, <2>1, <2>2, <2>6 DEF ResetPassword, RowTypes, SessionRows, LinkRows
  <2> QED BY <1>1, <1>3, <2>4, <2>5, <2>7 DEF ResetPassword
<1>4. ASSUME NEW t \in Links, LinkExpires(t)
      PROVE  AccountTypes' /\ RowTypes' /\ chosen <= chosen' /\ UNCHANGED <<pc, call>>
  <2>1. link' \in [Links -> LinkRows]
    BY <1>4, RowsMade DEF LinkExpires
  <2> QED BY <1>1, <1>4, <2>1 DEF LinkExpires, account, AccountTypes, RowTypes
<1>5. ASSUME OfficeRevokes \/ \E s \in Sessions : CloseSession(s)
      PROVE  AccountTypes' /\ RowTypes' /\ chosen <= chosen' /\ UNCHANGED <<pc, call>>
  <2>1. session' \in [Sessions -> SessionRows]
    BY <1>5, RowsMade DEF OfficeRevokes, CloseSession
  <2>2. UNCHANGED <<account, failures, link, worked, decision, pc, call>>
    BY <1>5 DEF OfficeRevokes, CloseSession
  <2>3. AccountTypes' /\ chosen' = chosen
    BY <1>1, <2>2 DEF account, AccountTypes
  <2>4. RowTypes'
    BY <1>1, <2>1, <2>2 DEF RowTypes, SessionRows, LinkRows
  <2> QED BY <1>1, <2>2, <2>3, <2>4
<1>6. ASSUME NEW o \in Origins, WindowEnds(o)
      PROVE  AccountTypes' /\ RowTypes' /\ chosen <= chosen' /\ UNCHANGED <<pc, call>>
  BY <1>1, <1>6 DEF WindowEnds, account, AccountTypes, RowTypes
<1>7. ASSUME Register
      PROVE  AccountTypes' /\ RowTypes' /\ chosen <= chosen' /\ UNCHANGED <<pc, call>>
  <2>1. Issued("verify") \in LinkRows
    BY RowsMade
  <2>2. link' \in [Links -> LinkRows]
    BY <1>1, <1>7, <2>1 DEF Register, RowTypes
  <2> QED BY <1>1, <1>7, <2>2 DEF Register, AccountTypes, RowTypes
<1>8. ASSUME LockRunsOut
      PROVE  AccountTypes' /\ RowTypes' /\ chosen <= chosen' /\ UNCHANGED <<pc, call>>
  BY <1>1, <1>8 DEF LockRunsOut, AccountTypes, RowTypes
<1> QED BY <1>2, <1>3, <1>4, <1>5, <1>6, <1>7, <1>8 DEF OutsideStep

LEMMA RehashKept ==
  ASSUME TypeOK, RehashKnown, NEW c \in Calls, CallStep(c)
  PROVE  RehashKnown'
<1>1. call \in [Calls -> Readings] /\ pc \in [Calls -> Statements]
  BY DEF TypeOK, CallTypes
<1>2. SUFFICES pc'[c] = "rehash" => call'[c].rehash # 0
  <2>1. PICK at \in Statements, read \in Readings : Goto(c, at, read)
    BY CallGoes
  <2> QED BY <1>1, <1>2, <2>1 DEF RehashKnown, Goto
<1>3. CASE RightPassword(c)
  BY <1>1, <1>3 DEF RightPassword, AfterCheck, Goto, Return
<1>4. CASE Unlock(c)
  BY <1>1, <1>4 DEF Unlock, AfterCheck, Goto
<1> QED
  BY <1>1, <1>3, <1>4
     DEF CallStep, LoginStep, LinkStep, SessionStep, OfficeStep, Goto, Return, Login, UnknownAccount,
         WrongPassword, CountFailure, Punish, Rehash, ClearFailures, OpenSession, FinishLogin,
         AskLink, Supersede, IssueLink, StartSensitive, StartRevokeOthers, Reauthenticate,
         ChangePassword, RevokeAllSessions, RevokeOtherSessions, OfficeReads, Disable, Enable, CallDies

LEMMA TypesStep == TypeOK /\ RehashKnown /\ [Next]_vars => TypeOK' /\ RehashKnown'
<1> SUFFICES ASSUME TypeOK, RehashKnown, [Next]_vars PROVE TypeOK' /\ RehashKnown'
  OBVIOUS
<1>1. AccountTypes /\ RowTypes /\ CallTypes /\ chosen \in Nat
  BY DEF TypeOK, AccountTypes
<1>2. ASSUME NEW c \in Calls, CallStep(c)
      PROVE  TypeOK' /\ RehashKnown'
  <2>1. AccountTypes' /\ chosen <= chosen'
    BY <1>2, AccountTyped
  <2>2. chosen' \in Nat
    BY <2>1 DEF AccountTypes
  <2>3. PICK at \in Statements, read \in Readings : Goto(c, at, read)
    BY <1>2, CallGoes
  <2>4. CallTypes'
    BY <1>1, <2>1, <2>2, <2>3, GotoTyped
  <2> QED BY <1>2, <2>1, <2>4, RowsTyped, RehashKept DEF TypeOK
<1>3. CASE OutsideStep
  <2>1. AccountTypes' /\ RowTypes' /\ chosen <= chosen' /\ UNCHANGED <<pc, call>>
    BY <1>3, OutsideTyped
  <2>2. 0..chosen \subseteq 0..chosen'
    BY <1>1, <2>1 DEF AccountTypes
  <2>3. Readings \subseteq Readings'
    BY <2>2 DEF Readings
  <2>4. CallTypes'
    BY <1>1, <2>1, <2>3 DEF CallTypes, Statements
  <2> QED BY <2>1, <2>4 DEF TypeOK, RehashKnown
<1>4. CASE UNCHANGED vars
  BY <1>1, <1>4 DEF vars, account, TypeOK, AccountTypes, RowTypes, CallTypes, Statements, Readings,
                    LinkRows, SessionRows, RehashKnown
<1> QED BY <1>2, <1>3, <1>4, NextSteps

\* Every column, row and call has its type, and a pending rehash is of a
\* password that was chosen: the handlers of lib/services/auth.
THEOREM Typing == Spec => [](TypeOK /\ RehashKnown)
<1>1. Init => TypeOK /\ RehashKnown
  <2> SUFFICES ASSUME Init PROVE TypeOK /\ RehashKnown
    OBVIOUS
  <2>5. verified \in BOOLEAN /\ disabledAt \in BOOLEAN /\ legacy \in BOOLEAN
    BY Zenon DEF Init
  <2>1. AccountTypes
    BY <2>5, AccountAssumption DEF Init, AccountTypes
  <2>2. RowTypes
    BY DEF Init, RowTypes, LinkRows, SessionRows, NoLink
  <2>3. Idle \in Readings
    BY AccountAssumption DEF Init, Idle, Readings
  <2>4. CallTypes /\ RehashKnown
    BY <2>3 DEF Init, CallTypes, Statements, RehashKnown
  <2> QED BY <2>1, <2>2, <2>4 DEF TypeOK
<1> QED BY <1>1, TypesStep, PTL DEF Spec

-----------------------------------------------------------------------------
(* Served accounts.                                                        *)

\* disabled_at, unlike the status, is written by the office alone.
DisabledByTheOffice == disabledAt <=> decision = "disabled"

LEMMA OnlyTheOffice ==
  ASSUME Next, ~ \E c \in Calls : Disable(c) \/ Enable(c)
  PROVE  UNCHANGED <<disabledAt, decision>>
<1>1. ASSUME NEW c \in Calls, CallStep(c)
      PROVE  UNCHANGED <<disabledAt, decision>>
  <2>1. CASE LoginStep(c)
    BY <2>1 DEF LoginStep, Login, UnknownAccount, WrongPassword, RightPassword, CountFailure, Punish,
                Unlock, Rehash, ClearFailures, OpenSession, FinishLogin, account
  <2>2. CASE LinkStep(c) \/ SessionStep(c)
    BY <2>2 DEF LinkStep, AskLink, Supersede, IssueLink, SessionStep, StartSensitive,
                StartRevokeOthers, Reauthenticate, ChangePassword, RevokeAllSessions,
                RevokeOtherSessions, account
  <2>3. CASE OfficeStep(c) \/ CallDies(c)
    BY <2>3 DEF OfficeStep, OfficeReads, CallDies, account
  <2> QED BY <1>1, <2>1, <2>2, <2>3 DEF CallStep
<1>2. CASE OutsideStep
  BY <1>2 DEF OutsideStep, VerifyEmail, ResetPassword, LinkExpires, CloseSession, WindowEnds,
              Register, OfficeRevokes, LockRunsOut, account
<1> QED BY <1>1, <1>2, NextSteps

\* Whatever logins, locks, unlocks, resets and verifications in flight write
\* into the status, a session is served only for a verified address and while
\* the last decision of the office is not to disable (resolveSession).
THEOREM ServedAreAllowed == Spec => []ServedAccountsAreAllowed
<1>1. Init => DisabledByTheOffice
  BY DEF Init, DisabledByTheOffice
<1>2. DisabledByTheOffice /\ [Next]_vars => DisabledByTheOffice'
  <2> SUFFICES ASSUME DisabledByTheOffice, [Next]_vars PROVE DisabledByTheOffice'
    OBVIOUS
  <2>1. CASE \E c \in Calls : Disable(c) \/ Enable(c)
    BY <2>1 DEF Disable, Enable, DisabledByTheOffice
  <2>2. CASE UNCHANGED <<disabledAt, decision>>
    BY <2>2 DEF DisabledByTheOffice
  <2>3. CASE UNCHANGED vars
    BY <2>2, <2>3 DEF vars, account
  <2> QED BY <2>1, <2>2, <2>3, OnlyTheOffice
<1>3. TypeOK /\ DisabledByTheOffice => ServedAccountsAreAllowed
  BY DEF TypeOK, AccountTypes, DisabledByTheOffice, ServedAccountsAreAllowed, Served
<1> QED BY <1>1, <1>2, <1>3, Typing, PTL DEF Spec

-----------------------------------------------------------------------------
(* Links work once.                                                        *)

LEMMA SpentStaysSpent ==
  ASSUME TypeOK
  PROVE  \A live \in SUBSET Links : \A t \in Links :
           /\ link[t].state = "spent" => Spend(live)[t].state = "spent"
           /\ t \in live => Spend(live)[t].state = "spent"
  BY DEF TypeOK, RowTypes, LinkRows, Spend

LEMMA OnceStep == TypeOK /\ LinksWorkOnce /\ [Next]_vars => LinksWorkOnce'
<1> SUFFICES ASSUME TypeOK, LinksWorkOnce, [Next]_vars PROVE LinksWorkOnce'
  OBVIOUS
<1>1. /\ worked \in [Links -> Nat] /\ link \in [Links -> LinkRows]
      /\ \A kind : LiveLinks(kind) \in SUBSET Links
  BY DEF TypeOK, RowTypes, LiveLinks
<1>2. CASE /\ UNCHANGED worked
           /\ \A t \in Links : link[t].state = "spent" => link'[t].state = "spent"
  BY <1>1, <1>2 DEF LinksWorkOnce
<1>3. ASSUME NEW t \in Links, NEW kind, Usable(t), link' = Spend({t} \cup LiveLinks(kind)),
             worked' = [worked EXCEPT ![t] = @ + 1]
      PROVE  LinksWorkOnce'
  <2>1. worked[t] = 0
    BY <1>1, <1>3 DEF LinksWorkOnce, Usable
  <2>2. worked' = [worked EXCEPT ![t] = 1]
    BY <1>1, <1>3, <2>1
  <2>3. ASSUME NEW u \in Links
        PROVE  worked'[u] <= 1 /\ (worked'[u] = 1 => link'[u].state = "spent")
    BY <1>1, <1>3, <2>2, SpentStaysSpent DEF LinksWorkOnce
  <2> QED BY <2>3 DEF LinksWorkOnce
<1>4. ASSUME NEW c \in Calls, CallStep(c)
      PROVE  LinksWorkOnce'
  <2>1. call[c].seen \in SUBSET Links
    BY DEF TypeOK, CallTypes, Readings
  <2>2. CASE IssueLink(c)
    <3>1. PICK t \in Links : /\ link[t] = NoLink
                             /\ link' = [Spend(call[c].seen) EXCEPT ![t] = Issued(call[c].kind)]
      BY <2>2 DEF IssueLink
    <3>2. link[t].state # "spent"
      BY <3>1 DEF NoLink
    <3>3. \A u \in Links : link[u].state = "spent" => link'[u].state = "spent"
      BY <1>1, <2>1, <3>1, <3>2, SpentStaysSpent, RowsMade
    <3> QED BY <1>2, <2>2, <3>3 DEF IssueLink
  <2>3. CASE ChangePassword(c)
    BY <1>1, <1>2, <2>3, SpentStaysSpent DEF ChangePassword
  <2>4. CASE UNCHANGED <<link, worked>>
    BY <1>2, <2>4
  <2> QED
    BY <1>4, <2>2, <2>3, <2>4
       DEF CallStep, LoginStep, LinkStep, SessionStep, OfficeStep, Login, UnknownAccount,
           WrongPassword, RightPassword, CountFailure, Punish, Unlock, Rehash, ClearFailures,
           OpenSession, FinishLogin, AskLink, Supersede, StartSensitive, StartRevokeOthers,
           Reauthenticate, RevokeAllSessions, RevokeOtherSessions, OfficeReads, Disable, Enable,
           CallDies
<1>5. CASE OutsideStep
  <2>1. CASE \E t \in Links : VerifyEmail(t) \/ ResetPassword(t)
    BY <1>3, <2>1 DEF VerifyEmail, ResetPassword, LinkApplies
  <2>2. CASE \E t \in Links : LinkExpires(t)
    <3>1. PICK t \in Links : LinkExpires(t)
      BY <2>2
    <3>2. {t} \in SUBSET Links
      OBVIOUS
    <3> QED BY <1>2, <3>1, <3>2, SpentStaysSpent DEF LinkExpires
  <2>3. CASE Register
    <3>1. PICK t \in Links : link[t] = NoLink /\ link' = [link EXCEPT ![t] = Issued("verify")]
      BY <2>3 DEF Register
    <3>2. link[t].state # "spent"
      BY <3>1 DEF NoLink
    <3>3. \A u \in Links : link[u].state = "spent" => link'[u].state = "spent"
      BY <1>1, <3>1, <3>2
    <3> QED BY <1>2, <2>3, <3>3 DEF Register
  <2>4. CASE UNCHANGED <<link, worked>>
    BY <1>2, <2>4
  <2> QED
    BY <1>5, <2>1, <2>2, <2>3, <2>4
       DEF OutsideStep, CloseSession, WindowEnds, OfficeRevokes, LockRunsOut
<1>6. CASE UNCHANGED vars
  BY <1>2, <1>6 DEF vars
<1> QED BY <1>4, <1>5, <1>6, NextSteps

\* A verification or reset link has its effect at most once, and is spent by it
\* (the conditional updates of verifyEmailToken and resetPassword).
THEOREM WorkOnce == Spec => []LinksWorkOnce
<1>1. Init => LinksWorkOnce
  BY DEF Init, LinksWorkOnce
<1> QED BY <1>1, OnceStep, Typing, PTL DEF Spec

-----------------------------------------------------------------------------
(* A new password ends the past.                                           *)

\* The rows of a step under the passwords chosen after it.
LEMMA PastStep == TypeOK /\ PasswordEndsThePast /\ [Next]_vars => PasswordEndsThePast'
<1> SUFFICES ASSUME TypeOK, PasswordEndsThePast, [Next]_vars PROVE PasswordEndsThePast'
  OBVIOUS
<1>1. /\ session \in [Sessions -> SessionRows] /\ link \in [Links -> LinkRows]
      /\ chosen \in Nat
  BY DEF TypeOK, RowTypes, AccountTypes
<1> DEFINE SessionsKept == \A s \in Sessions : session'[s].state = "open" => session'[s].under = chosen'
           LinksKept == \A t \in Links : link'[t].state = "live" /\ link'[t].kind = "reset"
                                           => link'[t].under = chosen'
<1>2. SUFFICES SessionsKept /\ LinksKept
  BY DEF PasswordEndsThePast, OpenSessions, LiveLinks
<1>3. /\ \A s \in Sessions : session[s].state = "open" => session[s].under = chosen
      /\ \A t \in Links : link[t].state = "live" /\ link[t].kind = "reset" => link[t].under = chosen
  BY DEF PasswordEndsThePast, OpenSessions, LiveLinks
<1>4. ASSUME NEW live \in SUBSET Links, NEW t \in Links, Spend(live)[t].state = "live"
      PROVE  Spend(live)[t] = link[t] /\ t \notin live
  BY <1>1, <1>4 DEF Spend, LinkRows
<1>5. UNCHANGED <<session, chosen>> => SessionsKept
  BY <1>3
<1>6. UNCHANGED <<link, chosen>> => LinksKept
  BY <1>3
<1>7. ASSUME NEW closed \in SUBSET Sessions, Close(closed), chosen' = chosen
      PROVE  SessionsKept
  BY <1>3, <1>7 DEF Close, Closed
<1>8. ASSUME NEW kept, NewPassword(kept)
      PROVE  SessionsKept
  BY <1>1, <1>8 DEF NewPassword, Closed, OpenSessions, SessionRows
<1>9. ASSUME NEW live \in SUBSET Links, LiveLinks("reset") \subseteq live, link' = Spend(live)
      PROVE  LinksKept
  BY <1>4, <1>9 DEF LiveLinks
<1>10. ASSUME NEW live \in SUBSET Links, link' = Spend(live), chosen' = chosen
       PROVE  LinksKept
  BY <1>3, <1>4, <1>10
<1>11. \A kind : LiveLinks(kind) \in SUBSET Links
  BY DEF LiveLinks
<1>12. ASSUME NEW c \in Calls, CallStep(c)
       PROVE  SessionsKept /\ LinksKept
  <2>1. call[c].seen \in SUBSET Links
    BY DEF TypeOK, CallTypes, Readings
  <2>2. CASE OpenSession(c)
    BY <1>1, <1>3, <1>6, <2>2 DEF OpenSession, account
  <2>3. CASE IssueLink(c)
    <3>1. PICK t \in Links : link' = [Spend(call[c].seen) EXCEPT ![t] = Issued(call[c].kind)]
      BY <2>3 DEF IssueLink
    <3>2. UNCHANGED <<session, chosen>>
      BY <2>3 DEF IssueLink, account
    <3>3. link'[t].under = chosen
      BY <1>1, <2>1, <3>1, RowsMade DEF Issued
    <3>4. \A u \in Links \ {t} : link'[u] = Spend(call[c].seen)[u]
      BY <2>1, <3>1, RowsMade
    <3>5. LinksKept
      BY <1>3, <1>4, <2>1, <3>2, <3>3, <3>4
    <3> QED BY <1>5, <3>2, <3>5
  <2>4. CASE ChangePassword(c)
    BY <1>8, <1>9, <1>11, <2>4 DEF ChangePassword
  <2>5. CASE RevokeAllSessions(c) \/ RevokeOtherSessions(c) \/ Disable(c)
    <3>1. UNCHANGED <<link, chosen>>
      BY <2>5 DEF RevokeAllSessions, RevokeOtherSessions, Disable, account
    <3>2. Sessions \in SUBSET Sessions /\ Sessions \ {call[c].session} \in SUBSET Sessions
      OBVIOUS
    <3> QED BY <1>6, <1>7, <2>5, <3>1, <3>2 DEF RevokeAllSessions, RevokeOtherSessions, Disable
  <2>6. CASE UNCHANGED <<link, session, chosen>>
    BY <1>5, <1>6, <2>6
  <2> QED
    BY <1>12, <2>2, <2>3, <2>4, <2>5, <2>6
       DEF CallStep, LoginStep, LinkStep, SessionStep, OfficeStep, Login, UnknownAccount,
           WrongPassword, RightPassword, CountFailure, Punish, Unlock, Rehash, ClearFailures,
           FinishLogin, AskLink, Supersede, StartSensitive, StartRevokeOthers,
           Reauthenticate, OfficeReads, Enable, CallDies, account
<1>13. CASE OutsideStep
  <2>1. ASSUME NEW t \in Links, ResetPassword(t)
        PROVE  SessionsKept /\ LinksKept
    <3>1. {t} \cup LiveLinks("reset") \in SUBSET Links
      BY <1>11
    <3> QED BY <1>8, <1>9, <2>1, <3>1 DEF ResetPassword
  <2>2. ASSUME NEW t \in Links, VerifyEmail(t)
        PROVE  SessionsKept /\ LinksKept
    <3>1. {t} \cup LiveLinks("verify") \in SUBSET Links
      BY <1>11
    <3> QED BY <1>5, <1>10, <2>2, <3>1 DEF VerifyEmail
  <2>3. ASSUME NEW t \in Links, LinkExpires(t)
        PROVE  SessionsKept /\ LinksKept
    <3>1. {t} \in SUBSET Links
      OBVIOUS
    <3> QED BY <1>5, <1>10, <2>3, <3>1 DEF LinkExpires, account
  <2>4. CASE OfficeRevokes \/ \E s \in Sessions : CloseSession(s)
    <3>1. \A s \in Sessions : {s} \in SUBSET Sessions
      OBVIOUS
    <3> QED BY <1>6, <1>7, <2>4, <3>1 DEF OfficeRevokes, CloseSession, account
  <2>5. CASE Register
    BY <1>1, <1>3, <1>5, <2>5 DEF Register, Issued
  <2>6. CASE UNCHANGED <<link, session, chosen>>
    BY <1>5, <1>6, <2>6
  <2> QED
    BY <1>13, <2>1, <2>2, <2>3, <2>4, <2>5, <2>6
       DEF OutsideStep, WindowEnds, LockRunsOut, account
<1>14. CASE UNCHANGED vars
  BY <1>5, <1>6, <1>14 DEF vars, account
<1> QED BY <1>12, <1>13, <1>14, NextSteps

\* When a password is chosen, the sessions opened before it are closed, but the
\* one that chose it, and no earlier reset link stays usable (resetPassword and
\* changePassword, with logins and requests for links in flight).
THEOREM NewPasswordEndsThePast == Spec => []PasswordEndsThePast
<1>1. Init => PasswordEndsThePast
  BY DEF Init, PasswordEndsThePast, OpenSessions, LiveLinks, NoLink
<1> QED BY <1>1, PastStep, Typing, PTL DEF Spec

-----------------------------------------------------------------------------
(* Failures.                                                               *)

\* The logins of an origin whose failure may still be counted.
InFlight(o) == {c \in Calls : pc[c] \in {"read", "count"} /\ call[c].origin = o}

\* Counted failures and those in flight stay below the threshold and the number
\* of handlers: a login in flight passed the gate.
FailuresCovered ==
  \A o \in Origins : failures[o] + Cardinality(InFlight(o)) < LockThreshold + Cardinality(Calls)

LEMMA InFlightFinite ==
  \A o \in Origins : /\ IsFiniteSet(InFlight(o)) /\ IsFiniteSet(InFlight(o)')
                     /\ Cardinality(InFlight(o)) \in Nat /\ Cardinality(InFlight(o)') \in Nat
                     /\ Cardinality(InFlight(o)) <= Cardinality(Calls)
                     /\ Cardinality(InFlight(o)') <= Cardinality(Calls)
<1> SUFFICES ASSUME NEW o \in Origins
             PROVE  /\ IsFiniteSet(InFlight(o)) /\ IsFiniteSet(InFlight(o)')
                    /\ Cardinality(InFlight(o)) \in Nat /\ Cardinality(InFlight(o)') \in Nat
                    /\ Cardinality(InFlight(o)) <= Cardinality(Calls)
                    /\ Cardinality(InFlight(o)') <= Cardinality(Calls)
  OBVIOUS
<1>1. InFlight(o) \subseteq Calls /\ InFlight(o)' \subseteq Calls
  BY DEF InFlight
<1>2. IsFiniteSet(InFlight(o)) /\ Cardinality(InFlight(o)) <= Cardinality(Calls)
  BY <1>1, AccountAssumption, FS_Subset
<1>3. IsFiniteSet(InFlight(o)') /\ Cardinality(InFlight(o)') <= Cardinality(Calls)
  BY <1>1, AccountAssumption, FS_Subset
<1> QED BY <1>2, <1>3, FS_CardinalityType

LEMMA FailuresStep ==
  ASSUME TypeOK, TypeOK', FailuresCovered, [Next]_vars
  PROVE  FailuresCovered'
<1> DEFINE Covered(o) == failures'[o] + Cardinality(InFlight(o)') < LockThreshold + Cardinality(Calls)
<1>1. /\ \A o \in Origins : failures[o] \in Nat /\ failures'[o] \in Nat
      /\ failures \in [Origins -> Nat]
      /\ LockThreshold \in Nat /\ LockThreshold > 0 /\ Cardinality(Calls) \in Nat
      /\ pc \in [Calls -> Statements] /\ call \in [Calls -> Readings]
  BY AccountAssumption, FS_CardinalityType DEF TypeOK, RowTypes, CallTypes
<1>2. ASSUME NEW o \in Origins, InFlight(o)' \subseteq InFlight(o), failures'[o] <= failures[o]
      PROVE  Covered(o)
  <2>1. Cardinality(InFlight(o)') <= Cardinality(InFlight(o))
    BY <1>2, InFlightFinite, FS_Subset
  <2> QED BY <1>1, <1>2, <2>1, InFlightFinite DEF FailuresCovered
<1>3. ASSUME NEW o \in Origins, failures'[o] < LockThreshold
      PROVE  Covered(o)
  BY <1>1, <1>3, InFlightFinite
<1>4. ASSUME NEW o \in Origins, NEW c \in InFlight(o), InFlight(o)' \subseteq InFlight(o) \ {c},
             failures'[o] <= failures[o] + 1
      PROVE  Covered(o)
  <2>1. Cardinality(InFlight(o) \ {c}) = Cardinality(InFlight(o)) - 1 /\ IsFiniteSet(InFlight(o) \ {c})
    BY <1>4, InFlightFinite, FS_RemoveElement
  <2>2. Cardinality(InFlight(o)') <= Cardinality(InFlight(o) \ {c})
    BY <1>4, <2>1, FS_Subset
  <2> QED BY <1>1, <1>4, <2>1, <2>2, InFlightFinite DEF FailuresCovered
<1>5. SUFFICES \A o \in Origins : Covered(o)
  BY DEF FailuresCovered
<1> HIDE DEF Covered
<1>6. ASSUME NEW c \in Calls, NEW at, NEW read, Goto(c, at, read), NEW o \in Origins,
             at \in {"read", "count"} => pc[c] \in {"read", "count"} /\ read.origin = call[c].origin
      PROVE  InFlight(o)' \subseteq InFlight(o)
  BY <1>1, <1>6 DEF Goto, InFlight
<1>7. ASSUME NEW c \in Calls, NEW at, NEW read, Goto(c, at, read), NEW o \in Origins,
             at \notin {"read", "count"}
      PROVE  InFlight(o)' \subseteq InFlight(o) \ {c}
  BY <1>1, <1>7 DEF Goto, InFlight
<1>8. ASSUME NEW c \in Calls, CallStep(c), NEW o \in Origins
      PROVE  Covered(o)
  <2>1. ASSUME NEW p \in Origins, Login(c, p)
        PROVE  Covered(o)
    <3>1. CASE o = p
      BY <1>3, <2>1, <3>1 DEF Login, GateOpen
    <3>2. CASE o # p
      <4>1. InFlight(o)' \subseteq InFlight(o)
        BY <1>1, <2>1, <3>2 DEF Login, Goto, InFlight, Idle
      <4> QED BY <1>1, <1>2, <2>1, <4>1 DEF Login
    <3> QED BY <3>1, <3>2
  <2>2. CASE UnknownAccount(c) \/ CountFailure(c)
    <3>1. InFlight(o)' \subseteq InFlight(o) \ {c}
      BY <1>7, <2>2 DEF UnknownAccount, CountFailure, Return
    <3>2. CASE call[c].origin = o
      <4>1. c \in InFlight(o)
        BY <2>2, <3>2 DEF InFlight, UnknownAccount, CountFailure
      <4>2. failures'[o] = failures[o] + 1
        BY <1>1, <2>2, <3>2 DEF UnknownAccount, CountFailure, Counted
      <4> QED BY <1>1, <1>4, <3>1, <4>1, <4>2
    <3>3. CASE call[c].origin # o
      <4>1. failures'[o] = failures[o]
        BY <1>1, <2>2, <3>3 DEF UnknownAccount, CountFailure, Counted
      <4> QED BY <1>1, <1>2, <3>1, <4>1
    <3> QED BY <3>2, <3>3
  <2>3. CASE ClearFailures(c)
    <3>1. InFlight(o)' \subseteq InFlight(o)
      BY <1>7, <2>3 DEF ClearFailures
    <3>2. failures'[o] <= failures[o]
      BY <1>1, <2>3 DEF ClearFailures
    <3> QED BY <1>2, <3>1, <3>2
  <2>4. CASE WrongPassword(c)
    <3>1. InFlight(o)' \subseteq InFlight(o)
      BY <1>6, <2>4 DEF WrongPassword
    <3> QED BY <1>1, <1>2, <2>4, <3>1 DEF WrongPassword
  <2>5. ASSUME NEW at, NEW read, Goto(c, at, read), at \notin {"read", "count"}, UNCHANGED failures
        PROVE  Covered(o)
    <3>1. InFlight(o)' \subseteq InFlight(o)
      BY <1>7, <2>5
    <3> QED BY <1>1, <1>2, <2>5, <3>1
  <2>6. CASE \/ RightPassword(c) \/ Punish(c) \/ Unlock(c) \/ Rehash(c) \/ OpenSession(c) \/ FinishLogin(c)
    <3>1. \A r : AfterCheck(r) \notin {"read", "count"}
      BY DEF AfterCheck
    <3>2. \E at, read : Goto(c, at, read) /\ at \notin {"read", "count"}
      BY <2>6, <3>1 DEF RightPassword, Punish, Unlock, Rehash, OpenSession, FinishLogin, Return
    <3> QED BY <2>5, <2>6, <3>2 DEF RightPassword, Punish, Unlock, Rehash, OpenSession, FinishLogin
  <2>7. CASE LinkStep(c)
    BY <2>5, <2>7 DEF LinkStep, AskLink, Supersede, IssueLink, Return
  <2>8. CASE SessionStep(c)
    <3>1. CASE \E s \in Sessions : StartSensitive(c, s) \/ StartRevokeOthers(c, s)
      BY <2>5, <3>1 DEF StartSensitive, StartRevokeOthers
    <3>2. CASE Reauthenticate(c)
      BY <2>5, <3>2 DEF Reauthenticate, Return
    <3>3. CASE ChangePassword(c) \/ RevokeAllSessions(c) \/ RevokeOtherSessions(c)
      BY <2>5, <3>3 DEF ChangePassword, RevokeAllSessions, RevokeOtherSessions, Return
    <3> QED BY <2>8, <3>1, <3>2, <3>3 DEF SessionStep
  <2>9. CASE OfficeStep(c) \/ CallDies(c)
    BY <2>5, <2>9 DEF OfficeStep, OfficeReads, Disable, Enable, CallDies, Return
  <2> QED BY <1>8, <2>1, <2>2, <2>3, <2>4, <2>6, <2>7, <2>8, <2>9 DEF CallStep, LoginStep
<1>9. ASSUME OutsideStep \/ UNCHANGED vars, NEW o \in Origins
      PROVE  Covered(o)
  <2>1. UNCHANGED <<pc, call>>
    BY <1>9 DEF OutsideStep, VerifyEmail, ResetPassword, LinkExpires, CloseSession, WindowEnds,
                Register, OfficeRevokes, LockRunsOut, vars
  <2>2. InFlight(o)' = InFlight(o)
    BY <2>1 DEF InFlight
  <2>3. CASE UNCHANGED failures
    BY <1>1, <1>2, <2>2, <2>3
  <2>4. ASSUME NEW p \in Origins, WindowEnds(p)
        PROVE  failures'[o] <= failures[o]
    BY <1>1, <2>4 DEF WindowEnds
  <2> QED
    BY <1>2, <1>9, <2>2, <2>3, <2>4
       DEF OutsideStep, VerifyEmail, ResetPassword, LinkExpires, CloseSession, Register,
           OfficeRevokes, LockRunsOut, vars
<1> QED BY <1>8, <1>9, NextSteps

\* The gate is read before the failures of overlapping logins are counted, and
\* still a counter passes the threshold by less than the handlers there are
\* (getLoginGate and recordLoginFailure).
THEOREM FailuresStayBounded == Spec => []FailuresBounded
<1>1. Init => FailuresCovered
  <2> SUFFICES ASSUME Init, NEW o \in Origins
               PROVE  failures[o] + Cardinality(InFlight(o)) < LockThreshold + Cardinality(Calls)
    BY DEF FailuresCovered
  <2>1. failures[o] = 0 /\ LockThreshold \in Nat /\ LockThreshold > 0 /\ Cardinality(Calls) \in Nat
    BY AccountAssumption, FS_CardinalityType DEF Init
  <2> QED BY <2>1, InFlightFinite
<1>2. TypeOK /\ FailuresCovered => FailuresBounded
  <2> SUFFICES ASSUME TypeOK, FailuresCovered, NEW o \in Origins
               PROVE  failures[o] < LockThreshold + Cardinality(Calls)
    BY DEF FailuresBounded
  <2>1. failures[o] \in Nat /\ LockThreshold \in Nat /\ Cardinality(Calls) \in Nat
    BY AccountAssumption, FS_CardinalityType DEF TypeOK, RowTypes
  <2> QED BY <2>1, InFlightFinite DEF FailuresCovered
<1> QED BY <1>1, <1>2, FailuresStep, Typing, PTL DEF Spec

-----------------------------------------------------------------------------
(* Few live links.                                                         *)

Kinds == {"verify", "reset"}

\* The requests that have found the links they will mark used, and the live
\* links that would be left if those of Q were issued.
Pending(kind) == {c \in Calls : pc[c] = "issue" /\ call[c].kind = kind}
Left(kind, Q) == {t \in LiveLinks(kind) : \A c \in Q : t \notin call[c].seen}

\* Whatever pending requests are issued next, what they leave and what they add
\* is no more than the handlers.
LinksCovered ==
  \A kind \in Kinds :
    /\ IsFiniteSet(LiveLinks(kind))
    /\ \A Q \in SUBSET Pending(kind) : Cardinality(Left(kind, Q)) + Cardinality(Q) <= Cardinality(Calls)

\* Before the registration there is no link, and nobody asks for one.
NothingBefore ==
  status = "none" => /\ \A t \in Links : link[t] = NoLink
                     /\ \A c \in Calls : pc[c] \in {"idle", "read"}

LEMMA NothingStep == TypeOK /\ NothingBefore /\ [Next]_vars => NothingBefore'
<1> SUFFICES ASSUME TypeOK, NothingBefore, [Next]_vars, status' = "none"
             PROVE  (\A t \in Links : link'[t] = NoLink) /\ \A c \in Calls : pc'[c] \in {"idle", "read"}
  BY DEF NothingBefore
<1>1. pc \in [Calls -> Statements]
  BY DEF TypeOK, CallTypes
<1>2. ASSUME NEW c \in Calls, CallStep(c)
      PROVE  (\A t \in Links : link'[t] = NoLink) /\ \A d \in Calls : pc'[d] \in {"idle", "read"}
  <2>1. CASE (\E o \in Origins : Login(c, o)) \/ UnknownAccount(c) \/ CallDies(c)
    BY <1>1, <2>1 DEF Login, UnknownAccount, CallDies, Goto, Return, NothingBefore, account
  <2>2. CASE WrongPassword(c) \/ RightPassword(c) \/ LinkStep(c) \/ OfficeStep(c)
    BY <1>1, <2>2 DEF NothingBefore, WrongPassword, RightPassword, LinkStep, AskLink, Supersede,
                      IssueLink, OfficeStep, OfficeReads, Disable, Enable, account
  <2>3. CASE SessionStep(c)
    BY <1>1, <2>3 DEF NothingBefore, SessionStep, StartSensitive, StartRevokeOthers, Served,
                      Reauthenticate, ChangePassword, RevokeAllSessions, RevokeOtherSessions, account
  <2>4. CASE CountFailure(c) \/ Punish(c) \/ Unlock(c) \/ Rehash(c) \/ ClearFailures(c)
             \/ OpenSession(c) \/ FinishLogin(c)
    BY <1>1, <2>4 DEF NothingBefore, CountFailure, Punish, Unlock, Rehash, ClearFailures,
                      OpenSession, FinishLogin, account
  <2> QED BY <1>2, <2>1, <2>2, <2>3, <2>4 DEF CallStep, LoginStep
<1>3. CASE OutsideStep
  <2>1. CASE \E t \in Links : VerifyEmail(t) \/ ResetPassword(t)
    BY <2>1 DEF VerifyEmail, ResetPassword
  <2>2. CASE \E t \in Links : LinkExpires(t)
    BY <2>2 DEF LinkExpires, NothingBefore, NoLink, account
  <2>3. CASE \/ \E s \in Sessions : CloseSession(s)
             \/ \E o \in Origins : WindowEnds(o)
             \/ Register \/ OfficeRevokes \/ LockRunsOut
    BY <2>3 DEF CloseSession, WindowEnds, Register, OfficeRevokes, LockRunsOut, NothingBefore, account
  <2> QED BY <1>3, <2>1, <2>2, <2>3 DEF OutsideStep
<1>4. CASE UNCHANGED vars
  BY <1>4 DEF vars, account, NothingBefore
<1> QED BY <1>2, <1>3, <1>4, NextSteps

LEMMA PendingFinite ==
  ASSUME NEW kind, NEW Q \in SUBSET Pending(kind)
  PROVE  IsFiniteSet(Q) /\ Cardinality(Q) \in Nat /\ Cardinality(Q) <= Cardinality(Calls)
<1>1. Q \subseteq Calls
  BY DEF Pending
<1> QED BY <1>1, AccountAssumption, FS_Subset, FS_CardinalityType

\* What is covered stays covered when links of the kind are only marked used.
LEMMA CoverShrinks ==
  ASSUME LinksCovered, NEW kind \in Kinds, NEW Q \in SUBSET Pending(kind),
         LiveLinks(kind)' \subseteq LiveLinks(kind),
         \A c \in Q : call'[c].seen = call[c].seen
  PROVE  /\ IsFiniteSet(LiveLinks(kind)')
         /\ Cardinality(Left(kind, Q)') + Cardinality(Q) <= Cardinality(Calls)
<1>1. Left(kind, Q)' \subseteq Left(kind, Q) /\ Left(kind, Q) \subseteq LiveLinks(kind)
  BY DEF Left
<1>2. IsFiniteSet(LiveLinks(kind)) /\ IsFiniteSet(LiveLinks(kind)')
  BY FS_Subset DEF LinksCovered
<1>3. IsFiniteSet(Left(kind, Q)) /\ IsFiniteSet(Left(kind, Q)')
      /\ Cardinality(Left(kind, Q)') <= Cardinality(Left(kind, Q))
  BY <1>1, <1>2, FS_Subset
<1>4. Cardinality(Left(kind, Q)) + Cardinality(Q) <= Cardinality(Calls)
  BY DEF LinksCovered
<1> QED BY <1>2, <1>3, <1>4, PendingFinite, AccountAssumption, FS_CardinalityType

\* One new link is covered by the request that leaves the pending ones for it.
LEMMA CoverGrows ==
  ASSUME LinksCovered, NEW kind \in Kinds, NEW c \in Pending(kind), NEW t, NEW Q \in SUBSET Pending(kind),
         c \notin Q, LiveLinks(kind)' \subseteq (LiveLinks(kind) \ call[c].seen) \cup {t},
         \A d \in Q : call'[d].seen = call[d].seen
  PROVE  /\ IsFiniteSet(LiveLinks(kind)')
         /\ Cardinality(Left(kind, Q)') + Cardinality(Q) <= Cardinality(Calls)
<1> DEFINE R == Q \cup {c}
<1>1. IsFiniteSet(LiveLinks(kind))
  BY DEF LinksCovered
<1>2. IsFiniteSet(LiveLinks(kind) \cup {t}) /\ LiveLinks(kind)' \subseteq LiveLinks(kind) \cup {t}
  BY <1>1, FS_AddElement
<1>3. IsFiniteSet(LiveLinks(kind)')
  BY <1>2, FS_Subset
<1>4. R \in SUBSET Pending(kind) /\ Cardinality(R) = Cardinality(Q) + 1
  BY PendingFinite, FS_AddElement
<1>5. Left(kind, Q)' \subseteq Left(kind, R) \cup {t} /\ Left(kind, R) \subseteq LiveLinks(kind)
  BY DEF Left
<1>6. IsFiniteSet(Left(kind, R)) /\ Cardinality(Left(kind, R)) \in Nat
  BY <1>1, <1>5, FS_Subset, FS_CardinalityType
<1>7. IsFiniteSet(Left(kind, R) \cup {t}) /\ Cardinality(Left(kind, R) \cup {t}) <= Cardinality(Left(kind, R)) + 1
  <2>1. ASSUME NEW S, IsFiniteSet(S), Cardinality(S) \in Nat
        PROVE  IsFiniteSet(S \cup {t}) /\ Cardinality(S \cup {t}) <= Cardinality(S) + 1
    <3>1. /\ IsFiniteSet(S \cup {t})
          /\ Cardinality(S \cup {t}) = IF t \in S THEN Cardinality(S) ELSE Cardinality(S) + 1
      BY <2>1, FS_AddElement, Zenon
    <3> QED BY <2>1, <3>1
  <2> QED BY <1>6, <2>1
<1>8. IsFiniteSet(Left(kind, Q)') /\ Cardinality(Left(kind, Q)') <= Cardinality(Left(kind, R) \cup {t})
  BY <1>5, <1>7, FS_Subset
<1>9. Cardinality(Left(kind, R)) + Cardinality(R) <= Cardinality(Calls)
  BY <1>4 DEF LinksCovered
<1> HIDE DEF R
<1>10. /\ Cardinality(Left(kind, Q)') \in Nat /\ Cardinality(Left(kind, R) \cup {t}) \in Nat
       /\ Cardinality(Q) \in Nat /\ Cardinality(Calls) \in Nat
  BY <1>7, <1>8, PendingFinite, AccountAssumption, FS_CardinalityType
<1> QED BY <1>3, <1>4, <1>6, <1>7, <1>8, <1>9, <1>10

LEMMA FewStep ==
  ASSUME TypeOK, NothingBefore, LinksCovered, [Next]_vars
  PROVE  LinksCovered'
<1> DEFINE Goal(kind, Q) == /\ IsFiniteSet(LiveLinks(kind)')
                            /\ Cardinality(Left(kind, Q)') + Cardinality(Q) <= Cardinality(Calls)
<1>1. SUFFICES ASSUME NEW kind \in Kinds, NEW Q \in SUBSET (Pending(kind)')
               PROVE  Goal(kind, Q)
  <2>1. \A kind \in Kinds : {} \in SUBSET (Pending(kind)')
    OBVIOUS
  <2> QED BY <1>1, <2>1 DEF LinksCovered
<1>2. /\ pc \in [Calls -> Statements] /\ call \in [Calls -> Readings]
      /\ link \in [Links -> LinkRows]
      /\ \A k : LiveLinks(k) \in SUBSET Links
      /\ Cardinality(Calls) \in Nat
  BY AccountAssumption, FS_CardinalityType DEF TypeOK, CallTypes, RowTypes, LiveLinks
<1>3. ASSUME LiveLinks(kind)' \subseteq LiveLinks(kind), Q \subseteq Pending(kind),
             \A c \in Q : call'[c].seen = call[c].seen
      PROVE  Goal(kind, Q)
  BY <1>3, CoverShrinks
<1>4. ASSUME NEW live \in SUBSET Links, link' = Spend(live)
      PROVE  LiveLinks(kind)' \subseteq LiveLinks(kind) \ live
  BY <1>2, <1>4 DEF LiveLinks, Spend, LinkRows
<1>5. ASSUME NEW c \in Calls, NEW at, NEW read, Goto(c, at, read), at # "issue"
      PROVE  Q \subseteq Pending(kind) \ {c} /\ \A d \in Q : call'[d].seen = call[d].seen
  BY <1>2, <1>5 DEF Goto, Pending
<1>6. ASSUME NEW c \in Calls, NEW at, NEW read, Goto(c, at, read), at # "issue",
             LiveLinks(kind)' \subseteq LiveLinks(kind)
      PROVE  Goal(kind, Q)
  BY <1>3, <1>5, <1>6
<1> HIDE DEF Goal
<1>7. UNCHANGED link => LiveLinks(kind)' \subseteq LiveLinks(kind)
  BY DEF LiveLinks
<1>8. ASSUME NEW c \in Calls, CallStep(c)
      PROVE  Goal(kind, Q)
  <2>1. CASE Supersede(c)
    <3>1. /\ call' = [call EXCEPT ![c] = [call[c] EXCEPT !.seen = LiveLinks(call[c].kind)]]
          /\ pc' = [pc EXCEPT ![c] = "issue"] /\ UNCHANGED link
      BY <2>1 DEF Supersede, Goto
    <3>2. CASE c \in Q
      <4>1. call'[c].kind = kind /\ call[c].kind = kind /\ call'[c].seen = LiveLinks(kind)
        BY <1>2, <3>1, <3>2 DEF Pending, Readings
      <4>2. Left(kind, Q)' = {}
        BY <1>7, <3>1, <3>2, <4>1 DEF Left
      <4>3. IsFiniteSet(LiveLinks(kind)')
        BY <1>7, <3>1, FS_Subset DEF LinksCovered
      <4>4. IsFiniteSet(Q) /\ Cardinality(Q) <= Cardinality(Calls)
        <5>1. Q \subseteq Calls
          BY DEF Pending
        <5> QED BY <5>1, AccountAssumption, FS_Subset
      <4> QED BY <1>2, <4>2, <4>3, <4>4, FS_EmptySet, FS_CardinalityType DEF Goal
    <3>3. CASE c \notin Q
      BY <1>2, <1>3, <1>7, <3>1, <3>3 DEF Pending
    <3> QED BY <3>2, <3>3
  <2>2. CASE IssueLink(c)
    <3>1. PICK t \in Links : link' = [Spend(call[c].seen) EXCEPT ![t] = Issued(call[c].kind)]
      BY <2>2 DEF IssueLink
    <3>2. pc[c] = "issue" /\ Goto(c, "idle", Idle)
      BY <2>2 DEF IssueLink, Return
    <3>3. call[c].seen \in SUBSET Links
      BY <1>2 DEF Readings
    <3>4. Spend(call[c].seen) \in [Links -> LinkRows]
      BY <3>3, RowsMade
    <3>7. ASSUME NEW u \in Links, u # t, link'[u].state = "live"
          PROVE  link'[u] = link[u] /\ u \notin call[c].seen
      <4>1. link'[u] = Spend(call[c].seen)[u]
        BY <3>1, <3>4, <3>7
      <4> QED BY <1>2, <3>7, <4>1 DEF Spend, LinkRows
    <3>8. link'[t] = Issued(call[c].kind)
      BY <3>1, <3>4
    <3>5. CASE call[c].kind = kind
      <4>1. LiveLinks(kind)' \subseteq (LiveLinks(kind) \ call[c].seen) \cup {t}
        BY <3>7 DEF LiveLinks
      <4>2. c \in Pending(kind) /\ Q \subseteq Pending(kind) \ {c} /\ \A d \in Q : call'[d].seen = call[d].seen
        BY <1>5, <3>2, <3>5 DEF Pending
      <4> QED BY <4>1, <4>2, CoverGrows DEF Goal
    <3>6. CASE call[c].kind # kind
      <4>1. LiveLinks(kind)' \subseteq LiveLinks(kind)
        BY <3>6, <3>7, <3>8 DEF LiveLinks, Issued
      <4> QED BY <1>6, <3>2, <4>1
    <3> QED BY <3>5, <3>6
  <2>3. CASE ChangePassword(c)
    BY <1>2, <1>4, <1>6, <2>3 DEF ChangePassword, Return
  <2>4. CASE LoginStep(c)
    <3>1. \E at, read : Goto(c, at, read) /\ at # "issue"
      <4>1. \A r : AfterCheck(r) # "issue"
        BY DEF AfterCheck
      <4>2. CASE \E o \in Origins : Login(c, o)
        BY <4>2 DEF Login
      <4>3. CASE RightPassword(c) \/ Unlock(c)
        BY <4>1, <4>3 DEF RightPassword, Unlock, Return
      <4>4. CASE UnknownAccount(c) \/ WrongPassword(c) \/ CountFailure(c) \/ Punish(c)
        BY <4>4 DEF UnknownAccount, WrongPassword, CountFailure, Punish, Return
      <4>5. CASE Rehash(c) \/ ClearFailures(c) \/ OpenSession(c) \/ FinishLogin(c)
        BY <4>5 DEF Rehash, ClearFailures, OpenSession, FinishLogin, Return
      <4> QED BY <2>4, <4>2, <4>3, <4>4, <4>5 DEF LoginStep
    <3>2. UNCHANGED link
      BY <2>4 DEF LoginStep, Login, UnknownAccount, WrongPassword, RightPassword, CountFailure,
                  Punish, Unlock, Rehash, ClearFailures, OpenSession, FinishLogin
    <3> QED BY <1>6, <1>7, <3>1, <3>2
  <2>5. CASE (\E k \in {"verify", "reset"} : AskLink(c, k))
             \/ (\E s \in Sessions : StartSensitive(c, s) \/ StartRevokeOthers(c, s))
             \/ Reauthenticate(c)
    BY <1>6, <1>7, <2>5 DEF AskLink, StartSensitive, StartRevokeOthers, Reauthenticate, Return
  <2>6. CASE RevokeAllSessions(c) \/ RevokeOtherSessions(c) \/ OfficeStep(c) \/ CallDies(c)
    BY <1>6, <1>7, <2>6 DEF RevokeAllSessions, RevokeOtherSessions, OfficeStep, OfficeReads, Disable,
                            Enable, CallDies, Return
  <2> QED BY <1>8, <2>1, <2>2, <2>3, <2>4, <2>5, <2>6 DEF CallStep, LinkStep, SessionStep
<1>9. ASSUME UNCHANGED <<pc, call>>
      PROVE  Q \subseteq Pending(kind) /\ \A c \in Q : call'[c].seen = call[c].seen
  BY <1>9 DEF Pending
<1>10. CASE OutsideStep
  <2>1. UNCHANGED <<pc, call>>
    BY <1>10, OutsideTyped
  <2>2. CASE Register
    <3>1. PICK t \in Links : link' = [link EXCEPT ![t] = Issued("verify")]
      BY <2>2 DEF Register
    <3>2. /\ \A u \in Links : link[u] = NoLink
          /\ \A c \in Calls : pc[c] # "issue"
      BY <2>2 DEF Register, NothingBefore
    <3>3. LiveLinks(kind)' \subseteq {t}
      BY <1>2, <3>1, <3>2 DEF LiveLinks, NoLink
    <3>4. Q = {}
      BY <2>1, <3>2 DEF Pending
    <3>5. Left(kind, Q)' \subseteq {t} /\ IsFiniteSet({t}) /\ Cardinality({t}) = 1
      BY <3>3, FS_Singleton DEF Left
    <3>6. IsFiniteSet(LiveLinks(kind)') /\ IsFiniteSet(Left(kind, Q)') /\ Cardinality(Left(kind, Q)') <= 1
      BY <3>3, <3>5, FS_Subset
    <3>7. Cardinality(Calls) # 0
      BY AccountAssumption, FS_EmptySet
    <3> QED BY <1>2, <3>4, <3>6, <3>7, FS_EmptySet, FS_CardinalityType DEF Goal
  <2>3. CASE \E t \in Links : VerifyEmail(t) \/ ResetPassword(t) \/ LinkExpires(t)
    <3>1. PICK t \in Links : VerifyEmail(t) \/ ResetPassword(t) \/ LinkExpires(t)
      BY <2>3
    <3>2. {t} \cup LiveLinks("verify") \in SUBSET Links /\ {t} \cup LiveLinks("reset") \in SUBSET Links
          /\ {t} \in SUBSET Links
      BY <1>2
    <3>3. PICK live \in SUBSET Links : link' = Spend(live)
      BY <3>1, <3>2 DEF VerifyEmail, ResetPassword, LinkExpires
    <3>4. LiveLinks(kind)' \subseteq LiveLinks(kind)
      BY <1>4, <3>3
    <3> QED BY <1>3, <1>9, <2>1, <3>4
  <2>4. CASE UNCHANGED link
    BY <1>3, <1>7, <1>9, <2>1, <2>4
  <2> QED
    BY <1>10, <2>2, <2>3, <2>4
       DEF OutsideStep, CloseSession, WindowEnds, OfficeRevokes, LockRunsOut
<1>11. CASE UNCHANGED vars
  BY <1>3, <1>7, <1>9, <1>11 DEF vars
<1> QED BY <1>8, <1>10, <1>11, NextSteps

\* Requests for a link that overlap do not see each other's, and still no more
\* links of a kind are usable than handlers run at once (requestPasswordReset,
\* resendVerificationEmail and registerUser).
THEOREM FewLinksLive == Spec => []FewLiveLinks
<1>1. Init => LinksCovered /\ NothingBefore
  <2> SUFFICES ASSUME Init PROVE LinksCovered /\ NothingBefore
    OBVIOUS
  <2>1. \A kind \in Kinds : LiveLinks(kind) = {}
    BY DEF Init, LiveLinks, NoLink
  <2>2. \A kind : Pending(kind) = {}
    BY DEF Init, Pending
  <2>3. \A kind \in Kinds : Left(kind, {}) = {}
    BY <2>1 DEF Left
  <2>4. Cardinality({}) = 0 /\ IsFiniteSet({}) /\ Cardinality(Calls) \in Nat
    BY AccountAssumption, FS_EmptySet, FS_CardinalityType
  <2>5. LinksCovered
    <3> SUFFICES ASSUME NEW kind \in Kinds
                 PROVE  /\ IsFiniteSet(LiveLinks(kind))
                        /\ \A Q \in SUBSET Pending(kind) :
                             Cardinality(Left(kind, Q)) + Cardinality(Q) <= Cardinality(Calls)
      BY DEF LinksCovered
    <3>1. \A Q \in SUBSET Pending(kind) : Q = {}
      BY <2>2
    <3>2. Cardinality(Left(kind, {})) + Cardinality({}) <= Cardinality(Calls)
      BY <2>3, <2>4
    <3>3. \A Q \in SUBSET Pending(kind) : Cardinality(Left(kind, Q)) + Cardinality(Q) <= Cardinality(Calls)
      BY <3>1, <3>2
    <3> QED BY <2>1, <2>4, <3>3
  <2> QED BY <2>5 DEF Init, NothingBefore
<1>2. LinksCovered => FewLiveLinks
  <2> SUFFICES ASSUME LinksCovered, NEW kind \in Kinds
               PROVE  Cardinality(LiveLinks(kind)) <= Cardinality(Calls)
    BY DEF FewLiveLinks, Kinds
  <2>1. Left(kind, {}) = LiveLinks(kind) /\ {} \in SUBSET Pending(kind)
    BY DEF Left
  <2>2. Cardinality({}) = 0 /\ Cardinality(LiveLinks(kind)) \in Nat /\ Cardinality(Calls) \in Nat
    BY AccountAssumption, FS_EmptySet, FS_CardinalityType DEF LinksCovered
  <2>3. Cardinality(Left(kind, {})) + Cardinality({}) <= Cardinality(Calls)
    BY <2>1 DEF LinksCovered
  <2> QED BY <2>1, <2>2, <2>3
<1> QED BY <1>1, <1>2, NothingStep, FewStep, Typing, PTL DEF Spec
=============================================================================
