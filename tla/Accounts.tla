------------------------------ MODULE Accounts ------------------------------
(***************************************************************************)
(* One client account without second factor: its status, password, links,  *)
(* failed logins and sessions, under the handlers that log in, replace the *)
(* password, confirm the address, close sessions, disable and enable.      *)
(*                                                                         *)
(* A call is one execution of a handler; several run at once.  A statement *)
(* or a transaction is one action, and what a handler has read stays in    *)
(* its call until it writes.  Passwords are numbered in the order in which *)
(* they are chosen.                                                        *)
(***************************************************************************)
EXTENDS Naturals, FiniteSets

CONSTANTS Calls,          \* handler executions alive at one time
          Sessions,       \* identifiers of rows of sessions, never reused
          Links,          \* identifiers of rows of the two token tables
          Origins,        \* addresses logins come from
          LockThreshold,  \* THRESHOLDS.lock
          MaxPasswords,   \* bound: passwords chosen for the account
          NoOrigin, NoSession

ASSUME AccountAssumption ==
  /\ IsFiniteSet(Calls) /\ Calls # {}
  /\ LockThreshold \in Nat \ {0}
  /\ MaxPasswords \in Nat \ {0}
  /\ NoOrigin \notin Origins
  /\ NoSession \notin Sessions

VARIABLES
  status,       \* users.status, "none" before the account
  verified,     \* is email_verified_at set?
  disabledAt,   \* is disabled_at set?
  lockedUntil,  \* "none", "ahead" or "past"
  password,     \* number of the password behind password_hash
  chosen,       \* passwords chosen so far
  legacy,       \* has the hash another bcrypt cost?
  failures,     \* failures[o]: login-fail counter of the account and origin o
  link,         \* link[t]: kind, state and the passwords chosen when it was issued
  worked,       \* worked[t]: how often link t had its effect
  session,      \* session[s]: state, and the passwords chosen when it was opened or kept
  decision,     \* the last decision of the office
  pc,           \* pc[c]: the statement call c is at
  call          \* call[c]: what call c has read

account == <<status, verified, disabledAt, lockedUntil, password, chosen, legacy>>
vars == <<account, failures, link, worked, session, decision, pc, call>>

Idle == [origin |-> NoOrigin, rehash |-> 0, lock |-> FALSE,
         session |-> NoSession, kind |-> "none", seen |-> {}]
Closed == [state |-> "closed", under |-> 0]
NoLink == [kind |-> "none", state |-> "none", under |-> 0]
LiveLinks(kind) == {t \in Links : link[t].state = "live" /\ link[t].kind = kind}
OpenSessions == {s \in Sessions : session[s].state = "open"}

\* Before the registration, or an account of the previous site.
Init ==
  /\ \/ status = "none" /\ verified = FALSE /\ legacy = FALSE
     \/ status = "active" /\ verified = TRUE /\ legacy = TRUE
  /\ disabledAt = FALSE
  /\ lockedUntil = "none"
  /\ password = 1 /\ chosen = 1
  /\ failures = [o \in Origins |-> 0]
  /\ link = [t \in Links |-> NoLink]
  /\ worked = [t \in Links |-> 0]
  /\ session = [s \in Sessions |-> [state |-> "none", under |-> 0]]
  /\ decision = "enabled"
  /\ pc = [c \in Calls |-> "idle"]
  /\ call = [c \in Calls |-> Idle]

\* Call c goes on to statement at with what it has read, or returns.
Goto(c, at, read) == /\ pc' = [pc EXCEPT ![c] = at]
                     /\ call' = [call EXCEPT ![c] = read]
Return(c) == Goto(c, "idle", Idle)

\* Mutation: session resolution looks at the status only.
ServedByStatus(s) == session[s].state = "open" /\ status = "active"

\* resolveSession: the account is read again for every request of a session.
Served(s) ==
  /\ session[s].state = "open"
  /\ status = "active" /\ verified /\ ~disabledAt

-----------------------------------------------------------------------------
(* beginLogin, failAuthentication and completePasswordOnlyLogin.           *)

\* Mutation: the gate closes one failure late.
GateLate(o) == failures[o] <= LockThreshold

GateOpen(o) == failures[o] < LockThreshold

Login(c, o) ==
  /\ pc[c] = "idle" /\ GateOpen(o)
  /\ Goto(c, "read", [Idle EXCEPT !.origin = o])
  /\ UNCHANGED <<account, failures, link, worked, session, decision>>

\* The row is read and the password compared with the hash that was read.
AccountOpen == status = "active" /\ verified /\ ~disabledAt /\ lockedUntil # "ahead"
LockExpired == status = "locked" /\ lockedUntil = "past"

WrongPassword(c) ==
  /\ pc[c] = "read" /\ status # "none"
  /\ Goto(c, "count", call[c])
  /\ UNCHANGED <<account, failures, link, worked, session, decision>>

AfterCheck(rehash) == IF rehash # 0 THEN "rehash" ELSE "clear"

RightPassword(c) ==
  /\ pc[c] = "read" /\ status # "none"
  /\ LET read == [call[c] EXCEPT !.rehash = IF legacy THEN password ELSE 0]
     IN \/ LockExpired /\ Goto(c, "unlock", read)
        \/ ~LockExpired /\ AccountOpen /\ Goto(c, AfterCheck(read.rehash), read)
        \/ ~LockExpired /\ ~AccountOpen /\ Return(c)
  /\ UNCHANGED <<account, failures, link, worked, session, decision>>

Counted(o) == failures' = [failures EXCEPT ![o] = @ + 1]

\* No account has the address: the failure is counted all the same.
UnknownAccount(c) ==
  /\ pc[c] = "read" /\ status = "none"
  /\ Counted(call[c].origin)
  /\ Return(c)
  /\ UNCHANGED <<account, link, worked, session, decision>>

CountFailure(c) ==
  LET o == call[c].origin IN
  /\ pc[c] = "count"
  /\ Counted(o)
  /\ Goto(c, "punish", [call[c] EXCEPT !.lock = failures[o] + 1 >= LockThreshold])
  /\ UNCHANGED <<account, link, worked, session, decision>>

\* The update of failAuthentication, whatever the account has become.
Punish(c) ==
  /\ pc[c] = "punish"
  /\ IF call[c].lock THEN status' = "locked" /\ lockedUntil' = "ahead"
     ELSE status' = status /\ lockedUntil' = "none"
  /\ Return(c)
  /\ UNCHANGED <<verified, disabledAt, password, chosen, legacy,
                 failures, link, worked, session, decision>>

Unlock(c) ==
  /\ pc[c] = "unlock"
  /\ status' = "active" /\ lockedUntil' = "none"
  /\ Goto(c, AfterCheck(call[c].rehash), call[c])
  /\ UNCHANGED <<verified, disabledAt, password, chosen, legacy,
                 failures, link, worked, session, decision>>

\* The password that was typed is hashed again at today's cost.
Rehash(c) ==
  /\ pc[c] = "rehash"
  /\ password' = call[c].rehash /\ legacy' = FALSE
  /\ Goto(c, "clear", [call[c] EXCEPT !.rehash = 0])
  /\ UNCHANGED <<status, verified, disabledAt, lockedUntil, chosen,
                 failures, link, worked, session, decision>>

ClearFailures(c) ==
  /\ pc[c] = "clear"
  /\ failures' = [failures EXCEPT ![call[c].origin] = 0]
  /\ Goto(c, "open", Idle)
  /\ UNCHANGED <<account, link, worked, session, decision>>

OpenSession(c) ==
  /\ pc[c] = "open"
  /\ \E s \in Sessions :
       /\ session[s].state = "none"
       /\ session' = [session EXCEPT ![s] = [state |-> "open", under |-> chosen]]
  /\ Goto(c, "finish", call[c])
  /\ UNCHANGED <<account, failures, link, worked, decision>>

FinishLogin(c) ==
  /\ pc[c] = "finish"
  /\ status' = "active" /\ lockedUntil' = "none"
  /\ Return(c)
  /\ UNCHANGED <<verified, disabledAt, password, chosen, legacy,
                 failures, link, worked, session, decision>>

-----------------------------------------------------------------------------
(* Registration, the links of the two token tables, password reset.        *)

Issued(kind) == [kind |-> kind, state |-> "live", under |-> chosen]

\* Links are marked used, or expire.
Spend(live) == [t \in Links |-> IF t \in live THEN [link[t] EXCEPT !.state = "spent", !.under = 0]
                               ELSE link[t]]

Register ==
  /\ status = "none"
  /\ status' = "pending_verification"
  /\ \E t \in Links : link[t] = NoLink /\ link' = [link EXCEPT ![t] = Issued("verify")]
  /\ UNCHANGED <<verified, disabledAt, lockedUntil, password, chosen, legacy,
                 failures, worked, session, decision, pc, call>>

\* requestPasswordReset and resendVerificationEmail read the account; the last
\* link is older than their cooldown.
AskLink(c, kind) ==
  /\ pc[c] = "idle"
  /\ \/ kind = "reset" /\ status = "active"
     \/ kind = "verify" /\ status # "none" /\ ~verified
  /\ Goto(c, "supersede", [Idle EXCEPT !.kind = kind])
  /\ UNCHANGED <<account, failures, link, worked, session, decision>>

\* The first statement of the transaction finds the links it will mark used.
Supersede(c) ==
  /\ pc[c] = "supersede"
  /\ Goto(c, "issue", [call[c] EXCEPT !.seen = LiveLinks(call[c].kind)])
  /\ UNCHANGED <<account, failures, link, worked, session, decision>>

\* Mutation: a new link leaves the previous ones usable.
IssueMore(c) ==
  /\ pc[c] = "issue"
  /\ \E t \in Links :
       link[t] = NoLink /\ link' = [link EXCEPT ![t] = Issued(call[c].kind)]
  /\ Return(c)
  /\ UNCHANGED <<account, failures, worked, session, decision>>

\* The transaction commits: a link committed in between is not marked.
IssueLink(c) ==
  /\ pc[c] = "issue"
  /\ \E t \in Links :
       /\ link[t] = NoLink
       /\ link' = [Spend(call[c].seen) EXCEPT ![t] = Issued(call[c].kind)]
  /\ Return(c)
  /\ UNCHANGED <<account, failures, worked, session, decision>>

LinkExpires(t) ==
  /\ link[t].state = "live"
  /\ link' = Spend({t})
  /\ UNCHANGED <<account, failures, worked, session, decision, pc, call>>

\* Mutation: the consumption does not ask that used_at is null.
UsableTwice(t) == link[t].state \in {"live", "spent"}

\* The conditional update of the token finds its row.
Usable(t) == link[t].state = "live"

\* The account a link acts on: neither disabled nor missing.
LinkApplies(t, kind) == Usable(t) /\ link[t].kind = kind /\ status \notin {"none", "disabled"}

VerifyEmail(t) ==
  /\ LinkApplies(t, "verify")
  /\ verified' = TRUE /\ status' = "active"
  /\ link' = Spend({t} \cup LiveLinks("verify"))
  /\ worked' = [worked EXCEPT ![t] = @ + 1]
  /\ UNCHANGED <<disabledAt, lockedUntil, password, chosen, legacy,
                 failures, session, decision, pc, call>>

\* A password is chosen: every session but the kept ones is revoked, the other
\* reset links are marked used.
NewPassword(kept) ==
  /\ chosen < MaxPasswords
  /\ password' = chosen + 1 /\ chosen' = chosen + 1 /\ legacy' = FALSE
  /\ session' = [s \in Sessions |->
       IF s \notin OpenSessions THEN session[s]
       ELSE IF s \in kept THEN [session[s] EXCEPT !.under = chosen + 1]
       ELSE Closed]

ResetPassword(t) ==
  /\ LinkApplies(t, "reset")
  /\ NewPassword({})
  /\ status' = "active" /\ lockedUntil' = "none"
  /\ link' = Spend({t} \cup LiveLinks("reset"))
  /\ worked' = [worked EXCEPT ![t] = @ + 1]
  /\ UNCHANGED <<verified, disabledAt, failures, decision, pc, call>>

-----------------------------------------------------------------------------
(* Actions of a session: changePassword, revoke-all, revoke-others.        *)

StartSensitive(c, s) ==
  /\ pc[c] = "idle" /\ Served(s)
  /\ Goto(c, "reauth", [Idle EXCEPT !.session = s])
  /\ UNCHANGED <<account, failures, link, worked, session, decision>>

\* verifySensitiveAction: the account is active and the password is the one in
\* force; a wrong one is refused and not counted.
Reauthenticate(c) ==
  /\ pc[c] = "reauth"
  /\ \/ status = "active" /\ (Goto(c, "change", call[c]) \/ Goto(c, "closeAll", Idle))
     \/ Return(c)
  /\ UNCHANGED <<account, failures, link, worked, session, decision>>

\* Mutation: the sessions are left open by a change of password.
ChangeKeepsSessions(c) ==
  /\ pc[c] = "change"
  /\ chosen < MaxPasswords
  /\ password' = chosen + 1 /\ chosen' = chosen + 1 /\ legacy' = FALSE
  /\ link' = Spend(LiveLinks("reset"))
  /\ Return(c)
  /\ UNCHANGED <<status, verified, disabledAt, lockedUntil, failures, worked, session, decision>>

ChangePassword(c) ==
  /\ pc[c] = "change"
  /\ NewPassword({call[c].session})
  /\ link' = Spend(LiveLinks("reset"))
  /\ Return(c)
  /\ UNCHANGED <<status, verified, disabledAt, lockedUntil, failures, worked, decision>>

Close(closed) == session' = [s \in Sessions |->
  IF s \in closed \cap OpenSessions THEN Closed ELSE session[s]]

RevokeAllSessions(c) ==
  /\ pc[c] = "closeAll"
  /\ Close(Sessions)
  /\ Return(c)
  /\ UNCHANGED <<account, failures, link, worked, decision>>

StartRevokeOthers(c, s) ==
  /\ pc[c] = "idle" /\ Served(s)
  /\ Goto(c, "closeOthers", [Idle EXCEPT !.session = s])
  /\ UNCHANGED <<account, failures, link, worked, session, decision>>

RevokeOtherSessions(c) ==
  /\ pc[c] = "closeOthers"
  /\ Close(Sessions \ {call[c].session})
  /\ Return(c)
  /\ UNCHANGED <<account, failures, link, worked, decision>>

\* logoutUser, revokeOwnedSession, or the session times out.
CloseSession(s) ==
  /\ session[s].state = "open"
  /\ Close({s})
  /\ UNCHANGED <<account, failures, link, worked, decision, pc, call>>

-----------------------------------------------------------------------------
(* The office: setAccountStatus and revokeAccountSessions.                 *)

OfficeReads(c, to) ==
  /\ pc[c] = "idle"
  /\ status \notin {"none", to}
  /\ to = "active" => verified
  /\ Goto(c, IF to = "active" THEN "enable" ELSE "disable", Idle)
  /\ UNCHANGED <<account, failures, link, worked, session, decision>>

Disable(c) ==
  /\ pc[c] = "disable"
  /\ status' = "disabled" /\ disabledAt' = TRUE /\ lockedUntil' = "none"
  /\ Close(Sessions)
  /\ decision' = "disabled"
  /\ Return(c)
  /\ UNCHANGED <<verified, password, chosen, legacy, failures, link, worked>>

Enable(c) ==
  /\ pc[c] = "enable"
  /\ status' = "active" /\ disabledAt' = FALSE /\ lockedUntil' = "none"
  /\ decision' = "enabled"
  /\ Return(c)
  /\ UNCHANGED <<verified, password, chosen, legacy, failures, link, worked, session>>

OfficeRevokes ==
  /\ status # "none" /\ OpenSessions # {}
  /\ Close(Sessions)
  /\ UNCHANGED <<account, failures, link, worked, decision, pc, call>>

-----------------------------------------------------------------------------
\* Fifteen minutes pass after a lock.
LockRunsOut ==
  /\ lockedUntil = "ahead"
  /\ lockedUntil' = "past"
  /\ UNCHANGED <<status, verified, disabledAt, password, chosen, legacy,
                 failures, link, worked, session, decision, pc, call>>

\* The window of a counter ends, or the counter is lost with its store.
WindowEnds(o) ==
  /\ failures[o] > 0
  /\ failures' = [failures EXCEPT ![o] = 0]
  /\ UNCHANGED <<account, link, worked, session, decision, pc, call>>

\* A statement fails or the process dies: what was committed stays.
CallDies(c) ==
  /\ pc[c] # "idle"
  /\ Return(c)
  /\ UNCHANGED <<account, failures, link, worked, session, decision>>

LoginStep(c) == \/ \E o \in Origins : Login(c, o)
                \/ UnknownAccount(c) \/ WrongPassword(c) \/ RightPassword(c)
                \/ CountFailure(c) \/ Punish(c)
                \/ Unlock(c) \/ Rehash(c) \/ ClearFailures(c) \/ OpenSession(c) \/ FinishLogin(c)

LinkStep(c) == \/ \E kind \in {"verify", "reset"} : AskLink(c, kind)
               \/ Supersede(c) \/ IssueLink(c)

SessionStep(c) == \/ \E s \in Sessions : StartSensitive(c, s) \/ StartRevokeOthers(c, s)
                  \/ Reauthenticate(c) \/ ChangePassword(c)
                  \/ RevokeAllSessions(c) \/ RevokeOtherSessions(c)

OfficeStep(c) == \/ \E to \in {"active", "disabled"} : OfficeReads(c, to)
                 \/ Disable(c) \/ Enable(c)

Next == \/ \E c \in Calls : \/ LoginStep(c) \/ LinkStep(c) \/ SessionStep(c)
                            \/ OfficeStep(c) \/ CallDies(c)
        \/ \E t \in Links : VerifyEmail(t) \/ ResetPassword(t) \/ LinkExpires(t)
        \/ \E s \in Sessions : CloseSession(s)
        \/ \E o \in Origins : WindowEnds(o)
        \/ Register \/ OfficeRevokes \/ LockRunsOut

Spec == Init /\ [][Next]_vars
-----------------------------------------------------------------------------
(* Properties.                                                             *)

Statements == {"idle", "read", "count", "punish", "unlock", "rehash", "clear", "open", "finish",
               "supersede", "issue", "reauth", "change", "closeAll", "closeOthers", "enable", "disable"}
Readings == [origin : Origins \cup {NoOrigin}, rehash : 0..chosen, lock : BOOLEAN,
             session : Sessions \cup {NoSession}, kind : {"none", "verify", "reset"},
             seen : SUBSET Links]

LinkRows == [kind : {"none", "verify", "reset"}, state : {"none", "live", "spent"}, under : Nat]
SessionRows == [state : {"none", "open", "closed"}, under : Nat]

AccountTypes ==
  /\ status \in {"none", "pending_verification", "active", "locked", "disabled"}
  /\ verified \in BOOLEAN /\ disabledAt \in BOOLEAN /\ legacy \in BOOLEAN
  /\ lockedUntil \in {"none", "ahead", "past"}
  /\ chosen \in 1..MaxPasswords /\ password \in 1..chosen
  /\ decision \in {"enabled", "disabled"}

RowTypes ==
  /\ failures \in [Origins -> Nat]
  /\ link \in [Links -> LinkRows] /\ worked \in [Links -> Nat]
  /\ session \in [Sessions -> SessionRows]

CallTypes == pc \in [Calls -> Statements] /\ call \in [Calls -> Readings]

\* Every part has its type; a pending rehash is of a password chosen already.
TypeOK == AccountTypes /\ RowTypes /\ CallTypes

\* An account is served only while its address is verified and the office has
\* not disabled it, although logins, locks, unlocks, resets and verifications in
\* flight write its status without looking at it (disabled_at decides).
ServedAccountsAreAllowed == \A s \in Sessions : Served(s) => verified /\ decision = "enabled"

\* A new password ends what came before: no session but the one that chose it,
\* and no reset link that was issued earlier, outlives it.
PasswordEndsThePast ==
  /\ \A s \in OpenSessions : session[s].under = chosen
  /\ \A t \in LiveLinks("reset") : link[t].under = chosen

\* A link has its effect at most once, and then it is spent.
LinksWorkOnce == \A t \in Links : worked[t] <= 1 /\ (worked[t] = 1 => link[t].state = "spent")

\* The gate is read before the failures of overlapping logins are counted: a
\* counter passes the threshold, by no more than the logins in flight.
FailuresBounded == \A o \in Origins : failures[o] < LockThreshold + Cardinality(Calls)

\* Overlapping requests each leave a live link, but no more of them than overlap.
FewLiveLinks ==
  \A kind \in {"verify", "reset"} : Cardinality(LiveLinks(kind)) <= Cardinality(Calls)

\* "locked : verrouillage de connexion temporaire": a lock has an end.
LockIsTemporary == status = "locked" => lockedUntil # "none"

\* "Aucun mot de passe n'est reinitialise silencieusement": the password in
\* force is the last one that was chosen.
LastPasswordChosen == password = chosen
=============================================================================
