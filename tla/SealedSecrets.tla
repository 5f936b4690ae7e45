--------------------------- MODULE SealedSecrets ---------------------------
(***************************************************************************)
(* Values sealed with TWO_FACTOR_ENCRYPTION_KEY - the secrets of the        *)
(* second factors and the private part of queued mails - and the script    *)
(* that moves them to another key.  A seal names no key: a value opens     *)
(* with the key it was sealed with, and with no other.                     *)
(*                                                                         *)
(* The script reads the two tables, opens and seals everything in memory,  *)
(* and writes all of it in one transaction.                                *)
(***************************************************************************)
EXTENDS Naturals

CONSTANTS Factors, Mails,  \* rows of user_two_factor, of notification_outbox
          Secrets,
          MaxKeys,         \* bound: keys in the life of the deployment
          WritesStopped,   \* are the application and the dispatcher stopped for a rotation?
          AckLoss,         \* may a commit be applied and its acknowledgement be lost?
          NoSecret

\* What the constants are; assumed where values are given.
SealAssumption ==
  /\ Factors \cap Mails = {} /\ NoSecret \notin Secrets
  /\ MaxKeys \in Nat \ {0} /\ WritesStopped \in BOOLEAN /\ AckLoss \in BOOLEAN

VARIABLES
  running,  \* is the application up?
  key,      \* the key in its environment
  sealed,   \* sealed[x]: key and content of the column, NoSecret for NULL
  meant,    \* history: meant[x], what was last sealed there
  script,   \* the statement the script is at
  old, new, \* the keys in the environment of the script
  found     \* what the script has read

environment == <<running, key>>
columns == <<sealed, meant>>
rotation == <<script, old, new, found>>
vars == <<environment, columns, rotation>>

Rows == Factors \cup Mails
Empty == [key |-> 0, secret |-> NoSecret]
Nothing == [x \in Rows |-> Empty]

Init ==
  /\ running = TRUE /\ key = 1
  /\ sealed = Nothing /\ meant = [x \in Rows |-> NoSecret]
  /\ script = "idle" /\ old = 0 /\ new = 0 /\ found = Nothing

\* encryptSecret: a setup replaces the secret of a factor, a mail is queued once.
Seal(x, s) ==
  /\ running /\ (x \in Mails => sealed[x] = Empty)
  /\ sealed' = [sealed EXCEPT ![x] = [key |-> key, secret |-> s]]
  /\ meant' = [meant EXCEPT ![x] = s]
  /\ UNCHANGED <<environment, rotation>>

\* The row goes with its account.
Forget(x) ==
  /\ running /\ sealed[x] # Empty
  /\ sealed' = [sealed EXCEPT ![x] = Empty] /\ meant' = [meant EXCEPT ![x] = NoSecret]
  /\ UNCHANGED <<environment, rotation>>

\* decryptSecret, with the key k.
Opens(k, cell) == cell.secret # NoSecret => cell.key = k

StopApplication ==
  /\ running /\ running' = FALSE
  /\ UNCHANGED <<key, columns, rotation>>

\* The application starts again with the key the operator has kept or changed.
StartApplication ==
  /\ ~running /\ (WritesStopped => script \in {"idle", "applied", "refused"})
  /\ running' = TRUE
  /\ key' = IF script = "applied" THEN new ELSE key
  /\ script' = "idle" /\ old' = 0 /\ new' = 0 /\ UNCHANGED <<columns, found>>

-----------------------------------------------------------------------------
(* rotate-auth-encryption-key, with --apply.                               *)

RunScript ==
  /\ script \in {"idle", "refused"} /\ key < MaxKeys
  /\ WritesStopped => ~running
  /\ script' = "factors" /\ old' = key /\ new' = key + 1
  /\ UNCHANGED <<environment, columns, found>>

ReadTable(rows, from, to) ==
  /\ script = from /\ script' = to
  /\ found' = [x \in Rows |-> IF x \in rows THEN sealed[x] ELSE found[x]]
  /\ UNCHANGED <<environment, columns, old, new>>

ReadFactors == ReadTable(Factors, "factors", "mails")
ReadMails == ReadTable(Mails, "mails", "seal")

\* Everything is opened with the old key before anything is written.
Rewrap ==
  /\ script = "seal" /\ \A x \in Rows : Opens(old, found[x])
  /\ script' = "write"
  /\ UNCHANGED <<environment, columns, old, new, found>>

\* Mutation: each row is written on its own, and the script may stop half-way.
WrittenSome(rows) == rows \subseteq Rows

\* One transaction: the rows are written together.
Written(rows) == rows = Rows

Write ==
  /\ \E rows \in SUBSET Rows :
       /\ Written(rows)
       /\ sealed' = [x \in Rows |-> IF x \in rows /\ found[x] # Empty /\ sealed[x] # Empty
                                   THEN [key |-> new, secret |-> found[x].secret] ELSE sealed[x]]

Apply ==
  /\ script = "write" /\ Write
  /\ script' = "applied" /\ found' = Nothing
  /\ UNCHANGED <<environment, meant, old, new>>

\* A value does not open, the database refuses, the script is killed.
ScriptFails ==
  /\ script \in {"factors", "mails", "seal", "write"}
  /\ script' = "refused" /\ found' = Nothing
  /\ IF script = "write" /\ AckLoss THEN Write \/ sealed' = sealed ELSE sealed' = sealed
  /\ UNCHANGED <<environment, meant, old, new>>

Next ==
  \/ \E x \in Rows : Forget(x) \/ \E s \in Secrets : Seal(x, s)
  \/ StopApplication \/ StartApplication
  \/ RunScript \/ ReadFactors \/ ReadMails \/ Rewrap \/ Apply \/ ScriptFails

Spec == Init /\ [][Next]_vars
-----------------------------------------------------------------------------
(* Properties.                                                             *)

Cells == [key : 0..MaxKeys, secret : Secrets \cup {NoSecret}]

\* Every key, column and reading has its type.
TypeOK ==
  /\ running \in BOOLEAN /\ key \in 1..MaxKeys
  /\ sealed \in [Rows -> Cells] /\ meant \in [Rows -> Secrets \cup {NoSecret}]
  /\ script \in {"idle", "factors", "mails", "seal", "write", "applied", "refused"}
  /\ old \in 0..MaxKeys /\ new \in 0..MaxKeys /\ found \in [Rows -> Cells]

\* "Une rotation doit donc etre atomique": whenever the application is up, what was
\* sealed last in a row opens with its key, after rotations that ended, failed,
\* were killed or were run again.
SecretsStayReadable ==
  \A x \in Rows : /\ sealed[x].secret = meant[x]
                  /\ running => Opens(key, sealed[x])
=============================================================================
