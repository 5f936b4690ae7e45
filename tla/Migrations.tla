----------------------------- MODULE Migrations -----------------------------
(***************************************************************************)
(* migrate-database: the secrets of the second factors leave the column    *)
(* users.totp_secret.  The script seals them into a buffer, one statement  *)
(* for each account; records the first migration for a database that was   *)
(* made without a journal; and lets the migrator apply what is left, in    *)
(* one transaction: 0004 moves the buffer into user_two_factor and drops   *)
(* it with the column.  A run may die between any two statements, another  *)
(* may be started beside it or after it.                                   *)
(***************************************************************************)
EXTENDS Naturals

CONSTANTS Accounts, Calls, Values,
          StopsFirst,  \* does the application of before stay stopped during a run?
          Settled,     \* is a factor the buffer holds left alone, from a failed run to the next?
          NoValue

\* What the constants are; assumed where values are given.
MigrationAssumption ==
  NoValue \notin Values /\ StopsFirst \in BOOLEAN /\ Settled \in BOOLEAN

VARIABLES
  tables,    \* "none", "partial", "old" before 0004, "new" after all of them
  journal,   \* does the migrator's table say that 0000 is applied?
  accounts,  \* rows of users
  legacy,    \* legacy[a]: totp_secret
  made,      \* does auth_totp_migration_buffer exist?
  buffer,    \* buffer[a]
  factors,   \* factors[a]: user_two_factor
  step,      \* step[c]: the statement a run is at
  found      \* found[c][a]: secrets still to be copied

database == <<tables, journal, accounts, legacy, factors>>
vars == <<database, made, buffer, step, found>>

None == [a \in Accounts |-> NoValue]
Ended == {"idle", "done", "failed"}
Under(c) == step[c] \notin Ended

Init ==
  /\ tables \in {"none", "partial", "old"} /\ journal \in BOOLEAN
  /\ journal => tables = "old"
  /\ accounts = IF tables = "none" THEN {} ELSE Accounts
  /\ legacy = None /\ factors = None /\ made = FALSE /\ buffer = None
  /\ step = [c \in Calls |-> "idle"] /\ found = [c \in Calls |-> None]

-----------------------------------------------------------------------------
(* The application of before.                                              *)

MayWrite(a) ==
  /\ a \in accounts /\ tables \in {"old", "partial"}
  /\ StopsFirst => \A c \in Calls : ~Under(c)

Enrol(a, v) ==
  /\ MayWrite(a) /\ v # legacy[a]
  /\ Settled /\ v = NoValue => buffer[a] = NoValue
  /\ legacy' = [legacy EXCEPT ![a] = v]
  /\ UNCHANGED <<tables, journal, accounts, factors, made, buffer, step, found>>

Remove(a) ==
  /\ MayWrite(a) /\ (Settled => buffer[a] = NoValue)
  /\ accounts' = accounts \ {a} /\ legacy' = [legacy EXCEPT ![a] = NoValue]
  /\ UNCHANGED <<tables, journal, factors, made, buffer, step, found>>

\* Somebody completes a database of which a table was missing.
Repair ==
  /\ tables = "partial" /\ tables' = "old"
  /\ UNCHANGED <<journal, accounts, legacy, factors, made, buffer, step, found>>

-----------------------------------------------------------------------------
(* prepareLegacyTotpMigration.                                             *)

Goto(c, s) == step' = [step EXCEPT ![c] = s]

\* A migrated database has nothing to prepare.
Look(c) ==
  /\ step[c] \in Ended
  /\ Goto(c, CASE tables = "new" -> "baseline" [] tables = "none" -> "empty" [] OTHER -> "create")
  /\ UNCHANGED <<database, made, buffer, found>>

CreateBuffer(c) ==
  /\ step[c] \in {"empty", "create"} /\ made' = TRUE
  /\ Goto(c, IF step[c] = "empty" THEN "baseline" ELSE "read")
  /\ UNCHANGED <<database, buffer, found>>

\* The column may be gone, or the key be missing.
ReadLegacy(c) ==
  /\ step[c] = "read"
  /\ \/ /\ tables # "new" /\ found' = [found EXCEPT ![c] = legacy]
        /\ Goto(c, IF legacy = None THEN "baseline" ELSE "copy")
     \/ /\ tables = "new" \/ legacy # None
        /\ Goto(c, "failed") /\ UNCHANGED found
  /\ UNCHANGED <<database, made, buffer>>

\* INSERT ... ON CONFLICT DO UPDATE.
CopySecret(c, a) ==
  /\ step[c] = "copy" /\ found[c][a] # NoValue
  /\ IF made
     THEN /\ buffer' = [buffer EXCEPT ![a] = found[c][a]]
          /\ found' = [found EXCEPT ![c][a] = NoValue]
          /\ Goto(c, IF found'[c] = None THEN "baseline" ELSE "copy")
     ELSE /\ Goto(c, "failed") /\ found' = [found EXCEPT ![c] = None] /\ UNCHANGED buffer
  /\ UNCHANGED <<database, made>>

-----------------------------------------------------------------------------
(* baselineExistingDatabase, and the migrator.                             *)

Baseline(c) ==
  /\ step[c] = "baseline"
  /\ IF tables = "partial"
     THEN Goto(c, "failed") /\ UNCHANGED journal
     ELSE Goto(c, IF tables = "new" THEN "done" ELSE "migrate")
          /\ journal' = (journal \/ tables = "old")
  /\ UNCHANGED <<tables, accounts, legacy, factors, made, buffer, found>>

\* Rows of accounts that are gone break a foreign key; tables another run has made are
\* in the way.
Applicable == tables # "new" /\ made /\ \A a \in Accounts : buffer[a] # NoValue => a \in accounts

Migrate(c) ==
  /\ step[c] = "migrate" /\ Applicable
  /\ tables' = "new" /\ journal' = TRUE /\ factors' = buffer
  /\ legacy' = None /\ made' = FALSE /\ buffer' = None
  /\ Goto(c, "done") /\ UNCHANGED <<accounts, found>>

\* A statement is refused, or the run is killed; a transaction is rolled back.
RunFails(c) ==
  /\ Under(c) /\ Goto(c, "failed") /\ found' = [found EXCEPT ![c] = None]
  /\ UNCHANGED <<database, made, buffer>>

RunStep(c) == \/ Look(c) \/ CreateBuffer(c) \/ ReadLegacy(c) \/ \E a \in Accounts : CopySecret(c, a)
              \/ Baseline(c) \/ Migrate(c) \/ RunFails(c)

Next == \/ \E a \in Accounts : Remove(a) \/ \E v \in Values \cup {NoValue} : Enrol(a, v)
        \/ Repair \/ \E c \in Calls : RunStep(c)

Spec == Init /\ [][Next]_vars
-----------------------------------------------------------------------------
(* Properties.                                                             *)

\* Every table and run has its type.
TypeOK ==
  /\ tables \in {"none", "partial", "old", "new"} /\ journal \in BOOLEAN /\ made \in BOOLEAN
  /\ accounts \subseteq Accounts
  /\ legacy \in [Accounts -> Values \cup {NoValue}]
  /\ {buffer, factors} \cup {found[c] : c \in Calls} \subseteq [Accounts -> Values \cup {NoValue}]
  /\ step \in [Calls -> Ended \cup {"empty", "create", "read", "copy", "baseline", "migrate"}]

\* "Chiffrer les secrets TOTP existants": whenever a run is about to drop the column, what
\* it puts in the place of it is the factor every account has, after runs that failed,
\* died, or ran side by side.
SecretsMoved == \A c \in Calls : step[c] = "migrate" /\ Applicable => buffer = legacy
=============================================================================
