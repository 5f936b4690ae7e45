-------------------------------- MODULE Seeds --------------------------------
(***************************************************************************)
(* db:seed, which fills a database for an acceptance: accounts that are    *)
(* found by their address, requests and messages that are found by their   *)
(* reference, and a note on the first of each it created.  A run may be    *)
(* killed, or refused, between any two statements, and is started again.   *)
(***************************************************************************)
EXTENDS Naturals, Sequences, FiniteSets

CONSTANTS Clients, Operators,  \* addresses; an operator is enrolled in the second factor
          Requests, Messages,  \* references
          Calls,
          OneAtATime           \* does a run wait for the one before?

\* What the constants are; assumed where values are given.
SeedAssumption ==
  /\ Clients \cap Operators = {} /\ Requests \cap Messages = {}
  /\ (Clients \cup Operators) \cap (Requests \cup Messages) = {}
  /\ \A s \in {Clients, Operators, Requests, Messages} : IsFiniteSet(s)
  /\ OneAtATime \in BOOLEAN

VARIABLES
  mode,     \* NODE_ENV of the run
  users,    \* addresses of users
  factors,  \* addresses whose account has its row of user_two_factor
  rows,     \* references of requests and messages
  notes,    \* internal_notes: the references they are about, in order
  step,     \* step[c]: what a run does
  at,       \* at[c]: the address or reference it is at
  todo,     \* todo[c]: addresses and references it has not come to
  created,  \* created[c]: references it has inserted
  torn      \* history: addresses of operators a run left without their factor

database == <<users, factors, rows, notes>>
vars == <<mode, database, step, at, todo, created, torn>>

Emails == Clients \cup Operators
References == Requests \cup Messages
Nothing == "nothing"
Ended == {"idle", "done", "failed"}
Under(c) == step[c] \notin Ended

Init ==
  /\ mode \in {"development", "production"}
  /\ users = {} /\ factors = {} /\ rows = {} /\ notes = <<>> /\ torn = {}
  /\ step = [c \in Calls |-> "idle"] /\ at = [c \in Calls |-> Nothing]
  /\ todo = [c \in Calls |-> {}] /\ created = [c \in Calls |-> {}]

Goto(c, s) == step' = [step EXCEPT ![c] = s]

\* Accounts come first, then requests, then messages.
Following(c) ==
  LET left(s) == todo[c] \cap s IN
  CASE left(Emails) # {} -> left(Emails)
    [] left(Emails) = {} /\ left(Requests) # {} -> left(Requests)
    [] OTHER -> left(Messages)

-----------------------------------------------------------------------------
(* main.                                                                   *)

\* Refused in production, and without a password of its own, before anything is written.
Run(c) ==
  /\ ~Under(c) /\ (OneAtATime => \A d \in Calls : ~Under(d))
  /\ \/ Goto(c, "failed") /\ UNCHANGED <<todo, created>>
     \/ /\ mode # "production" /\ Goto(c, "look")
        /\ todo' = [todo EXCEPT ![c] = Emails \cup References]
        /\ created' = [created EXCEPT ![c] = {}]
  /\ UNCHANGED <<mode, database, at, torn>>

\* What the query by address, or by reference, does not find.
Unknown == (Emails \cup References) \ (users \cup rows)

Look(c) ==
  /\ step[c] = "look" /\ todo[c] # {}
  /\ \E x \in Following(c) :
       /\ todo' = [todo EXCEPT ![c] = @ \ {x}]
       /\ IF x \in Unknown
          THEN Goto(c, "insert") /\ at' = [at EXCEPT ![c] = x]
          ELSE UNCHANGED <<step, at>>
  /\ UNCHANGED <<mode, database, created, torn>>

\* A unique index refuses the second insert of a run that overlaps another.
InsertUser(c) ==
  /\ step[c] = "insert" /\ at[c] \in Emails \ users
  /\ users' = users \cup {at[c]}
  /\ Goto(c, IF at[c] \in Operators THEN "factor" ELSE "look")
  /\ UNCHANGED <<mode, factors, rows, notes, at, todo, created, torn>>

InsertFactor(c) ==
  /\ step[c] = "factor" /\ factors' = factors \cup {at[c]} /\ Goto(c, "look")
  /\ UNCHANGED <<mode, users, rows, notes, at, todo, created, torn>>

\* The row with its history, in one transaction.
InsertRow(c) ==
  /\ step[c] = "insert" /\ at[c] \in References \ rows
  /\ rows' = rows \cup {at[c]} /\ created' = [created EXCEPT ![c] = @ \cup {at[c]}]
  /\ Goto(c, "look") /\ UNCHANGED <<mode, users, factors, notes, at, todo, torn>>

\* One note on a request of this run, then one on a message.
Annotate(c, kind, from, next) ==
  /\ step[c] = from /\ todo[c] = {} /\ Goto(c, next)
  /\ IF created[c] \cap kind = {} THEN UNCHANGED notes
     ELSE \E r \in created[c] \cap kind : notes' = Append(notes, r)
  /\ UNCHANGED <<mode, users, factors, rows, at, todo, created, torn>>

RunFails(c) ==
  /\ Under(c) /\ Goto(c, "failed")
  /\ torn' = IF step[c] = "factor" THEN torn \cup {at[c]} ELSE torn
  /\ UNCHANGED <<mode, database, at, todo, created>>

RunStep(c) == \/ Run(c) \/ Look(c) \/ InsertUser(c) \/ InsertFactor(c) \/ InsertRow(c)
              \/ Annotate(c, Requests, "look", "message") \/ Annotate(c, Messages, "message", "done")
              \/ RunFails(c)

Next == \E c \in Calls : RunStep(c)

Spec == Init /\ [][Next]_vars
-----------------------------------------------------------------------------
(* Properties.                                                             *)

\* Every table and run has its type.
TypeOK ==
  /\ mode \in {"development", "production"}
  /\ users \subseteq Emails /\ factors \subseteq Operators /\ torn \subseteq Operators
  /\ rows \subseteq References /\ notes \in Seq(References)
  /\ step \in [Calls -> Ended \cup {"look", "insert", "factor", "message"}]
  /\ at \in [Calls -> Emails \cup References \cup {Nothing}]
  /\ todo \in [Calls -> SUBSET (Emails \cup References)]
  /\ created \in [Calls -> SUBSET References]

\* "Idempotent : relancer le script ne duplique rien": there is a note on one request and
\* on one message at most, each of a run that inserted what it is about.
NotedOnce ==
  /\ \A kind \in {Requests, Messages} : \A i, j \in DOMAIN notes :
       {notes[i], notes[j]} \subseteq kind => i = j
  /\ \A i \in DOMAIN notes : notes[i] \in rows

\* A run that ends has filled the database, whatever runs before it have left, but for
\* the factor of an operator whose account was inserted by a run that died right after;
\* a production is left alone.
SeedIsWhole ==
  /\ mode = "production" => users = {} /\ rows = {} /\ notes = <<>>
  /\ (\E c \in Calls : step[c] = "done") =>
       users = Emails /\ rows = References /\ Operators \ factors \subseteq torn
=============================================================================
