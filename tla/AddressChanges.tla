--------------------------- MODULE AddressChanges ---------------------------
(***************************************************************************)
(* The change of the e-mail address of an account: a signed-in client asks *)
(* for it, a link goes to the new mailbox, and its confirmation moves the   *)
(* account.  Accounts register and are disabled meanwhile.                 *)
(*                                                                         *)
(* A transaction is two actions.  That of a request locks the links it     *)
(* supersedes, then adds its own; that of a confirmation locks its link,   *)
(* then moves the account.                                                 *)
(***************************************************************************)
EXTENDS Naturals, FiniteSets

CONSTANTS Accounts, Addresses, Sessions,
          Calls,      \* handlers alive at one time
          Links,      \* identifiers of rows of email_change_requests
          Nobody, NoAddress

\* What the constants are; assumed where values are given.
AddressAssumption ==
  /\ Nobody \notin Accounts /\ NoAddress \notin Addresses

VARIABLES
  address,  \* address[u]: normalized_email, NoAddress before the registration
  active,   \* accounts whose status is active
  session,  \* session[s]: the account of an open session
  link,     \* link[l]: a row of email_change_requests
  step,     \* step[c]: the statement call c is at
  read,     \* read[c]: what it has read
  owned     \* history: owned[u], addresses u registered with or confirmed

accounts == <<address, active>>
calls == <<step, read>>
vars == <<accounts, session, link, calls, owned>>

Unused == [state |-> "none", user |-> Nobody, to |-> NoAddress]
Rest == [user |-> Nobody, to |-> NoAddress, links |-> {}]

Init ==
  /\ address = [u \in Accounts |-> NoAddress] /\ active = {}
  /\ session = [s \in Sessions |-> Nobody]
  /\ link = [l \in Links |-> Unused]
  /\ step = [c \in Calls |-> "idle"] /\ read = [c \in Calls |-> Rest]
  /\ owned = [u \in Accounts |-> {}]

Goto(c, at, known) == step' = [step EXCEPT ![c] = at] /\ read' = [read EXCEPT ![c] = known]
Return(c) == Goto(c, "idle", Rest)

\* Mutation: no unique index on normalized_email.
HolderNone(a) == {}

Holder(a) == {u \in Accounts : address[u] = a}

\* A registration that has been verified.
Register(u, a) ==
  /\ address[u] = NoAddress /\ Holder(a) = {}
  /\ address' = [address EXCEPT ![u] = a] /\ active' = active \cup {u}
  /\ owned' = [owned EXCEPT ![u] = {a}]
  /\ UNCHANGED <<session, link, calls>>

\* The office disables the account, or enables it.
OfficeDecides(u) ==
  /\ address[u] # NoAddress
  /\ active' = IF u \in active THEN active \ {u} ELSE active \cup {u}
  /\ session' = [s \in Sessions |-> IF session[s] = u THEN Nobody ELSE session[s]]
  /\ UNCHANGED <<address, link, calls, owned>>

Login(s, u) ==
  /\ session[s] = Nobody /\ u \in active
  /\ session' = [session EXCEPT ![s] = u]
  /\ UNCHANGED <<accounts, link, calls, owned>>

-----------------------------------------------------------------------------
(* POST /api/auth/change-email and requestEmailChange.                     *)

\* The session is open and the client authenticates again.
Ask(c, s, a) ==
  /\ step[c] = "idle" /\ session[s] # Nobody /\ address[session[s]] # a
  /\ Goto(c, "look", [Rest EXCEPT !.user = session[s], !.to = a])
  /\ UNCHANGED <<accounts, session, link, owned>>

\* An address some account holds is refused.
LookUp(c) ==
  /\ step[c] = "look"
  /\ IF Holder(read[c].to) = {} THEN Goto(c, "supersede", read[c]) ELSE Return(c)
  /\ UNCHANGED <<accounts, session, link, owned>>

\* uq_pending_email_change: one unconfirmed row for an address.
Pending(a) == {l \in Links : link[l].to = a /\ link[l].state \in {"live", "expired"}}

\* A row some transaction has updated and not yet committed.
Locked(l) == \E c \in Calls : l \in read[c].links

\* The links of the account that are live expire.
SupersedeLinks(c) ==
  LET live == {l \in Links : link[l].user = read[c].user /\ link[l].state = "live"} IN
  /\ step[c] = "supersede" /\ \A l \in live : ~Locked(l)
  /\ Goto(c, "insert", [read[c] EXCEPT !.links = live])
  /\ UNCHANGED <<accounts, session, link, owned>>

InsertLink(c) ==
  /\ step[c] = "insert" /\ Pending(read[c].to) = {}
  /\ \E l \in Links :
       /\ link[l] = Unused
       /\ link' = [k \in Links |->
            IF k = l THEN [state |-> "live", user |-> read[c].user, to |-> read[c].to]
            ELSE IF k \in read[c].links THEN [link[k] EXCEPT !.state = "expired"] ELSE link[k]]
  /\ Return(c)
  /\ UNCHANGED <<accounts, session, owned>>

\* EMAIL_CONFLICT: the index refuses the row, and nothing is written.
InsertRefused(c) ==
  /\ step[c] = "insert" /\ Pending(read[c].to) # {}
  /\ Return(c)
  /\ UNCHANGED <<accounts, session, link, owned>>

\* Thirty minutes go by.
Expire(l) ==
  /\ link[l].state = "live"
  /\ link' = [link EXCEPT ![l].state = "expired"]
  /\ UNCHANGED <<accounts, session, calls, owned>>

-----------------------------------------------------------------------------
(* POST /api/auth/change-email/confirm and confirmEmailChange.             *)

\* The link is spent once, for an account in force.
SpendLink(c, l) ==
  LET u == link[l].user IN
  /\ step[c] = "idle" /\ link[l].state = "live" /\ ~Locked(l)
  /\ u \in active
  /\ Goto(c, "move", [user |-> u, to |-> link[l].to, links |-> {l}])
  /\ UNCHANGED <<accounts, session, link, owned>>

\* The account moves and its sessions close; both mailboxes are told by the outbox.
MoveAccount(c) ==
  LET u == read[c].user
      a == read[c].to
  IN
  /\ step[c] = "move" /\ Holder(a) \subseteq {u}
  /\ address' = [address EXCEPT ![u] = a]
  /\ link' = [l \in Links |-> IF l \in read[c].links THEN [link[l] EXCEPT !.state = "confirmed"] ELSE link[l]]
  /\ session' = [s \in Sessions |-> IF session[s] = u THEN Nobody ELSE session[s]]
  /\ owned' = [owned EXCEPT ![u] = @ \cup {a}]
  /\ Return(c)
  /\ UNCHANGED active

\* The address has been taken meanwhile, a statement fails, the process dies.
CallDies(c) ==
  /\ step[c] # "idle"
  /\ Return(c)
  /\ UNCHANGED <<accounts, session, link, owned>>

Next ==
  \/ \E u \in Accounts : OfficeDecides(u) \/ \E a \in Addresses : Register(u, a)
  \/ \E s \in Sessions, u \in Accounts : Login(s, u)
  \/ \E l \in Links : Expire(l)
  \/ \E c \in Calls : \/ \E s \in Sessions, a \in Addresses : Ask(c, s, a)
                      \/ LookUp(c) \/ SupersedeLinks(c) \/ InsertLink(c) \/ InsertRefused(c) \/ CallDies(c)
                      \/ \E l \in Links : SpendLink(c, l)
                      \/ MoveAccount(c)

Spec == Init /\ [][Next]_vars
-----------------------------------------------------------------------------
(* Properties.                                                             *)

Known == Addresses \cup {NoAddress}

\* Every account, session, link and call has its type.
TypeOK ==
  /\ address \in [Accounts -> Known] /\ active \subseteq Accounts
  /\ session \in [Sessions -> Accounts \cup {Nobody}]
  /\ link \in [Links -> [state : {"none", "live", "expired", "confirmed"},
                         user : Accounts \cup {Nobody}, to : Known]]
  /\ step \in [Calls -> {"idle", "look", "supersede", "insert", "move"}]
  /\ read \in [Calls -> [user : Accounts \cup {Nobody}, to : Known,
                         links : SUBSET Links]]
  /\ owned \in [Accounts -> SUBSET Known]

\* An account is at an address of its own, which it registered with or whose mailbox
\* confirmed a link, whatever other accounts do between the request and the click.
AddressesAreProved ==
  /\ \A u, v \in Accounts : address[u] # NoAddress /\ address[u] = address[v] => u = v
  /\ \A u \in Accounts : address[u] # NoAddress =>
       \/ owned[u] = {address[u]}
       \/ \E l \in Links : link[l] = [state |-> "confirmed", user |-> u, to |-> address[u]]

\* "Un token valable trente minutes part vers la nouvelle adresse": an address no
\* account holds, and that no link still valid is waiting for, is not refused.
RefusedMeansTaken ==
  [][\A c \in Calls : (step[c] = "insert" /\ step'[c] = "idle" /\ link' = link) =>
       \/ Holder(read[c].to) # {}
       \/ \E l \in Pending(read[c].to) : link[l].state # "expired"]_vars
=============================================================================
