--------------------------- MODULE QuoteDecisions ---------------------------
(***************************************************************************)
(* The decision of a client on a quote: two handlers, for the two buttons, *)
(* that look the quote up, judge what they have read, and write under the  *)
(* condition that the quote is still sent.  Nothing in the program writes   *)
(* quotes yet: what the office does with one is taken from the transitions  *)
(* its states declare.                                                     *)
(***************************************************************************)
EXTENDS Naturals, Sequences

CONSTANTS Calls,       \* handlers
          Users, RoleOf, Owner,
          MaxTime,     \* bound of the clock
          ValidUntil,  \* last instant the quote can be accepted
          NoUser, NoTime

DecisionAssumption ==
  /\ RoleOf \in [Users -> {"client", "staff", "admin"}]
  /\ Owner \in Users /\ NoUser \notin Users
  /\ MaxTime \in Nat /\ ValidUntil \in Nat /\ NoTime \notin 0..MaxTime

QuoteStates == {"draft", "sent", "accepted", "refused", "expired"}
Decisions == {"accept", "refuse"}

QuoteTransitions == [draft    |-> {"sent", "expired"},
                     sent     |-> {"accepted", "refused", "expired"},
                     accepted |-> {}, refused |-> {}, expired |-> {}]

CanTransitionQuote(from, to) == to \in QuoteTransitions[from]
IsQuoteAcceptable(state, time) == CanTransitionQuote(state, "accepted") /\ time <= ValidUntil

TargetStatus == [accept |-> "accepted", refuse |-> "refused"]

VARIABLES
  status, signedAt,     \* the row of the quote
  now,
  handlers,             \* a record per call: step, decision, user, and the status read
  decided               \* the decisions answered with success, with their time

vars == <<status, signedAt, now, handlers, decided>>

Idle == [step |-> "idle", user |-> NoUser, decision |-> "accept", read |-> "draft", at |-> 0]

Init == /\ status \in {"draft", "sent"} /\ signedAt = NoTime
        /\ now = 0
        /\ handlers = [c \in Calls |-> Idle]
        /\ decided = <<>>

Return(c) == handlers' = [handlers EXCEPT ![c] = Idle]

\* A button: the session is valid and the quota leaves room.
Ask(c) ==
  /\ handlers[c].step = "idle"
  /\ \E u \in Users, d \in Decisions :
       handlers' = [handlers EXCEPT ![c] = [Idle EXCEPT !.step = "find", !.user = u, !.decision = d]]
  /\ UNCHANGED <<status, signedAt, now, decided>>

\* can: the office may, a client may on what is his own.
Can(u) == RoleOf[u] \in {"staff", "admin"} \/ u = Owner

FindQuote(c) ==
  /\ handlers[c].step = "find"
  /\ IF Can(handlers[c].user)
     THEN handlers' = [handlers EXCEPT ![c].step = "judge", ![c].read = status]
     ELSE Return(c)
  /\ UNCHANGED <<status, signedAt, now, decided>>

\* What was read may be decided, at the time it is now.
Judged(h) == /\ CanTransitionQuote(h.read, TargetStatus[h.decision])
             /\ h.decision = "accept" => IsQuoteAcceptable(h.read, now)

Judge(c) ==
  /\ handlers[c].step = "judge"
  /\ IF Judged(handlers[c])
     THEN handlers' = [handlers EXCEPT ![c].step = "decide", ![c].at = now]
     ELSE Return(c)
  /\ UNCHANGED <<status, signedAt, now, decided>>

\* Mutation: the update does not ask for the status again.
DecidableAlways == TRUE

Decidable == status = "sent"

Decide(c) ==
  LET h == handlers[c] IN
  /\ h.step = "decide"
  /\ IF Decidable
     THEN /\ status' = TargetStatus[h.decision]
          /\ signedAt' = IF h.decision = "accept" THEN h.at ELSE signedAt
          /\ decided' = Append(decided, h.decision)
     ELSE UNCHANGED <<status, signedAt, decided>>
  /\ Return(c)
  /\ UNCHANGED now

\* The office sends a quote, or a quote runs out.
OfficeMoves ==
  /\ \E to \in {"sent", "expired"} : CanTransitionQuote(status, to) /\ status' = to
  /\ UNCHANGED <<signedAt, now, handlers, decided>>

Tick == /\ now < MaxTime /\ now' = now + 1
        /\ UNCHANGED <<status, signedAt, handlers, decided>>

Next == \/ \E c \in Calls : Ask(c) \/ FindQuote(c) \/ Judge(c) \/ Decide(c)
        \/ OfficeMoves \/ Tick

Spec == Init /\ [][Next]_vars
-----------------------------------------------------------------------------
(* Properties.                                                             *)

Handler == [step : {"idle", "find", "judge", "decide"}, user : Users \cup {NoUser},
            decision : Decisions, read : QuoteStates, at : 0..MaxTime]

\* The quote and the handlers are well typed.
TypeOK == /\ status \in QuoteStates /\ signedAt \in 0..MaxTime \cup {NoTime}
          /\ now \in 0..MaxTime
          /\ handlers \in [Calls -> Handler]
          /\ decided \in Seq(Decisions)

\* "Deux requetes simultanees ne peuvent pas trancher deux fois le meme devis": one
\* decision at most was ever answered with success, it is the one the quote shows,
\* and a signature stands on accepted quotes only, dated within their validity.
DecidedOnce ==
  /\ Len(decided) <= 1
  /\ status = "accepted" <=> decided = <<"accept">>
  /\ status = "refused" <=> decided = <<"refuse">>
  /\ signedAt # NoTime <=> status = "accepted"
  /\ signedAt # NoTime => signedAt <= ValidUntil
=============================================================================
