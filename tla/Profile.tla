------------------------------- MODULE Profile -------------------------------
(***************************************************************************)
(* The page of a client's own particulars: a form that is filled once and  *)
(* sends the telephone always and a name when there is one, and the        *)
(* handler that sets the columns it was given.  Answers are late or lost,  *)
(* and a second page may be open beside the first.                         *)
(***************************************************************************)
EXTENDS Naturals

CONSTANTS Pages, Calls, Phones, Names,
          Empty,     \* an empty field, and a column that is null
          NoCall,
          MaxSent    \* bound: requests sent

\* What the constants are; assumed where values are given.
ProfileAssumption ==
  /\ Empty \notin Phones \cup Names /\ NoCall \notin Calls /\ MaxSent \in Nat

VARIABLES
  user,      \* phone and name of the row of users
  form,      \* form[p]: what the fields of a page hold
  saving,    \* saving[p]: the call a page waits for, or NoCall
  feedback,  \* feedback[p]: "none", "saved" or "failed"
  call,      \* call[c]: step, page, form as it was sent, and number of a request
  sent,      \* history: requests sent
  told,      \* history: told[p], the request the feedback of a page is about
  written    \* history: the number of the request that wrote the row last

pages == <<form, saving, feedback, told>>
vars == <<user, pages, call, sent, written>>

Form == [phone : Phones \cup {Empty}, name : Names \cup {Empty}]
Request == [form : Form, number : 0..MaxSent]
Blank == [form |-> [phone |-> Empty, name |-> Empty], number |-> 0]
Idle == [step |-> "idle", page |-> NoCall, request |-> Blank]

\* A page is filled when it is opened, and not again: router.refresh leaves its fields.
Init ==
  /\ user \in Form
  /\ form = [p \in Pages |-> user] /\ saving = [p \in Pages |-> NoCall]
  /\ feedback = [p \in Pages |-> "none"] /\ told = [p \in Pages |-> Blank]
  /\ call = [c \in Calls |-> Idle] /\ sent = 0 /\ written = 0

-----------------------------------------------------------------------------
(* The page.                                                               *)

Type(p) ==
  /\ \/ \E v \in Phones \cup {Empty} : form' = [form EXCEPT ![p].phone = v]
     \/ \E v \in Names \cup {Empty} : form' = [form EXCEPT ![p].name = v]
  /\ UNCHANGED <<user, saving, feedback, told, call, sent, written>>

\* The page is opened again.
Reload(p) ==
  /\ saving[p] = NoCall
  /\ form' = [form EXCEPT ![p] = user] /\ feedback' = [feedback EXCEPT ![p] = "none"]
  /\ UNCHANGED <<user, saving, told, call, sent, written>>

Submit(p, c) ==
  /\ saving[p] = NoCall /\ call[c] = Idle /\ sent < MaxSent
  /\ sent' = sent + 1
  /\ call' = [call EXCEPT ![c] = [step |-> "handler", page |-> p,
                                  request |-> [form |-> form[p], number |-> sent + 1]]]
  /\ saving' = [saving EXCEPT ![p] = c] /\ feedback' = [feedback EXCEPT ![p] = "none"]
  /\ UNCHANGED <<user, form, told, written>>

Heard(p, outcome) ==
  /\ saving' = [saving EXCEPT ![p] = NoCall] /\ feedback' = [feedback EXCEPT ![p] = outcome]

\* "Modification non enregistree : le serveur est injoignable", as far as the page knows.
GiveUp(p) ==
  /\ saving[p] # NoCall /\ Heard(p, "failed")
  /\ UNCHANGED <<user, form, told, call, sent, written>>

Answer(c) ==
  LET p == call[c].page IN
  /\ call[c].step \in {"saved", "failed"} /\ call' = [call EXCEPT ![c] = Idle]
  /\ IF saving[p] = c
     THEN Heard(p, call[c].step) /\ told' = [told EXCEPT ![p] = call[c].request]
     ELSE UNCHANGED <<saving, feedback, told>>
  /\ UNCHANGED <<user, form, sent, written>>

-----------------------------------------------------------------------------
(* The handler.                                                            *)

\* An empty telephone erases the number; a name that is not sent stays.
Updated(row, f) == [phone |-> f.phone, name |-> IF f.name = Empty THEN row.name ELSE f.name]

UpdateProfile(c) ==
  /\ call[c].step = "handler"
  /\ user' = Updated(user, call[c].request.form) /\ written' = call[c].request.number
  /\ call' = [call EXCEPT ![c].step = "saved"] /\ UNCHANGED <<pages, sent>>

\* No session, a quota, a body the schema refuses, a database that does not answer.
HandlerFails(c) ==
  /\ call[c].step = "handler" /\ call' = [call EXCEPT ![c].step = "failed"]
  /\ UNCHANGED <<user, pages, sent, written>>

Next == \/ \E p \in Pages : Type(p) \/ Reload(p) \/ GiveUp(p) \/ \E c \in Calls : Submit(p, c)
        \/ \E c \in Calls : UpdateProfile(c) \/ HandlerFails(c) \/ Answer(c)

Spec == Init /\ [][Next]_vars
-----------------------------------------------------------------------------
(* Properties.                                                             *)

\* The row, the pages and the requests have their types.
TypeOK ==
  /\ user \in Form
  /\ form \in [Pages -> Form] /\ told \in [Pages -> Request]
  /\ saving \in [Pages -> Calls \cup {NoCall}] /\ feedback \in [Pages -> {"none", "saved", "failed"}]
  /\ call \in [Calls -> [step : {"idle", "handler", "saved", "failed"},
                         page : Pages \cup {NoCall}, request : Request]]
  /\ {sent, written} \subseteq 0..MaxSent

\* "Un profil qui parait enregistre sans l'etre": what a page calls saved is in the row,
\* until a request that came after it, of this page or another, has written it again.
\* A name that was emptied is not.
SavedIsStored ==
  \A p \in Pages : feedback[p] = "saved" /\ written = told[p].number =>
    LET f == told[p].form IN
    user.phone = f.phone /\ f.name \in {user.name, Empty}
=============================================================================
