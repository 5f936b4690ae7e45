-------------------------- MODULE ContactMessages --------------------------
(***************************************************************************)
(* Messages of the contact form: the page that posts them, the handler     *)
(* that keeps each once, and the officers who work through them.           *)
(*                                                                         *)
(* A page draws a key when it opens and after each 201; keys are named     *)
(* [page, draw].  What a message says is one of Texts.  The three places    *)
(* where a handler meets the database - search, transaction, second search *)
(* - are actions of their own; the transaction of an officer reads, then    *)
(* updates on condition, and is two.                                       *)
(***************************************************************************)
EXTENDS Naturals, Sequences, FiniteSets

CONSTANTS Pages, Calls, Rows, Officers, Texts,
          MaxDraws,    \* bound: keys a page draws
          MaxHistory,  \* bound: entries in the histories of the messages
          NoText, NoRow, NoCall

\* What the constants are; assumed where values are given.
ContactAssumption ==
  /\ MaxDraws \in Nat /\ MaxHistory \in Nat
  /\ NoText \notin Texts /\ NoRow \notin Rows /\ NoCall \notin Calls

VARIABLES
  message,   \* message[r]: a row of contact_messages
  history,   \* history[r]: contact_status_history, in commit order
  receipts,  \* receipts[r]: contact.created.receipt rows in the outbox
  form,      \* form[p]: the state of the page
  stage, post,  \* the statement a call is at, and the form it was posted
  editor,    \* editor[o]: the detail page officer o has open
  change     \* change[o]: the transaction of officer o

mailbox == <<message, history, receipts>>
handlers == <<stage, post>>
office == <<editor, change>>
vars == <<mailbox, form, handlers, office>>

ContactMessageStatuses ==
  {"new", "read", "in_progress", "replied", "closed", "archived", "spam"}

\* CONTACT_TRANSITIONS.
Transitions ==
  [new |-> {"read", "in_progress", "spam", "archived"},
   read |-> {"in_progress", "replied", "closed", "spam", "archived"},
   in_progress |-> {"replied", "closed", "spam", "archived"},
   replied |-> {"in_progress", "closed", "archived"},
   closed |-> {"in_progress", "archived"},
   archived |-> {"in_progress"},
   spam |-> {"new", "archived"}]

CanTransition(from, to) == to \in Transitions[from]

Keys == Pages \X (0..MaxDraws)
NoKey == <<"none", 0>>
Absent == [text |-> NoText, key |-> NoKey, status |-> "none", dates |-> {}]
NoPost == [page |-> NoCall, key |-> NoKey, text |-> NoText]
Closed == [row |-> NoRow, status |-> "none"]
NoChange == [row |-> NoRow, from |-> "none", to |-> "none"]
Entry(from, to) == [from |-> from, to |-> to]

Kept(r) == message[r].status # "none"

Init ==
  /\ message = [r \in Rows |-> Absent] /\ history = [r \in Rows |-> <<>>]
  /\ receipts = [r \in Rows |-> 0]
  /\ form = [p \in Pages |-> [text |-> NoText, draw |-> 0, call |-> NoCall, shown |-> NoRow]]
  /\ stage = [c \in Calls |-> "idle"] /\ post = [c \in Calls |-> NoPost]
  /\ editor = [o \in Officers |-> Closed] /\ change = [o \in Officers |-> NoChange]

-----------------------------------------------------------------------------
(* The page (ContactForm).                                                 *)

Type(p, t) ==
  /\ form[p].shown = NoRow /\ form[p].text # t
  /\ form' = [form EXCEPT ![p].text = t]
  /\ UNCHANGED <<mailbox, handlers, office>>

\* submit: one post at a time, under the key of the page.
Send(p, c) ==
  /\ form[p].shown = NoRow /\ form[p].call = NoCall /\ form[p].text # NoText
  /\ stage[c] = "idle"
  /\ form' = [form EXCEPT ![p].call = c]
  /\ stage' = [stage EXCEPT ![c] = "find"]
  /\ post' = [post EXCEPT ![c] = [page |-> p, key |-> <<p, form[p].draw>>, text |-> form[p].text]]
  /\ UNCHANGED <<mailbox, office>>

\* The connection breaks: the page lets the visitor try again.
GiveUp(p) ==
  /\ form[p].call # NoCall
  /\ form' = [form EXCEPT ![p].call = NoCall]
  /\ UNCHANGED <<mailbox, handlers, office>>

\* "Envoyer un autre message".
WriteAnother(p) ==
  /\ form[p].shown # NoRow
  /\ form' = [form EXCEPT ![p].shown = NoRow]
  /\ UNCHANGED <<mailbox, handlers, office>>

\* A 201 shows the reference and draws a new key; a 409 shows it and keeps the form.
Created(p, r) ==
  /\ form[p].draw < MaxDraws
  /\ form' = [form EXCEPT ![p] = [text |-> NoText, draw |-> @.draw + 1, call |-> NoCall, shown |-> r]]
AlreadyThere(p, r) == form' = [form EXCEPT ![p].call = NoCall, ![p].shown = r]
Failed(p) == form' = [form EXCEPT ![p].call = NoCall]

Return(c) == stage' = [stage EXCEPT ![c] = "idle"] /\ post' = [post EXCEPT ![c] = NoPost]

\* The handler answers; only a page that still waits for this call hears it.
Waited(c) == form[post[c].page].call = c
Unheard(c) == ~Waited(c) /\ form' = form

-----------------------------------------------------------------------------
(* POST /api/contact and createContactMessage.                             *)

Under(k) == {r \in Rows : Kept(r) /\ message[r].key = k}

\* Too many posts, a form filled too fast, a field refused, a robot: nothing is read.
Refused(c) ==
  /\ stage[c] = "find" /\ Return(c)
  /\ Unheard(c) \/ (Waited(c) /\ Failed(post[c].page))
  /\ UNCHANGED <<mailbox, office>>

\* findContactSubmission, before the transaction and after a conflict.
Find(c) ==
  LET found == Under(post[c].key) IN
  /\ stage[c] \in {"find", "conflict"}
  /\ IF found # {}
     THEN /\ Return(c)
          /\ Unheard(c) \/ (Waited(c) /\ \E r \in found : AlreadyThere(post[c].page, r))
     ELSE IF stage[c] = "find"
     THEN stage' = [stage EXCEPT ![c] = "insert"] /\ UNCHANGED <<post, form>>
     ELSE Return(c) /\ (Unheard(c) \/ (Waited(c) /\ Failed(post[c].page)))
  /\ UNCHANGED <<mailbox, office>>

\* Mutation: no unique index on submission_key.
KeyFreeAlways(k) == TRUE

KeyFree(k) == Under(k) = {}

\* The message, its first history entry and its receipt commit together; their
\* acknowledgement may be lost.
Insert(c) ==
  /\ stage[c] = "insert" /\ KeyFree(post[c].key)
  /\ \E r \in Rows :
       /\ ~Kept(r)
       /\ message' = [message EXCEPT ![r] = [text |-> post[c].text, key |-> post[c].key,
            status |-> "new", dates |-> {}]]
       /\ history' = [history EXCEPT ![r] = <<Entry("none", "new")>>]
       /\ receipts' = [receipts EXCEPT ![r] = @ + 1]
       /\ \/ Unheard(c)
          \/ Waited(c) /\ (Created(post[c].page, r) \/ Failed(post[c].page))
  /\ Return(c)
  /\ UNCHANGED office

\* The unique index refuses the key.
Conflict(c) ==
  /\ stage[c] = "insert" /\ ~KeyFree(post[c].key)
  /\ stage' = [stage EXCEPT ![c] = "conflict"]
  /\ UNCHANGED <<mailbox, form, post, office>>

\* The database is down: 503.
Fails(c) ==
  /\ stage[c] \in {"insert", "conflict"} /\ Return(c)
  /\ Unheard(c) \/ (Waited(c) /\ Failed(post[c].page))
  /\ UNCHANGED <<mailbox, office>>

-----------------------------------------------------------------------------
(* The detail page, its WorkflowEditor and changeContactStatus.            *)

Open(o) ==
  /\ change[o] = NoChange
  /\ \E r \in Rows :
       /\ Kept(r)
       /\ editor' = [editor EXCEPT ![o] = [row |-> r, status |-> message[r].status]]
  /\ editor' # editor
  /\ UNCHANGED <<mailbox, form, handlers, change>>

RoomForEntry == Cardinality(UNION {{r} \X DOMAIN history[r] : r \in Rows}) < MaxHistory

\* The officer picks a status the page offers, and the transaction reads the status
\* in force.  Who the message is assigned to is left out.
Save(o) ==
  LET r == editor[o].row IN
  /\ r # NoRow /\ change[o] = NoChange /\ RoomForEntry
  /\ \E to \in {editor[o].status} \cup Transitions[editor[o].status] :
       /\ message[r].status = to \/ CanTransition(message[r].status, to)
       /\ change' = [change EXCEPT ![o] = [row |-> r, from |-> message[r].status, to |-> to]]
  /\ UNCHANGED <<mailbox, form, handlers, editor>>

Unmoved(m) == message[m.row].status = m.from

\* read_at, replied_at and archived_at.
DatesOf(m) == {d \in {"read", "replied", "archived"} :
  \/ d = "read" /\ m.from = "new" /\ m.to # "new"
  \/ d # "read" /\ m.to = d}

Apply(o) ==
  LET m == change[o] IN
  /\ m # NoChange /\ Unmoved(m)
  /\ message' = [message EXCEPT ![m.row].status = m.to,
                                ![m.row].dates = @ \cup DatesOf(m)]
  /\ history' = [history EXCEPT ![m.row] = IF m.from = m.to THEN @ ELSE Append(@, Entry(m.from, m.to))]
  /\ change' = [change EXCEPT ![o] = NoChange]
  /\ editor' \in {editor, [editor EXCEPT ![o] = [row |-> m.row, status |-> m.to]]}
  /\ UNCHANGED <<receipts, form, handlers>>

\* CONTACT_CONFLICT, or the transaction is rolled back.
ApplyFails(o) ==
  /\ change[o] # NoChange
  /\ change' = [change EXCEPT ![o] = NoChange]
  /\ UNCHANGED <<mailbox, form, handlers, editor>>

Page(p) == \/ \E t \in Texts : Type(p, t)
           \/ \E c \in Calls : Send(p, c)
           \/ GiveUp(p) \/ WriteAnother(p)
Handler(c) == Refused(c) \/ Find(c) \/ Insert(c) \/ Conflict(c) \/ Fails(c)
Officer(o) == Open(o) \/ Save(o) \/ Apply(o) \/ ApplyFails(o)

Next == \/ \E p \in Pages : Page(p)
        \/ \E c \in Calls : Handler(c)
        \/ \E o \in Officers : Officer(o)

Spec == Init /\ [][Next]_vars
-----------------------------------------------------------------------------
(* Properties.                                                             *)

RowStatuses == ContactMessageStatuses \cup {"none"}

\* Every row, page, call and transaction has its type.
TypeOK ==
  /\ message \in [Rows -> [text : Texts \cup {NoText}, key : Keys \cup {NoKey}, status : RowStatuses,
                         dates : SUBSET {"read", "replied", "archived"}]]
  /\ history \in [Rows -> Seq([from : RowStatuses, to : ContactMessageStatuses])]
  /\ receipts \in [Rows -> Nat]
  /\ form \in [Pages -> [text : Texts \cup {NoText}, draw : 0..MaxDraws,
                         call : Calls \cup {NoCall}, shown : Rows \cup {NoRow}]]
  /\ stage \in [Calls -> {"idle", "find", "insert", "conflict"}]
  /\ post \in [Calls -> [page : Pages \cup {NoCall}, key : Keys \cup {NoKey}, text : Texts \cup {NoText}]]
  /\ editor \in [Officers -> [row : Rows \cup {NoRow}, status : RowStatuses]]
  /\ change \in [Officers -> [row : Rows \cup {NoRow}, from : RowStatuses, to : RowStatuses]]

\* However often a page posts, however late its calls and their answers are, a key
\* keeps one message with one receipt, and a page that shows a reference shows one
\* that is kept under a key it drew.
KeptOnce ==
  /\ \A r \in Rows : receipts[r] = IF Kept(r) THEN 1 ELSE 0
  /\ \A r, s \in Rows : Kept(r) /\ Kept(s) /\ message[r].key = message[s].key => r = s
  /\ \A p \in Pages : form[p].shown # NoRow =>
       Kept(form[p].shown) /\ message[form[p].shown].key[1] = p

\* The history of a message is a walk along the declared transitions that ends at
\* its status, and its dates are those of the walk: read when it left "new",
\* replied or archived when it was.
HistoryTellsMessage ==
  \A r \in Rows : Kept(r) =>
    LET h == history[r] IN
    /\ Len(h) > 0 /\ h[1] = Entry("none", "new") /\ h[Len(h)].to = message[r].status
    /\ \A k \in 2..Len(h) : h[k].from = h[k - 1].to /\ CanTransition(h[k].from, h[k].to)
    /\ message[r].dates = UNION {DatesOf(h[k]) : k \in 1..Len(h)}
=============================================================================
