--------------------------- MODULE QuoteRequests ---------------------------
(***************************************************************************)
(* The life of a quote request: the wizard that saves a draft and submits  *)
(* it, the two request handlers behind it, the office and the client who   *)
(* move it, and the purge of abandoned drafts.                             *)
(*                                                                         *)
(* A page is one opening of the wizard.  It draws its submission key once, *)
(* so keys are named by pages.  A call is one execution of a handler: it   *)
(* goes on when its page has stopped waiting.  A database statement or a   *)
(* transaction is one action; what a handler read stays in its call until  *)
(* it writes.  Files are the subject of PrivateUploads.                    *)
(***************************************************************************)
EXTENDS Naturals, Sequences, FiniteSets, RequestWorkflow

CONSTANTS Requests,    \* identifiers of rows of quote_requests, never reused
          Pages,       \* openings of the wizard
          Calls,       \* handler executions alive at one time
          Officers,    \* executions of the office's status handler
          Clients,     \* client accounts
          UserOf,      \* UserOf[p]: the account signed in, if any, behind page p
          MaxHistory,  \* bound: entries in the history of a row
          Nobody, NoRequest, NoPage, NoCall

ASSUME QuoteAssumption ==
  /\ UserOf \in [Pages -> Clients]
  /\ MaxHistory \in Nat
  /\ Nobody \notin Clients
  /\ NoRequest \notin Requests
  /\ NoPage \notin Pages
  /\ NoCall \notin Calls
  /\ Officers \cap Clients = {}

VARIABLES
  status,       \* status[r]: "none" before the row, "deleted" after it
  key,          \* key[r]: submission_key, unique over the rows
  owner,        \* owner[r]: user_id
  submittedAt,  \* submittedAt[r]: are submitted_at and the consent recorded?
  stale,        \* stale[r]: was updated_at 30 days ago?
  history,      \* history[r]: quote_status_history, in commit order
  receipts,     \* receipts[r]: receipt rows in the outbox
  notices,      \* notices[r]: status_changed rows in the outbox, in order
  pc,           \* pc[c]: the statement call c is at
  req,          \* req[c]: what call c was asked, and by whom
  session,      \* session[p]: does the cookie of page p open a session?
  drafts,       \* drafts[p]: "loading", "on" or "off" (draftsEnabled)
  draftId,      \* draftId[p]: the draft page p works on
  ready,        \* ready[p]: has page p reached the last step of the form?
  waiting,      \* waiting[p]: the submission page p waits for
  told,         \* told[p]: the answer the page was left with
  move          \* move[a]: the status change an officer or a client has read for

rowVars == <<status, key, owner, submittedAt, stale, history, receipts, notices>>
pageVars == <<session, drafts, draftId, ready, waiting, told>>
vars == <<rowVars, pc, req, pageVars, move>>

Live(r) == status[r] \in QuoteRequestStatuses
Entry(from, to, by) == [from |-> from, to |-> to, by |-> by]
NoReq == [page |-> NoPage, user |-> Nobody, draft |-> NoRequest]
NoMove == [request |-> NoRequest, from |-> "none", to |-> "none"]
Movers == Officers \cup Clients

Init ==
  /\ status = [r \in Requests |-> "none"]
  /\ key = [r \in Requests |-> NoPage]
  /\ owner = [r \in Requests |-> Nobody]
  /\ submittedAt = [r \in Requests |-> FALSE]
  /\ stale = [r \in Requests |-> FALSE]
  /\ history = [r \in Requests |-> <<>>]
  /\ receipts = [r \in Requests |-> 0]
  /\ notices = [r \in Requests |-> <<>>]
  /\ pc = [c \in Calls |-> "idle"]
  /\ req = [c \in Calls |-> NoReq]
  /\ session \in [Pages -> BOOLEAN]
  /\ drafts = [p \in Pages |-> "loading"]
  /\ draftId = [p \in Pages |-> NoRequest]
  /\ ready = [p \in Pages |-> FALSE]
  /\ waiting = [p \in Pages |-> NoCall]
  /\ told = [p \in Pages |-> "form"]
  /\ move = [a \in Movers |-> NoMove]

-----------------------------------------------------------------------------
(* The wizard (useQuoteWizard, useServerQuoteDraft).                       *)

Open(p) == told[p] = "form"

\* The client signs in or out, or the session ends.
SessionChanges(p) ==
  /\ session' = [session EXCEPT ![p] = ~@]
  /\ UNCHANGED <<rowVars, pc, req, drafts, draftId, ready, waiting, told, move>>

\* The drafts of a client that were touched in the last 30 days; which of several is
\* the latest is left open.
LatestDrafts(user) == {r \in Requests : status[r] = "draft" /\ ~stale[r] /\ owner[r] = user}

\* GET /api/devis/draft answers the page: the latest draft of the client, if any.  A
\* draft with its place filled in takes the page to the last step.
LoadDraft(p) ==
  LET mine == LatestDrafts(UserOf[p]) IN
  /\ Open(p) /\ drafts[p] = "loading"
  /\ IF session[p]
     THEN /\ drafts' = [drafts EXCEPT ![p] = "on"]
          /\ IF mine = {} THEN UNCHANGED <<draftId, ready>>
             ELSE /\ \E r \in mine : draftId' = [draftId EXCEPT ![p] = r]
                  /\ ready' \in {ready, [ready EXCEPT ![p] = TRUE]}
     ELSE drafts' = [drafts EXCEPT ![p] = "off"] /\ UNCHANGED <<draftId, ready>>
  /\ UNCHANGED <<rowVars, pc, req, session, waiting, told, move>>

\* The form is walked through without saving drafts.
FillIn(p) ==
  /\ Open(p) /\ drafts[p] # "on" /\ ~ready[p]
  /\ ready' = [ready EXCEPT ![p] = TRUE]
  /\ UNCHANGED <<rowVars, pc, req, session, drafts, draftId, waiting, told, move>>

\* A step is left: POST /api/devis/draft, and the page stays there until a save
\* succeeds.
SendDraft(p, c) ==
  /\ Open(p) /\ drafts[p] = "on" /\ pc[c] = "idle"
  /\ pc' = [pc EXCEPT ![c] = "save"]
  /\ req' = [req EXCEPT ![c] = [page |-> p, user |-> Nobody, draft |-> draftId[p]]]
  /\ ready' = [ready EXCEPT ![p] = FALSE]
  /\ UNCHANGED <<rowVars, session, drafts, draftId, waiting, told, move>>

\* The form is sent: POST /api/devis.  The page waits for one submission at a time.
SendForm(p, c) ==
  /\ Open(p) /\ ready[p] /\ waiting[p] = NoCall /\ pc[c] = "idle"
  /\ pc' = [pc EXCEPT ![c] = "find"]
  /\ req' = [req EXCEPT ![c] = [page |-> p, draft |-> draftId[p],
                                user |-> IF session[p] THEN UserOf[p] ELSE Nobody]]
  /\ waiting' = [waiting EXCEPT ![p] = c]
  /\ UNCHANGED <<rowVars, session, drafts, draftId, ready, told, move>>

\* The connection breaks: the page shows an error and lets the client try again.
GiveUp(p) ==
  /\ waiting[p] # NoCall
  /\ waiting' = [waiting EXCEPT ![p] = NoCall]
  /\ UNCHANGED <<rowVars, pc, req, session, drafts, draftId, ready, told, move>>

\* Call c ends.
Return(c) == /\ pc' = [pc EXCEPT ![c] = "idle"]
             /\ req' = [req EXCEPT ![c] = NoReq]

\* The submission handler answers; only a page still waiting hears it.  The form
\* stays on an error, is replaced by the thank-you page on 201 and on 409.
Answer(c, answer) ==
  LET p == req[c].page IN
  /\ Return(c)
  /\ IF waiting[p] = c
     THEN /\ waiting' = [waiting EXCEPT ![p] = NoCall]
          /\ told' = [told EXCEPT ![p] = IF answer = "error" THEN "form" ELSE answer]
     ELSE UNCHANGED <<waiting, told>>
  /\ UNCHANGED <<session, drafts, draftId, ready>>

-----------------------------------------------------------------------------
(* saveQuoteDraft, deleteQuoteDraft and cleanup-expired-drafts.            *)

KeyTaken(p) == \E r \in Requests : Live(r) /\ key[r] = p
OwnDraft(r, user) == r # NoRequest /\ status[r] = "draft" /\ owner[r] = user

\* A new row, with the first entry of its history.
InsertRow(r, p, user, to, by) ==
  /\ status' = [status EXCEPT ![r] = to]
  /\ key' = [key EXCEPT ![r] = p]
  /\ owner' = [owner EXCEPT ![r] = user]
  /\ history' = [history EXCEPT ![r] = <<Entry("none", to, by)>>]

\* The answer to a save reaches the page, or is lost on the way.
DraftAnswer(p, r) ==
  \/ /\ Open(p)
     /\ draftId' = [draftId EXCEPT ![p] = r]
     /\ ready' = [ready EXCEPT ![p] = TRUE]
  \/ UNCHANGED <<draftId, ready>>

SaveUpdates(c) ==
  LET p == req[c].page
      r == req[c].draft
  IN
  /\ pc[c] = "save" /\ session[p]
  /\ OwnDraft(r, UserOf[p])
  /\ stale' = [stale EXCEPT ![r] = FALSE]
  /\ DraftAnswer(p, r)
  /\ Return(c)
  /\ UNCHANGED <<status, key, owner, submittedAt, history, receipts, notices,
                 session, drafts, waiting, told, move>>

SaveCreates(c) ==
  LET p == req[c].page IN
  /\ pc[c] = "save" /\ session[p]
  /\ req[c].draft = NoRequest
  /\ ~KeyTaken(p)
  /\ \E r \in Requests :
       /\ status[r] = "none"
       /\ InsertRow(r, p, UserOf[p], "draft", "client")
       /\ DraftAnswer(p, r)
  /\ Return(c)
  /\ UNCHANGED <<submittedAt, stale, receipts, notices, session, drafts, waiting, told, move>>

\* No session: the page stops saving drafts if it hears the 401.  The draft is
\* gone, the key is taken, or the database is down: nothing is written.
SaveRefused(c) ==
  LET p == req[c].page IN
  /\ pc[c] = "save"
  /\ \/ UNCHANGED <<drafts, ready>>
     \/ /\ ~session[p] /\ Open(p)
        /\ drafts' = [drafts EXCEPT ![p] = "off"]
        /\ ready' = [ready EXCEPT ![p] = TRUE]
  /\ Return(c)
  /\ UNCHANGED <<rowVars, session, draftId, waiting, told, move>>

\* DELETE of rows in draft; attachments and history cascade.
RemoveRows(rows) ==
  /\ status' = [r \in Requests |-> IF r \in rows THEN "deleted" ELSE status[r]]
  /\ key' = [r \in Requests |-> IF r \in rows THEN NoPage ELSE key[r]]
  /\ owner' = [r \in Requests |-> IF r \in rows THEN Nobody ELSE owner[r]]
  /\ submittedAt' = [r \in Requests |-> IF r \in rows THEN FALSE ELSE submittedAt[r]]
  /\ stale' = [r \in Requests |-> IF r \in rows THEN FALSE ELSE stale[r]]
  /\ history' = [r \in Requests |-> IF r \in rows THEN <<>> ELSE history[r]]
  /\ UNCHANGED <<receipts, notices>>

DeleteDraft(p) ==
  LET r == draftId[p] IN
  /\ Open(p) /\ session[p]
  /\ OwnDraft(r, UserOf[p])
  /\ RemoveRows({r})
  /\ \/ UNCHANGED <<draftId, ready>>
     \/ /\ draftId' = [draftId EXCEPT ![p] = NoRequest]
        /\ ready' = [ready EXCEPT ![p] = FALSE]
  /\ UNCHANGED <<pc, req, session, drafts, waiting, told, move>>

\* Thirty days go by without a change to the row.
Age(r) ==
  /\ status[r] = "draft" /\ ~stale[r]
  /\ stale' = [stale EXCEPT ![r] = TRUE]
  /\ UNCHANGED <<status, key, owner, submittedAt, history, receipts, notices,
                 pc, req, pageVars, move>>

\* Mutation: the purge looks at the age of a row and not at its status.
PurgeableAny(r) == Live(r) /\ (stale[r] \/ status[r] # "draft")

Purgeable(r) == status[r] = "draft" /\ stale[r]

CleanupExpiredDrafts ==
  LET expired == {r \in Requests : Purgeable(r)} IN
  /\ expired # {}
  /\ RemoveRows(expired)
  /\ UNCHANGED <<pc, req, pageVars, move>>

-----------------------------------------------------------------------------
(* submitQuoteRequest.                                                     *)

\* The row found under the key is not the draft being submitted.
Duplicate(r, c) == r # req[c].draft \/ status[r] # "draft"

\* findQuoteRequestSubmission before anything is written.
Find(c) ==
  LET found == {r \in Requests : Live(r) /\ key[r] = req[c].page /\ Duplicate(r, c)} IN
  /\ pc[c] = "find"
  /\ IF found # {} THEN Answer(c, "duplicate")
     ELSE /\ pc' = [pc EXCEPT ![c] = IF req[c].draft = NoRequest THEN "commit" ELSE "draft"]
          /\ UNCHANGED <<req, pageVars>>
  /\ UNCHANGED <<rowVars, move>>

\* A draft named in the form has to be a draft of the client.
CheckDraft(c) ==
  /\ pc[c] = "draft"
  /\ IF OwnDraft(req[c].draft, req[c].user)
     THEN pc' = [pc EXCEPT ![c] = "commit"] /\ UNCHANGED <<req, pageVars>>
     ELSE Answer(c, "error")
  /\ UNCHANGED <<rowVars, move>>

\* Mutation: the transaction trusts the draft read before the files were stored.
StillDraftUnchecked(c) == Live(req[c].draft)

\* The UPDATE finds the row: still a draft, still the client's.
StillDraft(c) == OwnDraft(req[c].draft, req[c].user)

\* Mutation: no unique index on submission_key.
KeyFreeAlways(p, r) == TRUE

KeyFree(p, r) == \A s \in Requests \ {r} : Live(s) => key[s] # p

SubmitDraft(c) ==
  LET p == req[c].page
      r == req[c].draft
  IN
  /\ r # NoRequest
  /\ StillDraft(c)
  /\ KeyFree(p, r)
  /\ status' = [status EXCEPT ![r] = "submitted"]
  /\ key' = [key EXCEPT ![r] = p]
  /\ history' = [history EXCEPT ![r] = Append(@, Entry("draft", "submitted", "form"))]
  /\ submittedAt' = [submittedAt EXCEPT ![r] = TRUE]
  /\ stale' = [stale EXCEPT ![r] = FALSE]
  /\ receipts' = [receipts EXCEPT ![r] = @ + 1]
  /\ UNCHANGED <<owner, notices>>

SubmitNew(c) ==
  LET p == req[c].page IN
  /\ req[c].draft = NoRequest
  /\ \E r \in Requests :
       /\ status[r] = "none"
       /\ KeyFree(p, r)
       /\ InsertRow(r, p, req[c].user, "submitted", "form")
       /\ submittedAt' = [submittedAt EXCEPT ![r] = TRUE]
       /\ receipts' = [receipts EXCEPT ![r] = @ + 1]
  /\ UNCHANGED <<stale, notices>>

\* The transaction commits.  When its acknowledgement is lost the handler answers
\* with an error.
Submit(c) ==
  /\ pc[c] = "commit"
  /\ SubmitDraft(c) \/ SubmitNew(c)
  /\ Answer(c, "created") \/ Answer(c, "error")
  /\ UNCHANGED move

\* The transaction meets the unique index on submission_key.
SubmitConflicts(c) ==
  /\ pc[c] = "commit"
  /\ IF req[c].draft = NoRequest THEN KeyTaken(req[c].page)
     ELSE StillDraft(c) /\ ~KeyFree(req[c].page, req[c].draft)
  /\ pc' = [pc EXCEPT ![c] = "conflict"]
  /\ UNCHANGED <<rowVars, req, pageVars, move>>

\* The row that holds the key is read again, to answer with its reference.
ResolveConflict(c) ==
  /\ pc[c] = "conflict"
  /\ Answer(c, IF KeyTaken(req[c].page) THEN "duplicate" ELSE "error")
  /\ UNCHANGED <<rowVars, move>>

\* A guard of the route turns the form away, the draft is no longer one, a file is
\* refused or not stored, the database is down, the process dies: nothing is written.
SubmitFails(c) ==
  /\ pc[c] \in {"find", "draft", "commit", "conflict"}
  /\ Answer(c, "error")
  /\ UNCHANGED <<rowVars, move>>

-----------------------------------------------------------------------------
(* changeQuoteRequestStatus and cancelQuoteRequest.                        *)

\* The office opens a change of status.
OfficeReads(a) ==
  /\ move[a] = NoMove
  /\ \E r \in Requests, to \in QuoteRequestStatuses :
       /\ Live(r)
       /\ Len(history[r]) < MaxHistory
       /\ status[r] = to \/ CanTransition(status[r], to)
       /\ move' = [move EXCEPT ![a] = [request |-> r, from |-> status[r], to |-> to]]
  /\ UNCHANGED <<rowVars, pc, req, pageVars>>

\* A client asks for the cancellation of a request.
ClientReads(a) ==
  /\ move[a] = NoMove
  /\ \E r \in Requests :
       /\ Live(r) /\ owner[r] = a
       /\ Len(history[r]) < MaxHistory
       /\ CanTransition(status[r], "cancelled")
       /\ move' = [move EXCEPT ![a] = [request |-> r, from |-> status[r], to |-> "cancelled"]]
  /\ UNCHANGED <<rowVars, pc, req, pageVars>>

\* Mutation: the update is not conditional on the status that was read.
UnmovedUnchecked(a) == Live(move[a].request)

\* The conditional update finds the status that was read.
Unmoved(a) == status[move[a].request] = move[a].from

\* Mutation: every change of the office is announced.
AnnouncedAlways(m, by) == by = "office"

Announced(m, by) == by = "office" /\ m.to \in ClientVisible

\* The update, its history entry and its notice commit together.
Apply(m, by) ==
  LET r == m.request IN
  /\ status' = [status EXCEPT ![r] = m.to]
  /\ stale' = [stale EXCEPT ![r] = FALSE]
  /\ history' = [history EXCEPT ![r] = IF m.from = m.to THEN @
                                       ELSE Append(@, Entry(m.from, m.to, by))]
  /\ notices' = [notices EXCEPT ![r] = IF m.from # m.to /\ Announced(m, by)
                                       THEN Append(@, m.to) ELSE @]
  /\ UNCHANGED <<key, owner, submittedAt, receipts>>

MoveCommits(a) ==
  /\ move[a] # NoMove
  /\ Unmoved(a)
  /\ Apply(move[a], IF a \in Officers THEN "office" ELSE "client")
  /\ move' = [move EXCEPT ![a] = NoMove]
  /\ UNCHANGED <<pc, req, pageVars>>

\* The status changed in between, or the transaction rolls back.
MoveFails(a) ==
  /\ move[a] # NoMove
  /\ move' = [move EXCEPT ![a] = NoMove]
  /\ UNCHANGED <<rowVars, pc, req, pageVars>>

-----------------------------------------------------------------------------
Wizard(p) == \/ SessionChanges(p) \/ LoadDraft(p) \/ FillIn(p) \/ GiveUp(p) \/ DeleteDraft(p)
             \/ \E c \in Calls : SendDraft(p, c) \/ SendForm(p, c)

Handler(c) == \/ SaveUpdates(c) \/ SaveCreates(c) \/ SaveRefused(c)
              \/ Find(c) \/ CheckDraft(c) \/ Submit(c)
              \/ SubmitConflicts(c) \/ ResolveConflict(c) \/ SubmitFails(c)

Workflow == \/ \E a \in Officers : OfficeReads(a)
            \/ \E a \in Clients : ClientReads(a)
            \/ \E a \in Movers : MoveCommits(a) \/ MoveFails(a)

Next == \/ \E p \in Pages : Wizard(p)
        \/ \E c \in Calls : Handler(c)
        \/ \E r \in Requests : Age(r)
        \/ CleanupExpiredDrafts
        \/ Workflow

Spec == Init /\ [][Next]_vars

-----------------------------------------------------------------------------
(* Properties.                                                             *)

TypeOK ==
  /\ status \in [Requests -> QuoteRequestStatuses \cup {"none", "deleted"}]
  /\ key \in [Requests -> Pages \cup {NoPage}]
  /\ owner \in [Requests -> Clients \cup {Nobody}]
  /\ submittedAt \in [Requests -> BOOLEAN]
  /\ stale \in [Requests -> BOOLEAN]
  /\ history \in [Requests -> Seq([from : QuoteRequestStatuses \cup {"none"},
                                   to : QuoteRequestStatuses,
                                   by : {"client", "form", "office"}])]
  /\ receipts \in [Requests -> Nat]
  /\ notices \in [Requests -> Seq(QuoteRequestStatuses)]
  /\ pc \in [Calls -> {"idle", "save", "find", "draft", "commit", "conflict"}]
  /\ req \in [Calls -> [page : Pages \cup {NoPage}, user : Clients \cup {Nobody},
                        draft : Requests \cup {NoRequest}]]
  /\ session \in [Pages -> BOOLEAN]
  /\ drafts \in [Pages -> {"loading", "on", "off"}]
  /\ draftId \in [Pages -> Requests \cup {NoRequest}]
  /\ ready \in [Pages -> BOOLEAN]
  /\ waiting \in [Pages -> Calls \cup {NoCall}]
  /\ told \in [Pages -> {"form", "created", "duplicate"}]
  /\ move \in [Movers -> [request : Requests \cup {NoRequest},
                          from : QuoteRequestStatuses \cup {"none"},
                          to : QuoteRequestStatuses \cup {"none"}]]

Walk(h, s) ==
  /\ Len(h) > 0
  /\ h[1].from = "none" /\ h[1].to \in {"draft", "submitted"}
  /\ \A k \in 2..Len(h) : h[k].from = h[k - 1].to /\ CanTransition(h[k].from, h[k].to)
  /\ h[Len(h)].to = s

\* The history of a request, read in commit order, is an unbroken walk along the
\* declared transitions that ends at its status, whichever of the form, the
\* office and the client moved it and however their reads and writes interleave
\* (the conditional updates of the three services).
HistoryTellsStatus == \A r \in Requests : Live(r) => Walk(history[r], status[r])

\* The entries a client hears of, among the first k of history h.
ToTell(h, k) == {j \in 1..k : h[j].by = "office" /\ h[j].to \in ClientVisible}

\* Notices n are those of history h.
Tells(n, h) ==
  /\ Len(n) = Cardinality(ToTell(h, Len(h)))
  /\ \A k \in ToTell(h, Len(h)) : n[Cardinality(ToTell(h, k))] = h[k].to

\* The outbox announces to the client the office's moves to a client-visible
\* status, each once, in order, and nothing else: a transition that loses a race
\* leaves no mail behind, and none that commits is silent.
NoticesMatchHistory == \A r \in Requests : Live(r) => Tells(notices[r], history[r])

\* However often a page retries, and however many pages share a draft, a request
\* is submitted once, with one receipt, and a key submits one request.
SubmittedOnce ==
  /\ \A r \in Requests : receipts[r] = IF submittedAt[r] THEN 1 ELSE 0
  /\ \A r, s \in Requests :
       (submittedAt[r] /\ submittedAt[s] /\ key[r] = key[s]) => r = s

\* "Jamais de faux succes": a page that was answered 201 has a request under its
\* key, submitted, with its receipt, and the purge of drafts never takes it.
CreatedMeansSubmitted ==
  \A p \in Pages : told[p] = "created" =>
    \E r \in Requests : /\ key[r] = p /\ submittedAt[r] /\ receipts[r] = 1
                        /\ Live(r) /\ status[r] # "draft"

\* A submitted request is a dated event: no step deletes it, hands it to another
\* client, changes its key or rewrites an entry of its history.
RequestsAreKept ==
  [][\A r \in Requests : submittedAt[r] =>
       /\ submittedAt'[r] /\ status'[r] # "draft"
       /\ owner'[r] = owner[r] /\ key'[r] = key[r]
       /\ Len(history'[r]) >= Len(history[r])
       /\ \A k \in 1..Len(history[r]) : history'[r][k] = history[r][k]]_vars

\* A page that was answered "already registered" has a submitted request under
\* its key: it goes to the thank-you page, which says the request was received.
DuplicateMeansSubmitted ==
  \A p \in Pages : told[p] = "duplicate" =>
    \E r \in Requests : key[r] = p /\ submittedAt[r]
=============================================================================
