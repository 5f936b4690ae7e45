------------------------ MODULE QuoteRequests_proofs ------------------------
(***************************************************************************)
(* Proofs about quote requests, for any number of rows, pages, handlers,   *)
(* officers and clients, and histories of any length.                      *)
(***************************************************************************)
EXTENDS QuoteRequests, FiniteSetTheorems, TLAPS

-----------------------------------------------------------------------------
(* Types.                                                                  *)

Entries == [from : QuoteRequestStatuses \cup {"none"}, to : QuoteRequestStatuses,
            by : {"client", "form", "office"}]

Reqs == [page : Pages \cup {NoPage}, user : Clients \cup {Nobody},
         draft : Requests \cup {NoRequest}]

\* A call that is under way serves a page; a submission in its second step names
\* a draft.
Serving == \A c \in Calls : pc[c] # "idle" => req[c].page \in Pages

\* A change of status under way is between statuses of a request, and declared.
MoveDeclared ==
  \A a \in Movers : move[a] # NoMove =>
    /\ move[a].request \in Requests
    /\ move[a].from \in QuoteRequestStatuses /\ move[a].to \in QuoteRequestStatuses
    /\ move[a].from = move[a].to \/ CanTransition(move[a].from, move[a].to)

TypeInv == TypeOK /\ Serving /\ MoveDeclared

LEMMA StatusFacts ==
  /\ \A s \in {"draft", "submitted", "cancelled"} : s \in QuoteRequestStatuses
  /\ "none" \notin QuoteRequestStatuses /\ "deleted" \notin QuoteRequestStatuses
  /\ CanTransition("draft", "submitted")
  /\ \A s \in QuoteRequestStatuses : ~CanTransition(s, "draft")
  /\ ClientVisible \subseteq QuoteRequestStatuses
  <1>1. /\ \A s \in {"draft", "submitted", "cancelled"} : s \in QuoteRequestStatuses
        /\ "none" \notin QuoteRequestStatuses /\ "deleted" \notin QuoteRequestStatuses
        /\ ClientVisible \subseteq QuoteRequestStatuses
    BY DEF QuoteRequestStatuses, ClientVisible
  <1>2. CanTransition("draft", "submitted")
    BY DEF CanTransition, QuoteRequestTransitions, QuoteRequestStatuses
  <1>3. ASSUME NEW s \in QuoteRequestStatuses PROVE ~CanTransition(s, "draft")
    BY DEF CanTransition, QuoteRequestTransitions, QuoteRequestStatuses
  <1> QED BY <1>1, <1>2, <1>3

\* What a step may do to the rows: nothing, or one of the seven writers.
Writer ==
  \/ UNCHANGED rowVars
  \/ \E c \in Calls : SaveUpdates(c) \/ SaveCreates(c)
  \/ \E p \in Pages : DeleteDraft(p)
  \/ \E r \in Requests : Age(r)
  \/ CleanupExpiredDrafts
  \/ \E c \in Calls : Submit(c)
  \/ \E a \in Movers : MoveCommits(a)

LEMMA Writers == [Next]_vars => Writer
  <1> SUFFICES ASSUME [Next]_vars PROVE Writer
    OBVIOUS
  <1>1. ASSUME NEW p \in Pages, Wizard(p) PROVE Writer
    BY <1>1 DEF Wizard, Writer, SessionChanges, LoadDraft, FillIn, GiveUp, SendDraft, SendForm
  <1>2. ASSUME NEW c \in Calls, Handler(c) PROVE Writer
    BY <1>2 DEF Handler, Writer, SaveRefused, Find, CheckDraft, SubmitConflicts,
                ResolveConflict, SubmitFails
  <1>3. ASSUME Workflow PROVE Writer
    BY <1>3 DEF Workflow, Writer, OfficeReads, ClientReads, MoveFails
  <1>4. CASE UNCHANGED vars
    BY <1>4 DEF Writer, vars
  <1> QED BY <1>1, <1>2, <1>3, <1>4 DEF Next, Writer

LEMMA TypeInit == Init => TypeInv
  <1> SUFFICES ASSUME Init PROVE TypeInv
    OBVIOUS
  <1>1. TypeOK
    BY DEF Init, TypeOK, NoReq, NoMove
  <1>2. Serving /\ MoveDeclared
    BY DEF Init, Serving, MoveDeclared
  <1> QED BY <1>1, <1>2 DEF TypeInv

RowTypes ==
  /\ status \in [Requests -> QuoteRequestStatuses \cup {"none", "deleted"}]
  /\ key \in [Requests -> Pages \cup {NoPage}]
  /\ owner \in [Requests -> Clients \cup {Nobody}]
  /\ submittedAt \in [Requests -> BOOLEAN]
  /\ stale \in [Requests -> BOOLEAN]
  /\ history \in [Requests -> Seq(Entries)]
  /\ receipts \in [Requests -> Nat]
  /\ notices \in [Requests -> Seq(QuoteRequestStatuses)]

CallTypes ==
  /\ pc \in [Calls -> {"idle", "save", "find", "draft", "commit", "conflict"}]
  /\ req \in [Calls -> Reqs]

PageTypes ==
  /\ session \in [Pages -> BOOLEAN]
  /\ drafts \in [Pages -> {"loading", "on", "off"}]
  /\ draftId \in [Pages -> Requests \cup {NoRequest}]
  /\ ready \in [Pages -> BOOLEAN]
  /\ waiting \in [Pages -> Calls \cup {NoCall}]
  /\ told \in [Pages -> {"form", "created", "duplicate"}]

MoveTypes ==
  move \in [Movers -> [request : Requests \cup {NoRequest},
                       from : QuoteRequestStatuses \cup {"none"},
                       to : QuoteRequestStatuses \cup {"none"}]]

LEMMA TypeParts == TypeOK <=> RowTypes /\ CallTypes /\ PageTypes /\ MoveTypes
  BY DEF TypeOK, RowTypes, CallTypes, PageTypes, MoveTypes, Entries, Reqs

LEMMA InsertTypes ==
  ASSUME RowTypes, NEW r \in Requests, NEW p \in Pages, NEW u \in Clients \cup {Nobody},
         NEW to \in QuoteRequestStatuses, NEW by \in {"client", "form"},
         InsertRow(r, p, u, to, by)
  PROVE  /\ status' \in [Requests -> QuoteRequestStatuses \cup {"none", "deleted"}]
         /\ key' \in [Requests -> Pages \cup {NoPage}]
         /\ owner' \in [Requests -> Clients \cup {Nobody}]
         /\ history' \in [Requests -> Seq(Entries)]
  <1>1. Entry("none", to, by) \in Entries
    BY DEF Entry, Entries
  <1>2. <<Entry("none", to, by)>> \in Seq(Entries)
    BY <1>1
  <1> QED BY <1>2 DEF RowTypes, InsertRow

LEMMA RemoveTypes ==
  ASSUME RowTypes, NEW rows \in SUBSET Requests, RemoveRows(rows)
  PROVE  RowTypes'
  <1>1. << >> \in Seq(Entries)
    OBVIOUS
  <1> QED BY <1>1 DEF RowTypes, RemoveRows

LEMMA AppendTypes ==
  ASSUME RowTypes, NEW r \in Requests,
         NEW from \in QuoteRequestStatuses, NEW to \in QuoteRequestStatuses,
         NEW by \in {"client", "form", "office"}
  PROVE  /\ Append(history[r], Entry(from, to, by)) \in Seq(Entries)
         /\ Append(notices[r], to) \in Seq(QuoteRequestStatuses)
  <1>1. Entry(from, to, by) \in Entries
    BY DEF Entry, Entries
  <1>2. history[r] \in Seq(Entries) /\ notices[r] \in Seq(QuoteRequestStatuses)
    BY DEF RowTypes
  <1> QED BY <1>1, <1>2

LEMMA RowTypesStep == TypeInv /\ [Next]_vars => RowTypes'
  <1> SUFFICES ASSUME TypeInv, [Next]_vars PROVE RowTypes'
    OBVIOUS
  <1>0. RowTypes /\ CallTypes /\ MoveTypes /\ Serving /\ MoveDeclared
    BY TypeParts DEF TypeInv
  <1>1. CASE UNCHANGED rowVars
    BY <1>0, <1>1 DEF RowTypes, rowVars
  <1>2. ASSUME NEW c \in Calls, SaveUpdates(c) PROVE RowTypes'
    BY <1>0, <1>2 DEF SaveUpdates, RowTypes
  <1>3. ASSUME NEW c \in Calls, SaveCreates(c) PROVE RowTypes'
    <2>1. PICK r \in Requests : InsertRow(r, req[c].page, UserOf[req[c].page], "draft", "client")
      BY <1>3 DEF SaveCreates
    <2>2. req[c].page \in Pages /\ UserOf[req[c].page] \in Clients
      BY <1>0, <1>3, QuoteAssumption DEF SaveCreates, Serving
    <2>3. UNCHANGED <<submittedAt, stale, receipts, notices>>
      BY <1>3 DEF SaveCreates
    <2> QED BY <1>0, <2>1, <2>2, <2>3, InsertTypes, StatusFacts DEF RowTypes
  <1>4. ASSUME NEW p \in Pages, DeleteDraft(p) PROVE RowTypes'
    <2>1. RemoveRows({draftId[p]}) /\ draftId[p] \in Requests
      BY <1>4, TypeParts DEF DeleteDraft, OwnDraft, TypeInv, PageTypes
    <2> QED BY <1>0, <2>1, RemoveTypes
  <1>5. ASSUME NEW r \in Requests, Age(r) PROVE RowTypes'
    BY <1>0, <1>5 DEF Age, RowTypes
  <1>6. CASE CleanupExpiredDrafts
    BY <1>0, <1>6, RemoveTypes DEF CleanupExpiredDrafts
  <1>7. ASSUME NEW c \in Calls, Submit(c) PROVE RowTypes'
    <2>1. req[c].page \in Pages /\ req[c].user \in Clients \cup {Nobody}
      BY <1>0, <1>7 DEF Submit, Serving, CallTypes, Reqs
    <2>2. CASE SubmitDraft(c)
      <3>1. req[c].draft \in Requests
        BY <1>0, <1>7, <2>2 DEF SubmitDraft, CallTypes, Reqs
      <3>2. Append(history[req[c].draft], Entry("draft", "submitted", "form")) \in Seq(Entries)
        BY <1>0, <3>1, AppendTypes, StatusFacts
      <3> QED BY <1>0, <2>1, <2>2, <3>1, <3>2, StatusFacts DEF SubmitDraft, RowTypes
    <2>3. CASE SubmitNew(c)
      <3>1. PICK r \in Requests :
              /\ InsertRow(r, req[c].page, req[c].user, "submitted", "form")
              /\ submittedAt' = [submittedAt EXCEPT ![r] = TRUE]
              /\ receipts' = [receipts EXCEPT ![r] = @ + 1]
        BY <2>3 DEF SubmitNew
      <3>2. UNCHANGED <<stale, notices>>
        BY <2>3 DEF SubmitNew
      <3>3. /\ submittedAt' \in [Requests -> BOOLEAN]
            /\ receipts' \in [Requests -> Nat]
        BY <1>0, <3>1 DEF RowTypes
      <3>4. "submitted" \in QuoteRequestStatuses
        BY StatusFacts
      <3>5. /\ status' \in [Requests -> QuoteRequestStatuses \cup {"none", "deleted"}]
            /\ key' \in [Requests -> Pages \cup {NoPage}]
            /\ owner' \in [Requests -> Clients \cup {Nobody}]
            /\ history' \in [Requests -> Seq(Entries)]
        BY <1>0, <2>1, <3>1, <3>4, InsertTypes
      <3> QED BY <1>0, <3>2, <3>3, <3>5 DEF RowTypes
    <2> QED BY <1>7, <2>2, <2>3 DEF Submit
  <1>8. ASSUME NEW a \in Movers, MoveCommits(a) PROVE RowTypes'
    <2> DEFINE m == move[a]
               r == m.request
               by == IF a \in Officers THEN "office" ELSE "client"
    <2>1. /\ m # NoMove /\ Apply(m, by)
          /\ r \in Requests /\ m.from \in QuoteRequestStatuses /\ m.to \in QuoteRequestStatuses
      BY <1>0, <1>8 DEF MoveCommits, MoveDeclared
    <2>2. /\ Append(history[r], Entry(m.from, m.to, by)) \in Seq(Entries)
          /\ Append(notices[r], m.to) \in Seq(QuoteRequestStatuses)
      BY <1>0, <2>1, AppendTypes
    <2>3. /\ history[r] \in Seq(Entries) /\ notices[r] \in Seq(QuoteRequestStatuses)
      BY <1>0, <2>1 DEF RowTypes
    <2> HIDE DEF m, r, by
    <2>4. history' \in [Requests -> Seq(Entries)]
      BY <1>0, <2>1, <2>2, <2>3 DEF Apply, RowTypes, r
    <2>5. notices' \in [Requests -> Seq(QuoteRequestStatuses)]
      BY <1>0, <2>1, <2>2, <2>3 DEF Apply, RowTypes, r
    <2> QED BY <1>0, <2>1, <2>4, <2>5 DEF Apply, RowTypes, r
  <1> QED BY Writers, <1>1, <1>2, <1>3, <1>4, <1>5, <1>6, <1>7, <1>8 DEF Writer

\* The calls and the pages.
Served == CallTypes /\ PageTypes /\ Serving

LEMMA AnswerTypes ==
  ASSUME Served, NEW c \in Calls, pc[c] # "idle",
         NEW answer \in {"error", "created", "duplicate"}, Answer(c, answer)
  PROVE  Served'
  <1>1. req[c].page \in Pages
    BY DEF Served, Serving
  <1>2. NoReq \in Reqs
    BY DEF NoReq, Reqs
  <1>3. CallTypes' /\ Serving'
    BY <1>2 DEF Served, CallTypes, Serving, Answer, Return
  <1>4. PageTypes'
    BY <1>1 DEF Served, PageTypes, Answer
  <1> QED BY <1>3, <1>4 DEF Served

LEMMA ReturnTypes ==
  ASSUME CallTypes, Serving, NEW c \in Calls, Return(c)
  PROVE  CallTypes' /\ Serving'
  <1>1. NoReq \in Reqs
    BY DEF NoReq, Reqs
  <1> QED BY <1>1 DEF CallTypes, Serving, Return

LEMMA ServedStep == TypeInv /\ [Next]_vars => Served'
  <1> SUFFICES ASSUME TypeInv, [Next]_vars PROVE Served'
    OBVIOUS
  <1>0. RowTypes /\ CallTypes /\ PageTypes /\ Serving /\ Served
    BY TypeParts DEF TypeInv, Served
  <1>1. ASSUME UNCHANGED <<pc, req, pageVars>> PROVE Served'
    BY <1>0, <1>1 DEF Served, CallTypes, PageTypes, Serving, pageVars
  <1>2. ASSUME NEW p \in Pages, Wizard(p) PROVE Served'
    <2>1. CASE SessionChanges(p)
      BY <1>0, <2>1 DEF SessionChanges, Served, CallTypes, PageTypes, Serving
    <2>2. CASE LoadDraft(p)
      BY <1>0, <2>2 DEF LoadDraft, LatestDrafts, Served, CallTypes, PageTypes, Serving
    <2>3. CASE FillIn(p)
      BY <1>0, <2>3 DEF FillIn, Served, CallTypes, PageTypes, Serving
    <2>4. CASE GiveUp(p)
      BY <1>0, <2>4 DEF GiveUp, Served, CallTypes, PageTypes, Serving
    <2>5. CASE DeleteDraft(p)
      BY <1>0, <2>5 DEF DeleteDraft, Served, CallTypes, PageTypes, Serving
    <2>6. ASSUME NEW c \in Calls, SendDraft(p, c) PROVE Served'
      <3>1. [page |-> p, user |-> Nobody, draft |-> draftId[p]] \in Reqs
        BY <1>0 DEF PageTypes, Reqs
      <3> QED BY <1>0, <2>6, <3>1 DEF SendDraft, Served, CallTypes, PageTypes, Serving
    <2>7. ASSUME NEW c \in Calls, SendForm(p, c) PROVE Served'
      <3>1. [page |-> p, draft |-> draftId[p],
             user |-> IF session[p] THEN UserOf[p] ELSE Nobody] \in Reqs
        BY <1>0, QuoteAssumption DEF PageTypes, Reqs
      <3> QED BY <1>0, <2>7, <3>1 DEF SendForm, Served, CallTypes, PageTypes, Serving
    <2> QED BY <1>2, <2>1, <2>2, <2>3, <2>4, <2>5, <2>6, <2>7 DEF Wizard
  <1>3. ASSUME NEW c \in Calls, Handler(c) PROVE Served'
    <2>1. ASSUME pc[c] = "save", Return(c), UNCHANGED <<session, waiting, told>>,
                 drafts' \in [Pages -> {"loading", "on", "off"}],
                 draftId' \in [Pages -> Requests \cup {NoRequest}],
                 ready' \in [Pages -> BOOLEAN]
          PROVE  Served'
      BY <1>0, <2>1, ReturnTypes DEF Served, PageTypes
    <2>2. CASE SaveUpdates(c)
      <3>1. /\ draftId' \in [Pages -> Requests \cup {NoRequest}]
            /\ ready' \in [Pages -> BOOLEAN]
        <4>1. req[c].draft \in Requests
          BY <1>0, <2>2 DEF SaveUpdates, OwnDraft, CallTypes, Reqs
        <4>2. DraftAnswer(req[c].page, req[c].draft)
          BY <2>2 DEF SaveUpdates
        <4> QED BY <1>0, <4>1, <4>2 DEF DraftAnswer, PageTypes
      <3> QED BY <1>0, <2>1, <2>2, <3>1 DEF SaveUpdates, PageTypes
    <2>3. CASE SaveCreates(c)
      <3>1. /\ draftId' \in [Pages -> Requests \cup {NoRequest}]
            /\ ready' \in [Pages -> BOOLEAN]
        BY <1>0, <2>3 DEF SaveCreates, DraftAnswer, PageTypes
      <3> QED BY <1>0, <2>1, <2>3, <3>1 DEF SaveCreates, PageTypes
    <2>4. CASE SaveRefused(c)
      <3>1. /\ drafts' \in [Pages -> {"loading", "on", "off"}]
            /\ ready' \in [Pages -> BOOLEAN]
        BY <1>0, <2>4 DEF SaveRefused, PageTypes
      <3> QED BY <1>0, <2>1, <2>4, <3>1 DEF SaveRefused, PageTypes
    <2>5. ASSUME UNCHANGED <<req, pageVars>>, pc[c] # "idle",
                 \E s \in {"draft", "commit", "conflict"} : pc' = [pc EXCEPT ![c] = s]
          PROVE  Served'
      BY <1>0, <2>5 DEF Served, CallTypes, PageTypes, Serving, pageVars
    <2>6. CASE Find(c)
      BY <1>0, <2>5, <2>6, AnswerTypes DEF Find
    <2>7. CASE CheckDraft(c)
      BY <1>0, <2>5, <2>7, AnswerTypes DEF CheckDraft
    <2>8. CASE Submit(c)
      BY <1>0, <2>8, AnswerTypes DEF Submit
    <2>9. CASE SubmitConflicts(c)
      BY <1>0, <2>5, <2>9 DEF SubmitConflicts
    <2>10. CASE ResolveConflict(c)
      BY <1>0, <2>10, AnswerTypes DEF ResolveConflict
    <2>11. CASE SubmitFails(c)
      BY <1>0, <2>11, AnswerTypes DEF SubmitFails
    <2> QED BY <1>3, <2>2, <2>3, <2>4, <2>6, <2>7, <2>8, <2>9, <2>10, <2>11 DEF Handler
  <1>4. ASSUME NEW r \in Requests, Age(r) PROVE Served'
    BY <1>1, <1>4 DEF Age
  <1>5. CASE CleanupExpiredDrafts
    BY <1>1, <1>5 DEF CleanupExpiredDrafts
  <1>6. CASE Workflow
    BY <1>1, <1>6 DEF Workflow, OfficeReads, ClientReads, MoveCommits, MoveFails
  <1>7. CASE UNCHANGED vars
    BY <1>1, <1>7 DEF vars
  <1> QED BY <1>2, <1>3, <1>4, <1>5, <1>6, <1>7 DEF Next

LEMMA MoveStep == TypeInv /\ [Next]_vars => MoveTypes' /\ MoveDeclared'
  <1> SUFFICES ASSUME TypeInv, [Next]_vars PROVE MoveTypes' /\ MoveDeclared'
    OBVIOUS
  <1>0. RowTypes /\ MoveTypes /\ MoveDeclared
    BY TypeParts DEF TypeInv
  <1>1. ASSUME UNCHANGED move PROVE MoveTypes' /\ MoveDeclared'
    BY <1>0, <1>1 DEF MoveTypes, MoveDeclared
  <1>2. ASSUME NEW a \in Movers, NEW r \in Requests, NEW to \in QuoteRequestStatuses,
               Live(r), status[r] = to \/ CanTransition(status[r], to),
               move' = [move EXCEPT ![a] = [request |-> r, from |-> status[r], to |-> to]]
        PROVE  MoveTypes' /\ MoveDeclared'
    BY <1>0, <1>2 DEF MoveTypes, MoveDeclared, Live
  <1>3. ASSUME NEW a \in Movers, move' = [move EXCEPT ![a] = NoMove]
        PROVE  MoveTypes' /\ MoveDeclared'
    <2>1. MoveTypes'
      BY <1>0, <1>3 DEF MoveTypes, NoMove
    <2>2. MoveDeclared'
      BY <1>0, <1>3 DEF MoveTypes, MoveDeclared
    <2> QED BY <2>1, <2>2
  <1>4. ASSUME NEW a \in Officers, OfficeReads(a) PROVE MoveTypes' /\ MoveDeclared'
    BY <1>2, <1>4 DEF OfficeReads, Movers
  <1>5. ASSUME NEW a \in Clients, ClientReads(a) PROVE MoveTypes' /\ MoveDeclared'
    BY <1>2, <1>5, StatusFacts DEF ClientReads, Movers
  <1>6. ASSUME NEW a \in Movers, MoveCommits(a) \/ MoveFails(a) PROVE MoveTypes' /\ MoveDeclared'
    BY <1>3, <1>6 DEF MoveCommits, MoveFails
  <1>7. ASSUME NEW p \in Pages, Wizard(p) PROVE UNCHANGED move
    BY <1>7 DEF Wizard, SessionChanges, LoadDraft, FillIn, GiveUp, DeleteDraft, SendDraft, SendForm
  <1>8. ASSUME NEW c \in Calls, Handler(c) PROVE UNCHANGED move
    BY <1>8 DEF Handler, SaveUpdates, SaveCreates, SaveRefused, Find, CheckDraft, Submit,
                SubmitConflicts, ResolveConflict, SubmitFails
  <1>9. ASSUME NEW r \in Requests, Age(r) PROVE UNCHANGED move
    BY <1>9 DEF Age
  <1>10. ASSUME CleanupExpiredDrafts \/ UNCHANGED vars PROVE UNCHANGED move
    BY <1>10 DEF CleanupExpiredDrafts, vars
  <1> QED BY <1>1, <1>4, <1>5, <1>6, <1>7, <1>8, <1>9, <1>10 DEF Next, Workflow

LEMMA TypeStep == TypeInv /\ [Next]_vars => TypeInv'
  BY RowTypesStep, ServedStep, MoveStep, TypeParts
  DEF TypeInv, Served, TypeOK, RowTypes, CallTypes, PageTypes, MoveTypes, Entries, Reqs

\* Every reachable state is well typed, whatever the number of pages, handlers and
\* officers.
THEOREM Typing == Spec => []TypeOK
  <1>1. TypeInv => TypeOK
    BY DEF TypeInv
  <1> QED BY TypeInit, TypeStep, <1>1, PTL DEF Spec

-----------------------------------------------------------------------------
(* The history tells the status.                                           *)

LEMMA WalkStarts ==
  ASSUME NEW to \in {"draft", "submitted"}, NEW by
  PROVE  Walk(<<Entry("none", to, by)>>, to)
  BY DEF Walk, Entry

LEMMA WalkGoesOn ==
  ASSUME NEW h \in Seq(Entries), NEW s \in QuoteRequestStatuses, Walk(h, s),
         NEW to \in QuoteRequestStatuses, CanTransition(s, to),
         NEW by \in {"client", "form", "office"}
  PROVE  Walk(Append(h, Entry(s, to, by)), to)
  <1> DEFINE e == Entry(s, to, by)
             g == Append(h, e)
  <1>1. e.from = s /\ e.to = to
    BY DEF Entry
  <1>2. /\ Len(g) = Len(h) + 1 /\ g[Len(h) + 1] = e
        /\ \A k \in 1..Len(h) : g[k] = h[k]
        /\ Len(h) \in Nat \ {0}
    BY DEF Walk
  <1> HIDE DEF e, g
  <1>3. ASSUME NEW k \in 2..Len(g)
        PROVE  g[k].from = g[k - 1].to /\ CanTransition(g[k].from, g[k].to)
    <2>1. CASE k \in 2..Len(h)
      BY <1>2, <2>1 DEF Walk
    <2>2. CASE k = Len(h) + 1
      BY <1>1, <1>2, <2>2 DEF Walk
    <2> QED BY <1>2, <2>1, <2>2
  <1>4. g[1] = h[1]
    BY <1>2
  <1> QED BY <1>1, <1>2, <1>3, <1>4 DEF Walk, e, g

\* A new row, whoever writes it.
LEMMA InsertWalks ==
  ASSUME TypeInv, HistoryTellsStatus, NEW r \in Requests, NEW p, NEW u,
         NEW to \in {"draft", "submitted"}, NEW by, InsertRow(r, p, u, to, by)
  PROVE  HistoryTellsStatus'
  <1> SUFFICES ASSUME NEW q \in Requests, Live(q)' PROVE Walk(history'[q], status'[q])
    BY DEF HistoryTellsStatus
  <1>0. RowTypes
    BY TypeParts DEF TypeInv
  <1>1. CASE q = r
    BY <1>0, <1>1, WalkStarts DEF InsertRow, RowTypes
  <1>2. CASE q # r
    <2>1. status'[q] = status[q] /\ history'[q] = history[q]
      BY <1>0, <1>2 DEF InsertRow, RowTypes
    <2> QED BY <2>1 DEF HistoryTellsStatus, Live
  <1> QED BY <1>1, <1>2

\* Rows that leave.
LEMMA RemoveWalks ==
  ASSUME HistoryTellsStatus, NEW rows \in SUBSET Requests, RemoveRows(rows)
  PROVE  HistoryTellsStatus'
  <1> SUFFICES ASSUME NEW q \in Requests, Live(q)' PROVE Walk(history'[q], status'[q])
    BY DEF HistoryTellsStatus
  <1>1. q \notin rows
    BY StatusFacts DEF Live, RemoveRows
  <1>2. status'[q] = status[q] /\ history'[q] = history[q]
    BY <1>1 DEF RemoveRows
  <1> QED BY <1>2 DEF HistoryTellsStatus, Live

\* A row that moves along a declared transition.
LEMMA MoveWalks ==
  ASSUME TypeInv, HistoryTellsStatus, NEW r \in Requests,
         status[r] \in QuoteRequestStatuses, NEW to \in QuoteRequestStatuses,
         CanTransition(status[r], to), NEW by \in {"client", "form", "office"},
         status' = [status EXCEPT ![r] = to],
         history' = [history EXCEPT ![r] = Append(@, Entry(status[r], to, by))]
  PROVE  HistoryTellsStatus'
  <1> SUFFICES ASSUME NEW q \in Requests, Live(q)' PROVE Walk(history'[q], status'[q])
    BY DEF HistoryTellsStatus
  <1>0. RowTypes
    BY TypeParts DEF TypeInv
  <1>1. CASE q = r
    <2>1. history[r] \in Seq(Entries) /\ Walk(history[r], status[r])
      BY <1>0 DEF RowTypes, HistoryTellsStatus, Live
    <2>2. Walk(Append(history[r], Entry(status[r], to, by)), to)
      BY <2>1, WalkGoesOn
    <2> QED BY <1>0, <1>1, <2>2 DEF RowTypes
  <1>2. CASE q # r
    <2>1. status'[q] = status[q] /\ history'[q] = history[q]
      BY <1>0, <1>2 DEF RowTypes
    <2> QED BY <2>1 DEF HistoryTellsStatus, Live
  <1> QED BY <1>1, <1>2

LEMMA HistoryStep == TypeInv /\ HistoryTellsStatus /\ [Next]_vars => HistoryTellsStatus'
  <1> SUFFICES ASSUME TypeInv, HistoryTellsStatus, [Next]_vars PROVE HistoryTellsStatus'
    OBVIOUS
  <1>0. RowTypes /\ CallTypes /\ MoveDeclared
    BY TypeParts DEF TypeInv
  <1>1. ASSUME UNCHANGED <<status, history>> PROVE HistoryTellsStatus'
    BY <1>1 DEF HistoryTellsStatus, Live
  <1>2. CASE UNCHANGED rowVars
    BY <1>1, <1>2 DEF rowVars
  <1>3. ASSUME NEW c \in Calls, SaveUpdates(c) PROVE HistoryTellsStatus'
    BY <1>1, <1>3 DEF SaveUpdates
  <1>4. ASSUME NEW c \in Calls, SaveCreates(c) PROVE HistoryTellsStatus'
    BY <1>4, InsertWalks DEF SaveCreates
  <1>5. ASSUME NEW p \in Pages, DeleteDraft(p) PROVE HistoryTellsStatus'
    <2>1. RemoveRows({draftId[p]}) /\ draftId[p] \in Requests
      BY <1>5, TypeParts DEF DeleteDraft, OwnDraft, TypeInv, PageTypes
    <2> QED BY <2>1, RemoveWalks
  <1>6. ASSUME NEW r \in Requests, Age(r) PROVE HistoryTellsStatus'
    BY <1>1, <1>6 DEF Age
  <1>7. CASE CleanupExpiredDrafts
    BY <1>7, RemoveWalks DEF CleanupExpiredDrafts
  <1>8. ASSUME NEW c \in Calls, Submit(c) PROVE HistoryTellsStatus'
    <2>1. CASE SubmitNew(c)
      BY <2>1, InsertWalks DEF SubmitNew
    <2>2. CASE SubmitDraft(c)
      <3>1. req[c].draft \in Requests /\ status[req[c].draft] = "draft"
        BY <1>0, <2>2 DEF SubmitDraft, StillDraft, OwnDraft, CallTypes, Reqs
      <3> QED BY <2>2, <3>1, MoveWalks, StatusFacts DEF SubmitDraft
    <2> QED BY <1>8, <2>1, <2>2 DEF Submit
  <1>9. ASSUME NEW a \in Movers, MoveCommits(a) PROVE HistoryTellsStatus'
    <2> DEFINE m == move[a]
               r == m.request
               by == IF a \in Officers THEN "office" ELSE "client"
    <2>1. /\ m # NoMove /\ Apply(m, by) /\ status[r] = m.from
          /\ r \in Requests /\ m.from \in QuoteRequestStatuses /\ m.to \in QuoteRequestStatuses
          /\ m.from = m.to \/ CanTransition(m.from, m.to)
      BY <1>0, <1>9 DEF MoveCommits, Unmoved, MoveDeclared
    <2>2. by \in {"client", "form", "office"}
      OBVIOUS
    <2> HIDE DEF m, by
    <2>3. CASE m.from = m.to
      <3>1. status' = status /\ history' = history
        BY <1>0, <2>1, <2>3 DEF Apply, RowTypes
      <3> QED BY <1>1, <3>1
    <2>4. CASE m.from # m.to
      <3>1. /\ status' = [status EXCEPT ![r] = m.to]
            /\ history' = [history EXCEPT ![r] = Append(@, Entry(status[r], m.to, by))]
        BY <2>1, <2>4 DEF Apply
      <3> QED BY <2>1, <2>2, <2>4, <3>1, MoveWalks
    <2> QED BY <2>3, <2>4
  <1> QED BY Writers, <1>2, <1>3, <1>4, <1>5, <1>6, <1>7, <1>8, <1>9 DEF Writer

\* The history of a request is the walk of its status along the declared
\* transitions, whatever form, officers and client do at the same time.
THEOREM HistoryIsWalk == Spec => []HistoryTellsStatus
  <1>1. Init => HistoryTellsStatus
    BY StatusFacts DEF Init, HistoryTellsStatus, Live
  <1> QED BY TypeInit, TypeStep, HistoryStep, <1>1, PTL DEF Spec

-----------------------------------------------------------------------------
(* The notices tell the history.                                           *)

LEMMA ToTellIsFinite ==
  ASSUME NEW h, NEW k \in Nat
  PROVE  IsFiniteSet(ToTell(h, k)) /\ Cardinality(ToTell(h, k)) \in Nat
  <1>1. IsFiniteSet(1..k)
    BY FS_Interval
  <1>2. IsFiniteSet(ToTell(h, k))
    BY <1>1, FS_Subset DEF ToTell
  <1> QED BY <1>2, FS_CardinalityType

\* The notice of an entry is among those of the history.
LEMMA NoticeInRange ==
  ASSUME NEW h \in Seq(Entries), NEW k \in ToTell(h, Len(h))
  PROVE  Cardinality(ToTell(h, k)) \in 1..Cardinality(ToTell(h, Len(h)))
  <1>1. Len(h) \in Nat /\ k \in Nat /\ k <= Len(h)
    BY DEF ToTell
  <1>2. ToTell(h, k) \subseteq ToTell(h, Len(h)) /\ k \in ToTell(h, k)
    BY <1>1 DEF ToTell
  <1>3. /\ IsFiniteSet(ToTell(h, k)) /\ Cardinality(ToTell(h, k)) \in Nat
        /\ IsFiniteSet(ToTell(h, Len(h))) /\ Cardinality(ToTell(h, Len(h))) \in Nat
    BY <1>1, ToTellIsFinite
  <1>4. Cardinality(ToTell(h, k)) <= Cardinality(ToTell(h, Len(h)))
    BY <1>2, <1>3, FS_Subset
  <1>5. Cardinality(ToTell(h, k)) # 0
    BY <1>2, <1>3, FS_EmptySet
  <1> QED BY <1>3, <1>4, <1>5

LEMMA TellsMore ==
  ASSUME NEW h \in Seq(Entries), NEW n \in Seq(QuoteRequestStatuses), Tells(n, h), NEW e \in Entries
  PROVE  Tells(IF e.by = "office" /\ e.to \in ClientVisible THEN Append(n, e.to) ELSE n, Append(h, e))
  <1> DEFINE g == Append(h, e)
             last == Len(h) + 1
             heard == e.by = "office" /\ e.to \in ClientVisible
  <1>1. /\ Len(g) = last /\ g[last] = e /\ \A k \in 1..Len(h) : g[k] = h[k]
        /\ Len(h) \in Nat
    OBVIOUS
  <1> HIDE DEF g
  <1>2. \A k \in 1..Len(h) : ToTell(g, k) = ToTell(h, k)
    BY <1>1 DEF ToTell
  <1>3. ToTell(g, last) = IF heard THEN ToTell(h, Len(h)) \cup {last} ELSE ToTell(h, Len(h))
    BY <1>1 DEF ToTell
  <1>4. last \notin ToTell(h, Len(h)) /\ ToTell(h, Len(h)) \subseteq 1..Len(h)
    BY <1>1 DEF ToTell
  <1>5. IsFiniteSet(ToTell(h, Len(h))) /\ Cardinality(ToTell(h, Len(h))) = Len(n)
    BY <1>1, ToTellIsFinite DEF Tells
  <1>6. ASSUME NEW k \in ToTell(h, Len(h))
        PROVE  /\ Cardinality(ToTell(g, k)) \in 1..Len(n)
               /\ n[Cardinality(ToTell(g, k))] = g[k].to
    <2>1. k \in 1..Len(h) /\ ToTell(g, k) = ToTell(h, k) /\ g[k] = h[k]
      BY <1>1, <1>2, <1>4
    <2>2. Cardinality(ToTell(h, k)) \in 1..Len(n)
      BY <1>5, NoticeInRange
    <2> QED BY <2>1, <2>2 DEF Tells
  <1>7. CASE ~heard
    <2>1. ToTell(g, Len(g)) = ToTell(h, Len(h))
      BY <1>1, <1>3, <1>7
    <2>2. Tells(n, g)
      BY <1>5, <1>6, <2>1 DEF Tells
    <2> QED BY <1>7, <2>2 DEF g
  <1>8. CASE heard
    <2>1. ToTell(g, Len(g)) = ToTell(h, Len(h)) \cup {last}
      BY <1>1, <1>3, <1>8
    <2>2. Cardinality(ToTell(g, Len(g))) = Len(n) + 1
      BY <1>4, <1>5, <2>1, FS_AddElement
    <2> DEFINE m == Append(n, e.to)
    <2>3. Len(m) = Len(n) + 1 /\ m[Len(n) + 1] = e.to /\ \A k \in 1..Len(n) : m[k] = n[k]
      OBVIOUS
    <2> HIDE DEF m
    <2>4. ASSUME NEW k \in ToTell(g, Len(g))
          PROVE  m[Cardinality(ToTell(g, k))] = g[k].to
      <3>1. CASE k = last
        BY <1>1, <2>2, <2>3, <3>1
      <3>2. CASE k # last
        BY <1>6, <2>1, <2>3, <2>4, <3>2
      <3> QED BY <3>1, <3>2
    <2>5. Tells(m, g)
      BY <2>2, <2>3, <2>4 DEF Tells
    <2> QED BY <1>8, <2>5 DEF g, m
  <1> QED BY <1>7, <1>8

\* An identifier that is not a row yet has announced nothing.
Unannounced == \A r \in Requests : status[r] = "none" => notices[r] = <<>>

NoticeInv == NoticesMatchHistory /\ Unannounced

LEMMA EmptyTells ==
  ASSUME NEW e \in Entries, e.by # "office"
  PROVE  Tells(<<>>, <<e>>)
  <1>1. ToTell(<<e>>, Len(<<e>>)) = {}
    BY DEF ToTell
  <1> QED BY <1>1, FS_EmptySet DEF Tells

LEMMA InsertTells ==
  ASSUME TypeInv, NoticeInv, NEW r \in Requests, status[r] = "none", NEW p, NEW u,
         NEW to \in {"draft", "submitted"}, NEW by \in {"client", "form"},
         InsertRow(r, p, u, to, by), UNCHANGED notices
  PROVE  NoticeInv'
  <1>0. RowTypes
    BY TypeParts DEF TypeInv
  <1>1. \A q \in Requests : /\ q # r => status'[q] = status[q] /\ history'[q] = history[q]
                            /\ q = r => status'[q] = to /\ history'[q] = <<Entry("none", to, by)>>
    BY <1>0 DEF InsertRow, RowTypes
  <1>2. Entry("none", to, by) \in Entries /\ Entry("none", to, by).by # "office"
    BY StatusFacts DEF Entry, Entries
  <1>3. Tells(notices[r], <<Entry("none", to, by)>>)
    BY <1>2, EmptyTells DEF NoticeInv, Unannounced
  <1>4. NoticesMatchHistory'
    <2> SUFFICES ASSUME NEW q \in Requests, Live(q)' PROVE Tells(notices[q], history'[q])
      BY DEF NoticesMatchHistory
    <2>1. CASE q = r
      BY <1>1, <1>3, <2>1
    <2>2. CASE q # r
      BY <1>1, <2>2 DEF NoticeInv, NoticesMatchHistory, Live
    <2> QED BY <2>1, <2>2
  <1>5. Unannounced'
    BY <1>1 DEF NoticeInv, Unannounced
  <1> QED BY <1>4, <1>5 DEF NoticeInv

LEMMA RemoveTells ==
  ASSUME NoticeInv, NEW rows \in SUBSET Requests, RemoveRows(rows)
  PROVE  NoticeInv'
  <1>1. \A q \in Requests : /\ q \notin rows => status'[q] = status[q] /\ history'[q] = history[q]
                            /\ q \in rows => status'[q] = "deleted"
    BY DEF RemoveRows
  <1>2. UNCHANGED notices
    BY DEF RemoveRows
  <1> QED BY <1>1, <1>2, StatusFacts DEF NoticeInv, NoticesMatchHistory, Unannounced, Live

\* A row that moves, with the notice its entry deserves.
LEMMA MoveTells ==
  ASSUME TypeInv, NoticeInv, NEW r \in Requests, Live(r),
         NEW from \in QuoteRequestStatuses, NEW to \in QuoteRequestStatuses,
         NEW by \in {"client", "form", "office"},
         status' = [status EXCEPT ![r] = to],
         history' = [history EXCEPT ![r] = Append(@, Entry(from, to, by))],
         notices' = [notices EXCEPT ![r] = IF by = "office" /\ to \in ClientVisible
                                           THEN Append(@, to) ELSE @]
  PROVE  NoticeInv'
  <1>0. RowTypes
    BY TypeParts DEF TypeInv
  <1> DEFINE e == Entry(from, to, by)
  <1>1. e \in Entries /\ e.by = by /\ e.to = to
    BY DEF Entry, Entries
  <1> HIDE DEF e
  <1>2. /\ \A q \in Requests \ {r} : /\ status'[q] = status[q] /\ history'[q] = history[q]
                                     /\ notices'[q] = notices[q]
        /\ status'[r] = to /\ history'[r] = Append(history[r], e)
        /\ notices'[r] = IF by = "office" /\ to \in ClientVisible THEN Append(notices[r], to) ELSE notices[r]
    BY <1>0 DEF RowTypes, e
  <1>3. history[r] \in Seq(Entries) /\ notices[r] \in Seq(QuoteRequestStatuses)
        /\ Tells(notices[r], history[r])
    BY <1>0 DEF RowTypes, NoticeInv, NoticesMatchHistory
  <1>4. Tells(notices'[r], history'[r])
    BY <1>1, <1>2, <1>3, TellsMore
  <1>5. NoticesMatchHistory'
    <2> SUFFICES ASSUME NEW q \in Requests, Live(q)' PROVE Tells(notices'[q], history'[q])
      BY DEF NoticesMatchHistory
    <2> QED BY <1>2, <1>4 DEF NoticeInv, NoticesMatchHistory, Live
  <1>6. Unannounced'
    BY <1>2, StatusFacts DEF NoticeInv, Unannounced
  <1> QED BY <1>5, <1>6 DEF NoticeInv

LEMMA NoticeStep == TypeInv /\ NoticeInv /\ [Next]_vars => NoticeInv'
  <1> SUFFICES ASSUME TypeInv, NoticeInv, [Next]_vars PROVE NoticeInv'
    OBVIOUS
  <1>0. RowTypes /\ CallTypes /\ MoveDeclared
    BY TypeParts DEF TypeInv
  <1>1. ASSUME UNCHANGED <<status, history, notices>> PROVE NoticeInv'
    BY <1>1 DEF NoticeInv, NoticesMatchHistory, Unannounced, Live
  <1>2. CASE UNCHANGED rowVars
    BY <1>1, <1>2 DEF rowVars
  <1>3. ASSUME NEW c \in Calls, SaveUpdates(c) PROVE NoticeInv'
    BY <1>1, <1>3 DEF SaveUpdates
  <1>4. ASSUME NEW c \in Calls, SaveCreates(c) PROVE NoticeInv'
    BY <1>4, InsertTells DEF SaveCreates
  <1>5. ASSUME NEW p \in Pages, DeleteDraft(p) PROVE NoticeInv'
    <2>1. RemoveRows({draftId[p]}) /\ draftId[p] \in Requests
      BY <1>5, TypeParts DEF DeleteDraft, OwnDraft, TypeInv, PageTypes
    <2> QED BY <2>1, RemoveTells
  <1>6. ASSUME NEW r \in Requests, Age(r) PROVE NoticeInv'
    BY <1>1, <1>6 DEF Age
  <1>7. CASE CleanupExpiredDrafts
    BY <1>7, RemoveTells DEF CleanupExpiredDrafts
  <1>8. ASSUME NEW c \in Calls, Submit(c) PROVE NoticeInv'
    <2>1. CASE SubmitNew(c)
      BY <2>1, InsertTells DEF SubmitNew
    <2>2. CASE SubmitDraft(c)
      <3>1. req[c].draft \in Requests /\ status[req[c].draft] = "draft"
        BY <1>0, <2>2 DEF SubmitDraft, StillDraft, OwnDraft, CallTypes, Reqs
      <3>2. notices' = [notices EXCEPT ![req[c].draft] =
                          IF "form" = "office" /\ "submitted" \in ClientVisible
                          THEN Append(@, "submitted") ELSE @]
        BY <1>0, <2>2 DEF SubmitDraft, RowTypes
      <3> QED BY <2>2, <3>1, <3>2, MoveTells, StatusFacts DEF SubmitDraft, Live
    <2> QED BY <1>8, <2>1, <2>2 DEF Submit
  <1>9. ASSUME NEW a \in Movers, MoveCommits(a) PROVE NoticeInv'
    <2> DEFINE m == move[a]
               r == m.request
               by == IF a \in Officers THEN "office" ELSE "client"
    <2>1. /\ m # NoMove /\ Apply(m, by) /\ status[r] = m.from
          /\ r \in Requests /\ m.from \in QuoteRequestStatuses /\ m.to \in QuoteRequestStatuses
      BY <1>0, <1>9 DEF MoveCommits, Unmoved, MoveDeclared
    <2>2. by \in {"client", "form", "office"}
      OBVIOUS
    <2> HIDE DEF m, by
    <2>3. CASE m.from = m.to
      <3>1. status' = status /\ history' = history /\ notices' = notices
        BY <1>0, <2>1, <2>3 DEF Apply, RowTypes
      <3> QED BY <1>1, <3>1
    <2>4. CASE m.from # m.to
      <3>1. /\ status' = [status EXCEPT ![r] = m.to]
            /\ history' = [history EXCEPT ![r] = Append(@, Entry(m.from, m.to, by))]
            /\ notices' = [notices EXCEPT ![r] = IF by = "office" /\ m.to \in ClientVisible
                                                 THEN Append(@, m.to) ELSE @]
        BY <2>1, <2>4 DEF Apply, Announced
      <3> QED BY <2>1, <2>2, <3>1, MoveTells DEF Live
    <2> QED BY <2>3, <2>4
  <1> QED BY Writers, <1>2, <1>3, <1>4, <1>5, <1>6, <1>7, <1>8, <1>9 DEF Writer

\* The client hears of every move of the office it should hear of, once and in
\* order, and of nothing else, for histories of any length.
THEOREM NoticesTellHistory == Spec => []NoticesMatchHistory
  <1>1. Init => NoticeInv
    BY StatusFacts DEF Init, NoticeInv, NoticesMatchHistory, Unannounced, Live
  <1>2. NoticeInv => NoticesMatchHistory
    BY DEF NoticeInv
  <1> QED BY TypeInit, TypeStep, NoticeStep, <1>1, <1>2, PTL DEF Spec

-----------------------------------------------------------------------------
(* A submission happens once, and what was submitted is kept.              *)

\* Submitted requests are rows that have left the draft; keys are unique.
Submitted == \A r \in Requests : submittedAt[r] => Live(r) /\ status[r] # "draft"
Receipted == \A r \in Requests : receipts[r] = IF submittedAt[r] THEN 1 ELSE 0
KeysUnique == \A r, s \in Requests : Live(r) /\ Live(s) /\ key[r] = key[s] => r = s

OnceInv == Submitted /\ Receipted /\ KeysUnique

\* What a step leaves of a submitted request.
Kept(r) ==
  submittedAt[r] =>
    /\ submittedAt'[r] /\ status'[r] # "draft"
    /\ owner'[r] = owner[r] /\ key'[r] = key[r] /\ receipts'[r] = receipts[r]
    /\ Len(history'[r]) >= Len(history[r])
    /\ \A k \in 1..Len(history[r]) : history'[r][k] = history[r][k]

LEMMA SameHistory ==
  ASSUME RowTypes, NEW r \in Requests, history'[r] = history[r]
  PROVE  /\ Len(history'[r]) >= Len(history[r])
         /\ \A k \in 1..Len(history[r]) : history'[r][k] = history[r][k]
  <1>1. Len(history[r]) \in Nat
    BY DEF RowTypes
  <1> QED BY <1>1

\* A new row takes a free key.
LEMMA InsertOnce ==
  ASSUME TypeInv, OnceInv, NEW r \in Requests, status[r] = "none",
         NEW p \in Pages, \A q \in Requests : Live(q) => key[q] # p,
         NEW u \in Clients \cup {Nobody}, NEW to \in QuoteRequestStatuses, NEW by,
         InsertRow(r, p, u, to, by)
  PROVE  /\ KeysUnique' /\ Live(r)' /\ status'[r] = to /\ ~submittedAt[r] /\ receipts[r] = 0
         /\ \A q \in Requests \ {r} : /\ status'[q] = status[q] /\ key'[q] = key[q]
                                       /\ owner'[q] = owner[q] /\ history'[q] = history[q]
  <1>0. RowTypes
    BY TypeParts DEF TypeInv
  <1>1. \A q \in Requests \ {r} : /\ status'[q] = status[q] /\ key'[q] = key[q]
                                  /\ owner'[q] = owner[q] /\ history'[q] = history[q]
    BY <1>0 DEF InsertRow, RowTypes
  <1>2. status'[r] = to /\ key'[r] = p /\ Live(r)'
    BY <1>0 DEF InsertRow, RowTypes, Live
  <1>3. KeysUnique'
    BY <1>1, <1>2 DEF KeysUnique, Live, OnceInv
  <1>4. ~submittedAt[r] /\ receipts[r] = 0
    BY <1>0, StatusFacts DEF OnceInv, Submitted, Receipted, Live, RowTypes
  <1> QED BY <1>1, <1>2, <1>3, <1>4

\* Drafts that leave take nothing that was submitted.
LEMMA RemoveOnce ==
  ASSUME TypeInv, OnceInv, NEW rows \in SUBSET Requests,
         \A r \in rows : status[r] = "draft", RemoveRows(rows)
  PROVE  OnceInv' /\ \A r \in Requests : Kept(r)
  <1>0. RowTypes
    BY TypeParts DEF TypeInv
  <1>1. ASSUME NEW r \in rows
        PROVE  /\ ~submittedAt[r] /\ ~submittedAt'[r] /\ receipts[r] = 0 /\ receipts'[r] = 0
               /\ ~Live(r)'
    BY <1>0, <1>1, StatusFacts DEF OnceInv, Submitted, Receipted, RemoveRows, Live, RowTypes
  <1>2. ASSUME NEW r \in Requests \ rows
        PROVE  /\ submittedAt'[r] = submittedAt[r] /\ receipts'[r] = receipts[r]
               /\ status'[r] = status[r] /\ key'[r] = key[r]
               /\ owner'[r] = owner[r] /\ history'[r] = history[r]
    BY <1>2 DEF RemoveRows
  <1>3. Submitted' /\ Receipted' /\ KeysUnique'
    BY <1>1, <1>2 DEF OnceInv, Submitted, Receipted, KeysUnique, Live
  <1>4. ASSUME NEW r \in Requests PROVE Kept(r)
    BY <1>0, <1>1, <1>2, SameHistory DEF Kept, OnceInv, Submitted
  <1> QED BY <1>3, <1>4 DEF OnceInv

\* A step that touches neither statuses, keys, owners, histories nor receipts.
LEMMA IdleOnce ==
  ASSUME TypeInv, OnceInv, UNCHANGED <<status, key, owner, submittedAt, history, receipts>>
  PROVE  OnceInv' /\ \A r \in Requests : Kept(r)
  <1>0. RowTypes
    BY TypeParts DEF TypeInv
  <1>1. OnceInv'
    BY DEF OnceInv, Submitted, Receipted, KeysUnique, Live
  <1>2. ASSUME NEW r \in Requests PROVE Kept(r)
    BY <1>0, SameHistory DEF Kept, OnceInv, Submitted
  <1> QED BY <1>1, <1>2

LEMMA SaveOnce ==
  ASSUME TypeInv, OnceInv, NEW c \in Calls, SaveCreates(c)
  PROVE  OnceInv' /\ \A r \in Requests : Kept(r)
  <1>0. RowTypes /\ Serving
    BY TypeParts DEF TypeInv
  <1>1. /\ req[c].page \in Pages /\ UserOf[req[c].page] \in Clients
        /\ \A q \in Requests : Live(q) => key[q] # req[c].page
        /\ submittedAt' = submittedAt /\ receipts' = receipts
    BY <1>0, QuoteAssumption DEF SaveCreates, Serving, KeyTaken
  <1>2. PICK r \in Requests :
          /\ status[r] = "none"
          /\ InsertRow(r, req[c].page, UserOf[req[c].page], "draft", "client")
    BY DEF SaveCreates
  <1>3. "draft" \in QuoteRequestStatuses
    BY StatusFacts
  <1>4. /\ KeysUnique' /\ ~submittedAt[r]
        /\ \A q \in Requests \ {r} : /\ status'[q] = status[q] /\ key'[q] = key[q]
                                      /\ owner'[q] = owner[q] /\ history'[q] = history[q]
    BY <1>1, <1>2, <1>3, InsertOnce
  <1>5. Submitted' /\ Receipted'
    BY <1>1, <1>4 DEF OnceInv, Submitted, Receipted, Live
  <1>6. ASSUME NEW q \in Requests PROVE Kept(q)
    BY <1>0, <1>1, <1>4, SameHistory DEF Kept, OnceInv, Submitted
  <1> QED BY <1>4, <1>5, <1>6 DEF OnceInv

\* The submission of a form: one request of its page is now submitted.
SubmittedUnder(p) ==
  \E r \in Requests : /\ key[r] = p /\ submittedAt[r] /\ receipts[r] = 1
                      /\ Live(r) /\ status[r] # "draft"

LEMMA SubmitNewOnce ==
  ASSUME TypeInv, OnceInv, NEW c \in Calls, pc[c] # "idle", SubmitNew(c),
         NEW p, p = req[c].page
  PROVE  OnceInv' /\ (\A r \in Requests : Kept(r)) /\ SubmittedUnder(p)'
  <1>0. RowTypes /\ Serving /\ CallTypes
    BY TypeParts DEF TypeInv
  <1>1. req[c].page \in Pages /\ req[c].user \in Clients \cup {Nobody}
    BY <1>0 DEF Serving, CallTypes, Reqs
  <1>2. PICK r \in Requests :
          /\ status[r] = "none"
          /\ KeyFree(req[c].page, r)
          /\ InsertRow(r, req[c].page, req[c].user, "submitted", "form")
          /\ submittedAt' = [submittedAt EXCEPT ![r] = TRUE]
          /\ receipts' = [receipts EXCEPT ![r] = @ + 1]
    BY DEF SubmitNew
  <1>3. "submitted" \in QuoteRequestStatuses
    BY StatusFacts
  <1>4. \A q \in Requests : Live(q) => key[q] # req[c].page
    BY <1>2, StatusFacts DEF KeyFree, Live
  <1>5. /\ KeysUnique' /\ Live(r)' /\ status'[r] = "submitted" /\ ~submittedAt[r] /\ receipts[r] = 0
        /\ \A q \in Requests \ {r} : /\ status'[q] = status[q] /\ key'[q] = key[q]
                                      /\ owner'[q] = owner[q] /\ history'[q] = history[q]
    BY <1>1, <1>2, <1>3, <1>4, InsertOnce
  <1>6. /\ submittedAt'[r] /\ receipts'[r] = 1
        /\ \A q \in Requests \ {r} : submittedAt'[q] = submittedAt[q] /\ receipts'[q] = receipts[q]
    BY <1>0, <1>2, <1>5 DEF RowTypes
  <1>7. Submitted' /\ Receipted'
    BY <1>5, <1>6 DEF OnceInv, Submitted, Receipted, Live
  <1>8. ASSUME NEW q \in Requests PROVE Kept(q)
    BY <1>0, <1>5, <1>6, SameHistory DEF Kept, OnceInv, Submitted
  <1>9. key'[r] = p
    BY <1>0, <1>2 DEF InsertRow, RowTypes
  <1> QED BY <1>5, <1>6, <1>7, <1>8, <1>9 DEF OnceInv, SubmittedUnder

LEMMA SubmitDraftOnce ==
  ASSUME TypeInv, OnceInv, NEW c \in Calls, SubmitDraft(c), NEW p, p = req[c].page
  PROVE  OnceInv' /\ (\A r \in Requests : Kept(r)) /\ SubmittedUnder(p)'
  <1>0. RowTypes /\ CallTypes
    BY TypeParts DEF TypeInv
  <1> SUFFICES ASSUME NEW r \in Requests, r = req[c].draft
               PROVE  OnceInv' /\ (\A q \in Requests : Kept(q)) /\ SubmittedUnder(p)'
    BY <1>0 DEF SubmitDraft, CallTypes, Reqs
  <1>1. status[r] = "draft" /\ Live(r) /\ KeyFree(p, r)
    BY <1>0, StatusFacts DEF SubmitDraft, StillDraft, OwnDraft, Live
  <1>2. ~submittedAt[r] /\ receipts[r] = 0
    BY <1>0, <1>1 DEF OnceInv, Submitted, Receipted, RowTypes
  <1>3. /\ status'[r] = "submitted" /\ key'[r] = p
        /\ submittedAt'[r] /\ receipts'[r] = 1
    BY <1>0, <1>1, <1>2 DEF SubmitDraft, RowTypes
  <1>4. \A q \in Requests \ {r} : /\ status'[q] = status[q] /\ key'[q] = key[q]
                                  /\ submittedAt'[q] = submittedAt[q]
                                  /\ receipts'[q] = receipts[q] /\ history'[q] = history[q]
    BY <1>0, <1>1 DEF SubmitDraft, RowTypes
  <1>5. owner' = owner
    BY DEF SubmitDraft
  <1>6. Live(r)'
    BY <1>3, StatusFacts DEF Live
  <1>7. Submitted' /\ Receipted'
    BY <1>3, <1>4, <1>6 DEF OnceInv, Submitted, Receipted, Live
  <1>8. KeysUnique'
    BY <1>1, <1>3, <1>4 DEF OnceInv, KeysUnique, KeyFree, Live
  <1>9. ASSUME NEW q \in Requests PROVE Kept(q)
    BY <1>0, <1>2, <1>4, <1>5, SameHistory DEF Kept, OnceInv, Submitted
  <1> QED BY <1>3, <1>6, <1>7, <1>8, <1>9 DEF OnceInv, SubmittedUnder

LEMMA MoveOnce ==
  ASSUME TypeInv, OnceInv, NEW a \in Movers, MoveCommits(a)
  PROVE  OnceInv' /\ \A r \in Requests : Kept(r)
  <1> DEFINE m == move[a]
             r == m.request
             by == IF a \in Officers THEN "office" ELSE "client"
  <1>0. RowTypes /\ MoveDeclared
    BY TypeParts DEF TypeInv
  <1>1. /\ m # NoMove /\ Apply(m, by) /\ status[r] = m.from
        /\ r \in Requests /\ m.from \in QuoteRequestStatuses /\ m.to \in QuoteRequestStatuses
        /\ m.from = m.to \/ CanTransition(m.from, m.to)
    BY <1>0 DEF MoveCommits, Unmoved, MoveDeclared
  <1> HIDE DEF m, by
  <1>2. UNCHANGED <<key, owner, submittedAt, receipts>>
    BY <1>1 DEF Apply
  <1>3. /\ status'[r] = m.to
        /\ \A q \in Requests \ {r} : status'[q] = status[q]
    BY <1>0, <1>1 DEF Apply, RowTypes
  <1>4. m.to = "draft" => m.from = "draft"
    BY <1>1, StatusFacts
  <1>5. OnceInv'
    BY <1>1, <1>2, <1>3, <1>4 DEF OnceInv, Submitted, Receipted, KeysUnique, Live
  <1>6. ASSUME NEW q \in Requests
        PROVE  /\ Len(history'[q]) >= Len(history[q])
               /\ \A k \in 1..Len(history[q]) : history'[q][k] = history[q][k]
    <2>1. CASE history'[q] = history[q]
      BY <1>0, <2>1, SameHistory
    <2>2. CASE \E e : history'[q] = Append(history[q], e)
      <3>1. history[q] \in Seq(Entries)
        BY <1>0 DEF RowTypes
      <3> QED BY <2>2, <3>1
    <2>3. history'[q] = history[q] \/ \E e : history'[q] = Append(history[q], e)
      BY <1>0, <1>1 DEF Apply, RowTypes
    <2> QED BY <2>1, <2>2, <2>3
  <1>7. ASSUME NEW q \in Requests PROVE Kept(q)
    BY <1>1, <1>2, <1>3, <1>4, <1>6 DEF Kept, OnceInv, Submitted
  <1> QED BY <1>5, <1>7

LEMMA OnceStep ==
  TypeInv /\ OnceInv /\ [Next]_vars => OnceInv' /\ \A r \in Requests : Kept(r)
  <1> SUFFICES ASSUME TypeInv, OnceInv, [Next]_vars
               PROVE  OnceInv' /\ \A r \in Requests : Kept(r)
    OBVIOUS
  <1> DEFINE Goal == OnceInv' /\ \A r \in Requests : Kept(r)
  <1>1. ASSUME NEW p \in Pages, DeleteDraft(p) PROVE Goal
    <2>1. /\ RemoveRows({draftId[p]}) /\ draftId[p] \in Requests
          /\ \A r \in {draftId[p]} : status[r] = "draft"
      BY <1>1, TypeParts DEF DeleteDraft, OwnDraft, TypeInv, PageTypes
    <2> QED BY <2>1, RemoveOnce
  <1>2. CASE CleanupExpiredDrafts
    BY <1>2, RemoveOnce DEF CleanupExpiredDrafts, Purgeable
  <1>3. ASSUME NEW c \in Calls, Submit(c) PROVE Goal
    BY <1>3, SubmitNewOnce, SubmitDraftOnce DEF Submit
  <1>4. CASE UNCHANGED rowVars
    BY <1>4, IdleOnce DEF rowVars
  <1>5. ASSUME NEW c \in Calls, SaveUpdates(c) PROVE Goal
    BY <1>5, IdleOnce DEF SaveUpdates
  <1>6. ASSUME NEW r \in Requests, Age(r) PROVE Goal
    BY <1>6, IdleOnce DEF Age
  <1> QED BY Writers, SaveOnce, MoveOnce, <1>1, <1>2, <1>3, <1>4, <1>5, <1>6 DEF Writer

LEMMA OnceInit == Init => OnceInv
  BY StatusFacts DEF Init, OnceInv, Submitted, Receipted, KeysUnique, Live

\* However pages, retries, handlers and drafts interleave, a request is submitted
\* once, with one receipt, and a key submits one request.
THEOREM ExactlyOnce == Spec => []SubmittedOnce
  <1>1. OnceInv => SubmittedOnce
    BY DEF OnceInv, Submitted, Receipted, KeysUnique, SubmittedOnce
  <1> QED BY TypeInit, TypeStep, OnceInit, OnceStep, <1>1, PTL DEF Spec

\* No step deletes a submitted request, hands it over or rewrites its history.
THEOREM SubmittedIsKept == Spec => RequestsAreKept
  <1>1. TypeInv /\ OnceInv /\ [Next]_vars
          => [\A r \in Requests : submittedAt[r] =>
               /\ submittedAt'[r] /\ status'[r] # "draft"
               /\ owner'[r] = owner[r] /\ key'[r] = key[r]
               /\ Len(history'[r]) >= Len(history[r])
               /\ \A k \in 1..Len(history[r]) : history'[r][k] = history[r][k]]_vars
    BY OnceStep DEF Kept
  <1> QED BY TypeInit, TypeStep, OnceInit, OnceStep, <1>1, PTL DEF Spec, RequestsAreKept

\* Only a submission that commits tells a page that its request was created.
LEMMA Told ==
  ASSUME TypeInv, [Next]_vars, NEW p \in Pages, told'[p] = "created", told[p] # "created"
  PROVE  \E c \in Calls : Submit(c) /\ req[c].page = p
  <1>0. CallTypes /\ PageTypes /\ Serving
    BY TypeParts DEF TypeInv
  <1>1. ASSUME NEW c \in Calls, NEW answer, Answer(c, answer)
        PROVE  req[c].page = p /\ answer = "created"
    BY <1>0, <1>1 DEF Answer, PageTypes
  <1>2. told' # told
    OBVIOUS
  <1>3. PICK c \in Calls : \/ Find(c) \/ CheckDraft(c) \/ Submit(c)
                           \/ ResolveConflict(c) \/ SubmitFails(c)
    BY <1>2 DEF Next, vars, pageVars, Wizard, SessionChanges, LoadDraft, FillIn, GiveUp,
                DeleteDraft, SendDraft, SendForm, Handler, SaveUpdates, SaveCreates,
                SaveRefused, SubmitConflicts, Age, CleanupExpiredDrafts,
                Workflow, OfficeReads, ClientReads, MoveCommits, MoveFails
  <1>4. ~Find(c) /\ ~CheckDraft(c) /\ ~ResolveConflict(c) /\ ~SubmitFails(c)
    BY <1>1, <1>2 DEF Find, CheckDraft, ResolveConflict, SubmitFails, pageVars
  <1>5. Submit(c) /\ req[c].page = p
    BY <1>1, <1>3, <1>4 DEF Submit
  <1> QED BY <1>5

LEMMA CreatedStep ==
  TypeInv /\ OnceInv /\ CreatedMeansSubmitted /\ [Next]_vars => CreatedMeansSubmitted'
  <1> SUFFICES ASSUME TypeInv, OnceInv, CreatedMeansSubmitted, [Next]_vars,
                      NEW p \in Pages, told'[p] = "created"
               PROVE  SubmittedUnder(p)'
    BY DEF CreatedMeansSubmitted, SubmittedUnder
  <1>1. CASE told[p] = "created"
    <2>1. PICK r \in Requests : key[r] = p /\ submittedAt[r] /\ receipts[r] = 1
      BY <1>1 DEF CreatedMeansSubmitted
    <2>2. Kept(r) /\ Submitted'
      BY OnceStep DEF OnceInv
    <2> QED BY <2>1, <2>2 DEF Kept, Submitted, SubmittedUnder
  <1>2. CASE told[p] # "created"
    <2>1. PICK c \in Calls : Submit(c) /\ req[c].page = p
      BY <1>2, Told
    <2>2. pc[c] # "idle" /\ (SubmitDraft(c) \/ SubmitNew(c))
      BY <2>1 DEF Submit
    <2> QED BY <2>1, <2>2, SubmitNewOnce, SubmitDraftOnce
  <1> QED BY <1>1, <1>2

\* A page answered 201 has its request, submitted and receipted, for ever.
THEOREM CreatedIsTrue == Spec => []CreatedMeansSubmitted
  <1>1. Init => CreatedMeansSubmitted
    BY DEF Init, CreatedMeansSubmitted
  <1> QED BY TypeInit, TypeStep, OnceInit, OnceStep, CreatedStep, <1>1, PTL DEF Spec
=============================================================================
