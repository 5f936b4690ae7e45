---------------------------- MODULE RequestLists ----------------------------
(***************************************************************************)
(* What the pages of the requests show while requests come, move and go: a *)
(* list is read page by page, the rows and their total by two queries that *)
(* run at once, and the page of one request reads its row, then its         *)
(* history.  The rows are those of one client, or all of them for the       *)
(* office; no two are created in the same millisecond.                      *)
(***************************************************************************)
EXTENDS RequestWorkflow, Naturals, Sequences, FiniteSets

CONSTANTS Statuses,      \* statuses the requests take
          Filters,       \* statuses a list is filtered by, or "all"
          PageSize,      \* rows of a page: 10 for a client, 20 for the office
          MaxPage,       \* last page the query string may ask for: 1000
          HistoryLimit,  \* entries of the history a page reads: 50, or 100
          MaxRows, MaxMoves

ListsAssumption == /\ {"draft", "submitted"} \subseteq Statuses
                   /\ Statuses \subseteq QuoteRequestStatuses
                   /\ Filters \subseteq Statuses \cup {"all"}
                   /\ {PageSize, MaxPage, HistoryLimit} \subseteq Nat \ {0}
                   /\ {MaxRows, MaxMoves} \subseteq Nat

\* Moves are as few as the entries a page reads: none reads a status that so many
\* others replace before it reads the history.
HistoryReaches == MaxMoves <= HistoryLimit

VARIABLES
  rows,     \* by creation: status, "gone" once deleted, and history
  moves,    \* moves of the office and of the client so far
  walk,     \* the reader, in a list, from its first page on
  detail    \* or the reader, at one request

vars == <<rows, moves, walk, detail>>

NotRead == "not read"
Ids == DOMAIN rows

Listed(all, filter) == {i \in DOMAIN all : all[i].status # "gone" /\ filter \in {"all", all[i].status}}

NoWalk == [step |-> "closed", filter |-> "all", page |-> 1, items |-> {}, total |-> 0,
           read |-> {}, here |-> {}, shown |-> {}, left |-> 0, raced |-> 0]
NoDetail == [reader |-> "client", request |-> 1, reads |-> <<>>, status |-> NotRead, history |-> <<>>]

Init == rows = <<>> /\ moves = 0 /\ walk = NoWalk /\ detail = NoDetail

-----------------------------------------------------------------------------
(* The requests.                                                           *)

\* What the walk under way misses through no fault of its own: rows that leave its
\* list, and rows that enter it between the two queries of a page.
Watched(newRows) ==
  LET before == Listed(rows, walk.filter)
      after == Listed(newRows, walk.filter)
  IN IF walk.step # "reading" THEN walk
     ELSE [walk EXCEPT !.here = @ \cap after,
                       !.left = @ + Cardinality(before \ after),
                       !.raced = @ + IF Cardinality(walk.read) = 1
                                     THEN Cardinality(after \ before) ELSE 0]

Change(newRows) == rows' = newRows /\ walk' = Watched(newRows) /\ UNCHANGED detail

Entry(from, to) == [previousStatus |-> from, newStatus |-> to]

\* A draft is saved, or a request submitted that was none.
Create == /\ Len(rows) < MaxRows
          /\ \E status \in {"draft", "submitted"} :
               Change(Append(rows, [status |-> status, history |-> <<Entry("none", status)>>]))
          /\ UNCHANGED moves

\* A draft is submitted, an officer or the client moves a request: one transaction for
\* the status and its entry.
Move(i) ==
  /\ moves < MaxMoves /\ moves' = moves + 1
  /\ rows[i].status # "gone"
  /\ \E to \in Statuses :
       /\ CanTransition(rows[i].status, to)
       /\ Change([rows EXCEPT ![i] = [status |-> to,
                                      history |-> Append(@.history, Entry(@.status, to))]])

\* A draft that is too old is purged.
Purge(i) == /\ rows[i].status = "draft"
            /\ Change([rows EXCEPT ![i].status = "gone"])
            /\ UNCHANGED moves

-----------------------------------------------------------------------------
(* A list.                                                                 *)

\* PaginationSchema.
Pagination(page) == IF page \in 1..MaxPage THEN page ELSE 1

PageCount(total) == IF total = 0 THEN 1 ELSE (total + PageSize - 1) \div PageSize

OpenList ==
  /\ walk.step # "reading" /\ detail.reads = <<>>
  /\ \E filter \in Filters :
       walk' = [NoWalk EXCEPT !.step = "reading", !.filter = filter, !.here = Listed(rows, filter)]
  /\ detail' = NoDetail
  /\ UNCHANGED <<rows, moves>>

\* Newest first: the place of a row in a list.
Rank(list, i) == Cardinality({j \in list : j >= i})

\* With limit and offset.
ReadRows ==
  LET list == Listed(rows, walk.filter)
      offset == (walk.page - 1) * PageSize
  IN
  /\ walk.step = "reading" /\ "rows" \notin walk.read
  /\ walk' = [walk EXCEPT !.read = @ \cup {"rows"},
                          !.items = {i \in list : Rank(list, i) \in offset + 1 .. offset + PageSize}]
  /\ UNCHANGED <<rows, moves, detail>>

ReadTotal ==
  /\ walk.step = "reading" /\ "total" \notin walk.read
  /\ walk' = [walk EXCEPT !.read = @ \cup {"total"}, !.total = Cardinality(Listed(rows, walk.filter))]
  /\ UNCHANGED <<rows, moves, detail>>

\* The page is shown, and its reader follows "Suivant" as long as there is one.
Show ==
  LET seen == [walk EXCEPT !.shown = @ \cup walk.items, !.read = {}, !.items = {}, !.total = 0] IN
  /\ walk.read = {"rows", "total"}
  /\ walk' = IF walk.page < PageCount(walk.total)
             THEN [seen EXCEPT !.page = Pagination(@ + 1)]
             ELSE [seen EXCEPT !.step = "over"]
  /\ UNCHANGED <<rows, moves, detail>>

-----------------------------------------------------------------------------
(* One request.                                                            *)

\* Mutation: the history is read before the row.
HistoryFirst == <<"history", "row">>

ReadOrder == <<"row", "history">>

OpenDetail(i) ==
  /\ walk.step # "reading" /\ detail.reads = <<>>
  /\ \E reader \in {"client", "office"} :
       detail' = [NoDetail EXCEPT !.reader = reader, !.request = i, !.reads = ReadOrder]
  /\ walk' = NoWalk
  /\ UNCHANGED <<rows, moves>>

\* A row that is gone is not found.
ReadRow ==
  LET row == rows[detail.request] IN
  /\ detail.reads # <<>> /\ Head(detail.reads) = "row"
  /\ detail' = IF row.status = "gone" THEN NoDetail
               ELSE [detail EXCEPT !.reads = Tail(@), !.status = row.status]
  /\ UNCHANGED <<rows, moves, walk>>

\* The newest entries for the client, the oldest for the office.
ReadHistory ==
  LET history == rows[detail.request].history
      beyond == IF Len(history) > HistoryLimit THEN Len(history) - HistoryLimit ELSE 0
  IN
  /\ detail.reads # <<>> /\ Head(detail.reads) = "history"
  /\ detail' = [detail EXCEPT !.reads = Tail(@), !.history =
       IF detail.reader = "client" THEN SubSeq(history, beyond + 1, Len(history))
       ELSE SubSeq(history, 1, Len(history) - beyond)]
  /\ UNCHANGED <<rows, moves, walk>>

Next == \/ Create \/ \E i \in Ids : Move(i) \/ Purge(i)
        \/ OpenList \/ ReadRows \/ ReadTotal \/ Show
        \/ \E i \in Ids : OpenDetail(i)
        \/ ReadRow \/ ReadHistory

Spec == Init /\ [][Next]_vars
-----------------------------------------------------------------------------
(* Properties.                                                             *)

Entries == [previousStatus : Statuses \cup {"none"}, newStatus : Statuses]
Rows == [status : Statuses \cup {"gone"}, history : Seq(Entries)]

\* Rows and readers are well typed.
TypeOK ==
  /\ rows \in Seq(Rows) /\ moves \in 0..MaxMoves
  /\ walk.step \in {"closed", "reading", "over"} /\ walk.page \in 1..MaxPage
  /\ walk.here \cup walk.shown \cup walk.items \subseteq Ids
  /\ detail.reader \in {"client", "office"}
  /\ detail.status \in Statuses \cup {NotRead} /\ detail.history \in Seq(Entries)

\* Whoever follows the pages of a list to the end has seen every row that stayed in
\* it, but for one at most for each row that left the list under way, and for each
\* that entered it between the two queries of a page.
MissedOnlyByRaces ==
  walk.step = "over" => Cardinality(walk.here \ walk.shown) <= walk.left + walk.raced

\* The history a page shows explains the status above it: the status is where an
\* entry leads, or where one starts from when the request moved on meanwhile.  The
\* office reads the oldest entries, and is told only while all of them fit.
StatusIsExplained ==
  (/\ detail.status # NotRead /\ detail.reads = <<>>
   /\ detail.reader = "client" \/ Len(rows[detail.request].history) <= HistoryLimit)
  => \E k \in 1..Len(detail.history) :
       detail.status \in {detail.history[k].previousStatus, detail.history[k].newStatus}
=============================================================================
