----------------------------- MODULE Documents -----------------------------
(***************************************************************************)
(* The summary of one quote request: the row of documents, its numbered    *)
(* versions, their files in the private store, the generations that make   *)
(* them and the readers that fetch them.                                   *)
(*                                                                         *)
(* A call is one execution of a handler; a statement, a transaction or a   *)
(* request to the store is one action.  The printed data of the request is *)
(* its fingerprint, and so is a file, which is printed from it.  A version *)
(* is named by its number within its document.                             *)
(***************************************************************************)
EXTENDS Naturals, FiniteSets, DocumentAccess

CONSTANTS Calls,        \* handler executions alive at one time
          Docs,         \* identifiers of rows of documents, never reused
          Users, RoleOf,
          Owner,        \* the client whose request it is
          MaxVersions,  \* bound: versions of the documents together
          Prints,       \* fingerprints the data of the request may have
          AckLoss,      \* may a publication be applied and its acknowledgement be lost?
          Nobody, NoDoc, NoPrint

\* What the constants are; assumed where values are given.
DocumentAssumption ==
  /\ RoleOf \in [Users -> UserRoles]
  /\ Owner \in Users
  /\ MaxVersions \in Nat
  /\ NoPrint \notin Prints
  /\ AckLoss \in BOOLEAN
  /\ Nobody \notin Users /\ NoDoc \notin Docs

VARIABLES
  print,     \* fingerprint of the data of the request
  assigned,  \* assigned_to_user_id of the request
  made,      \* rows of documents
  current,   \* current[d]: number behind current_version_id, 0 for none
  version,   \* version[d][n]: a row of document_versions
  file,      \* file[d][n]: the object under the key of the version, NoPrint for none
  pc,        \* pc[c]: the statement call c is at
  call,      \* call[c]: what call c has read
  told,      \* history: versions that were answered to an operator, with their data
  overlapped \* history: has a generation begun while another was under way?

documents == <<made, current, version>>
request == <<print, assigned>>
records == <<told, overlapped>>
vars == <<request, documents, file, pc, call, records>>

Numbers == 1..MaxVersions
NoVersion == [state |-> "none", print |-> NoPrint, superseded |-> FALSE]
Idle == [doc |-> NoDoc, number |-> 0, print |-> NoPrint, force |-> FALSE]

Init ==
  /\ print \in Prints /\ assigned = Nobody
  /\ made = {} /\ current = [d \in Docs |-> 0]
  /\ version = [d \in Docs |-> [n \in Numbers |-> NoVersion]]
  /\ file = [d \in Docs |-> [n \in Numbers |-> NoPrint]]
  /\ pc = [c \in Calls |-> "idle"] /\ call = [c \in Calls |-> Idle]
  /\ told = {} /\ overlapped = FALSE

Goto(c, at, read) == /\ pc' = [pc EXCEPT ![c] = at]
                     /\ call' = [call EXCEPT ![c] = read]
Return(c) == Goto(c, "idle", Idle)

\* The office or the client moves the request: what is printed changes.
RequestChanges ==
  /\ \E p \in Prints \ {print} : print' = p
  /\ UNCHANGED <<assigned, documents, file, pc, call, records>>

AssignRequest ==
  /\ \E u \in Users \cup {Nobody} :
       /\ u # assigned /\ (u # Nobody => RoleOf[u] # "client")
       /\ assigned' = u
  /\ UNCHANGED <<print, documents, file, pc, call, records>>

-----------------------------------------------------------------------------
(* generateQuoteRequestSummary and its route.                              *)

GenerationSteps == {"load", "find", "reuse", "reserve", "render", "put", "publish", "fail"}
Generating == {c \in Calls : pc[c] \in GenerationSteps}

\* The route: the administration, or the operator of this request.
MayGenerate(u) == RoleOf[u] = "admin" \/ (RoleOf[u] = "staff" /\ assigned = u)

AskGeneration(c, u, force) ==
  /\ pc[c] = "idle" /\ MayGenerate(u)
  /\ overlapped' = (overlapped \/ Generating # {})
  /\ Goto(c, "load", [Idle EXCEPT !.force = force])
  /\ UNCHANGED <<request, documents, file, told>>

\* Mutation: the fingerprint is not taken with the data.
LoadSourceBare(c) ==
  /\ pc[c] = "load"
  /\ Goto(c, "find", call[c])
  /\ UNCHANGED <<request, documents, file, records>>

LoadSource(c) ==
  /\ pc[c] = "load"
  /\ Goto(c, "find", [call[c] EXCEPT !.print = print])
  /\ UNCHANGED <<request, documents, file, records>>

\* One of the documents of the request, with its current version, or none.
FindDocument(c) ==
  /\ pc[c] = "find"
  /\ \/ made = {} /\ Goto(c, "reserve", call[c])
     \/ \E d \in made :
          IF call[c].force \/ current[d] = 0
          THEN Goto(c, "reserve", [call[c] EXCEPT !.doc = d])
          ELSE Goto(c, "reuse", [call[c] EXCEPT !.doc = d, !.number = current[d]])
  /\ UNCHANGED <<request, documents, file, records>>

\* Mutation: any published current version will do.
ReusableStale(v, p) == v.state = "ready"

Reusable(v, p) == v.state = "ready" /\ v.print = p

Answer(c) ==
  /\ told' = told \cup {[doc |-> call[c].doc, number |-> call[c].number, print |-> call[c].print]}
  /\ Return(c)

\* findReusableVersion: the current version, when it was printed from this data.
ReuseVersion(c) ==
  /\ pc[c] = "reuse"
  /\ IF Reusable(version[call[c].doc][call[c].number], call[c].print)
     THEN Answer(c) ELSE Goto(c, "reserve", [call[c] EXCEPT !.number = 0]) /\ told' = told
  /\ UNCHANGED <<request, documents, file, overlapped>>

Taken(d) == {n \in Numbers : version[d][n].state # "none"}
RoomLeft == Cardinality({x \in Docs \X Numbers : x[2] \in Taken(x[1])}) < MaxVersions

\* Mutation: the next number is counted among the published versions.
IsNextReady(d, n) == n = Cardinality({m \in Numbers : version[d][m].state = "ready"}) + 1

\* One more than the greatest number of the document.
IsNext(d, n) == /\ n = 1 \/ n - 1 \in Taken(d)
                /\ \A m \in Taken(d) : m < n

Target(c) == IF call[c].doc # NoDoc THEN {call[c].doc} ELSE Docs \ made

\* The transaction of step 1: the document if there is none, and a pending version
\* under the next number.  A number taken meanwhile is refused by its unique index:
\* the call dies.
Reserve(c) ==
  /\ pc[c] = "reserve" /\ RoomLeft
  /\ \E d \in Target(c), n \in Numbers :
       /\ IsNext(d, n)
       /\ made' = made \cup {d}
       /\ version' = [version EXCEPT ![d][n] =
            [state |-> "pending", print |-> call[c].print, superseded |-> FALSE]]
       /\ Goto(c, "render", [call[c] EXCEPT !.doc = d, !.number = n, !.force = FALSE])
  /\ UNCHANGED <<request, current, file, records>>

Render(c) ==
  /\ pc[c] = "render"
  /\ Goto(c, "put", call[c]) \/ Goto(c, "fail", [call[c] EXCEPT !.print = NoPrint])
  /\ UNCHANGED <<request, documents, file, records>>

Write(c) == file' = [file EXCEPT ![call[c].doc][call[c].number] = call[c].print]

\* Mutation: the answer of the store is not waited for.
PutUnanswered(c) ==
  /\ pc[c] = "put"
  /\ Goto(c, "publish", call[c]) /\ (Write(c) \/ file' = file)
  /\ UNCHANGED <<request, documents, records>>

\* putPrivateObject; one that fails may have written.
PutFile(c) ==
  /\ pc[c] = "put"
  /\ \/ Goto(c, "publish", call[c]) /\ Write(c)
     \/ Goto(c, "fail", [call[c] EXCEPT !.print = NoPrint]) /\ (Write(c) \/ file' = file)
  /\ UNCHANGED <<request, documents, records>>

\* Mutation: the previous version is not marked.
SupersedesNone(d, n, m) == FALSE

\* Every other version of the document that is not marked yet, whatever its state.
Supersedes(d, n, m) == m # n

\* The transaction of step 3.
Published(d, n) ==
  /\ version' = [version EXCEPT ![d] = [m \in Numbers |->
       IF m = n THEN [version[d][m] EXCEPT !.state = "ready"]
       ELSE IF version[d][m].state # "none" /\ Supersedes(d, n, m)
            THEN [version[d][m] EXCEPT !.superseded = TRUE]
       ELSE version[d][m]]]
  /\ current' = [current EXCEPT ![d] = n]

Publish(c) ==
  /\ pc[c] = "publish"
  /\ Published(call[c].doc, call[c].number)
  /\ Answer(c)
  /\ UNCHANGED <<request, made, file, overlapped>>

\* The publication is refused, or its acknowledgement is lost.
PublishFails(c) ==
  /\ pc[c] = "publish"
  /\ \/ UNCHANGED <<version, current>>
     \/ AckLoss /\ Published(call[c].doc, call[c].number)
  /\ Goto(c, "fail", [call[c] EXCEPT !.print = NoPrint])
  /\ UNCHANGED <<request, made, file, records>>

\* failAndThrow: the update is by identifier, whatever the version has become.
RecordFailure(c) ==
  /\ pc[c] = "fail"
  /\ version' = [version EXCEPT ![call[c].doc][call[c].number].state = "failed"]
  /\ Return(c)
  /\ UNCHANGED <<request, made, current, file, records>>

-----------------------------------------------------------------------------
(* resolveDocumentForDelivery, for a download or a view.                   *)

Row(d) == [owner |-> Owner, visibility |-> "client_and_staff", status |-> "generated",
           assigned |-> assigned, archived |-> FALSE, deleted |-> FALSE]

\* The document is read with the operator of its request; the version asked for is
\* the current one or a number.
AskDocument(c, u, d, action) ==
  /\ pc[c] = "idle" /\ d \in made
  /\ AuthorizeDocumentAccess([id |-> u, role |-> RoleOf[u]], Row(d), action)
  /\ \E n \in {current[d]} \cup Numbers :
       /\ n # 0
       /\ Goto(c, "locate", [Idle EXCEPT !.doc = d, !.number = n])
  /\ UNCHANGED <<request, documents, file, records>>

Deliverable(v) == v.state = "ready"

LocateVersion(c) ==
  /\ pc[c] = "locate"
  /\ IF Deliverable(version[call[c].doc][call[c].number])
     THEN Goto(c, "fetch", call[c]) ELSE Return(c)
  /\ UNCHANGED <<request, documents, file, records>>

\* readPrivateObject; without the object the answer is 503.
FetchFile(c) ==
  LET bytes == file[call[c].doc][call[c].number] IN
  /\ pc[c] = "fetch"
  /\ IF bytes # NoPrint THEN Goto(c, "deliver", [call[c] EXCEPT !.print = bytes]) ELSE Return(c)
  /\ UNCHANGED <<request, documents, file, records>>

Deliver(c) ==
  /\ pc[c] = "deliver"
  /\ Return(c)
  /\ UNCHANGED <<request, documents, file, records>>

\* The office opens the page of the request: the documents are read, with the version
\* each has in force, and then the versions of each.
OpenPanel(c) ==
  /\ pc[c] = "idle"
  /\ \E u \in Users, d \in made :
       /\ RoleOf[u] # "client"
       /\ Goto(c, "panel", [Idle EXCEPT !.doc = d, !.number = current[d]])
  /\ UNCHANGED <<request, documents, file, records>>

\* What the panel marks as the version in force, among the versions it shows.
Courante(c) == {n \in Taken(call[c].doc) : n = call[c].number}

ShowPanel(c) ==
  /\ pc[c] = "panel"
  /\ Return(c)
  /\ UNCHANGED <<request, documents, file, records>>

\* A statement fails or the process dies: what was committed stays.
CallDies(c) ==
  /\ pc[c] # "idle"
  /\ Return(c)
  /\ UNCHANGED <<request, documents, file, records>>

Generation(c) ==
  \/ \E u \in Users, force \in BOOLEAN : AskGeneration(c, u, force)
  \/ LoadSource(c) \/ FindDocument(c) \/ ReuseVersion(c) \/ Reserve(c) \/ Render(c)
  \/ PutFile(c) \/ Publish(c) \/ PublishFails(c) \/ RecordFailure(c)

Reading(c) ==
  \/ \E u \in Users, d \in Docs, action \in {"view", "download"} : AskDocument(c, u, d, action)
  \/ LocateVersion(c) \/ FetchFile(c) \/ Deliver(c)
  \/ OpenPanel(c) \/ ShowPanel(c)

Next == \/ \E c \in Calls : Generation(c) \/ Reading(c) \/ CallDies(c)
        \/ RequestChanges \/ AssignRequest

Spec == Init /\ [][Next]_vars
-----------------------------------------------------------------------------
(* Properties.                                                             *)

Versions == [state : {"none", "pending", "ready", "failed"},
             print : Prints \cup {NoPrint}, superseded : BOOLEAN]
Statements == GenerationSteps \cup {"idle", "locate", "fetch", "deliver", "panel"}
Readings == [doc : Docs \cup {NoDoc}, number : 0..MaxVersions,
             print : Prints \cup {NoPrint}, force : BOOLEAN]

\* Every row, file, call and record has its type.
TypeOK ==
  /\ print \in Prints /\ assigned \in Users \cup {Nobody}
  /\ made \subseteq Docs /\ current \in [Docs -> 0..MaxVersions]
  /\ version \in [Docs -> [Numbers -> Versions]]
  /\ file \in [Docs -> [Numbers -> Prints \cup {NoPrint}]]
  /\ pc \in [Calls -> Statements] /\ call \in [Calls -> Readings]
  /\ told \subseteq [doc : Docs, number : Numbers, print : Prints]
  /\ overlapped \in BOOLEAN

Ready(d) == {n \in Numbers : version[d][n].state = "ready"}

\* "Un document annonce disponible mais introuvable au telechargement est
\* impossible": a published version has its own file, and the current version is
\* published, whatever generation was refused, failed or died half-way.
PublishedHasItsFile ==
  \A d \in Docs : /\ \A n \in Ready(d) : file[d][n] = version[d][n].print
                  /\ current[d] # 0 => current[d] \in Ready(d)

\* What is handed out is published: an operator who was told of a version finds it
\* ready and printed from the data that was read for the answer, ever after, and a
\* reader receives the published file of the version that was located, not the bytes
\* of a generation under way or of one that failed.  The panel of the office, which
\* reads the versions after it read which is in force, offers that one to download.
HandedOutIsPublished ==
  /\ \A t \in told : t.number \in Ready(t.doc) /\ file[t.doc][t.number] = t.print
  /\ \A c \in Calls : pc[c] = "deliver" =>
       call[c].number \in Ready(call[c].doc)
       /\ call[c].print = version[call[c].doc][call[c].number].print
  /\ \A c \in Calls : pc[c] = "panel" =>
       Courante(c) \subseteq Ready(call[c].doc) /\ (call[c].number # 0 => Courante(c) # {})

\* While generations follow one another, deaths and failures included, a request
\* has one document and its last published version is the one in force: current,
\* and the only one not superseded.
LastVersionInForce ==
  ~overlapped =>
    /\ Cardinality(made) <= 1
    /\ \A d \in made :
         /\ \A n \in Ready(d) : n <= current[d]
         /\ {n \in Ready(d) : ~version[d][n].superseded} = {current[d]} \ {0}

\* "Exactement celle qu'il a recue": a published version and its file never change,
\* whatever generation fails, dies or overlaps another, and operators are told of such
\* versions: the calls, their transactions and the files implement the promise of
\* SummaryVersions, where what is published is the file of a ready version.
Versioned == INSTANCE SummaryVersions WITH
  published <- [d \in Docs |-> [n \in Numbers |->
                  IF version[d][n].state = "ready" THEN file[d][n] ELSE NoPrint]]

VersionsSpec == Versioned!Spec

\* Who may view or download what: the rules of docs/documents.md, for every row the
\* document may have while its request is assigned as it is.
Subjects == [id : Users, role : UserRoles]
Rows == [owner : {Owner}, visibility : DocumentVisibilities, status : DocumentStatuses,
         assigned : {assigned}, archived : BOOLEAN, deleted : BOOLEAN]
Reader(s, t) == AuthorizeDocumentAccess(s, t, "download")

\* While a reader is being answered: a document is downloaded by the administration,
\* by the operator its request is assigned to when staff may see it, by its owner when
\* clients may, and by nobody else, so that an operator who lost the request has lost
\* its document; none once it is deleted; and what a client is shown in the list can
\* be downloaded.
OnlyTheRightReaders ==
  (\E c \in Calls : pc[c] = "locate") =>
    \A t \in Rows :
      /\ \A s \in Subjects : Reader(s, t) =>
           /\ ~t.deleted
           /\ s.role = "staff" => s.id = assigned
           /\ s.role = "client" => s.id = Owner /\ ~t.archived
           /\ t.visibility = "private_admin" => s.role = "admin"
      /\ \A u \in Users : ListedForOwner(u, t) => Reader([id |-> u, role |-> "client"], t)
=============================================================================
