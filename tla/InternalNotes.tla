---------------------------- MODULE InternalNotes ----------------------------
(***************************************************************************)
(* The notes officers leave on a request: the panel that posts one and     *)
(* asks for the page again, the handler that looks for the request and     *)
(* then inserts the note, and the purge that deletes a draft under it.     *)
(* Nothing links the row of a note to the row of its request.              *)
(***************************************************************************)
EXTENDS Naturals, Sequences

CONSTANTS Pages,         \* panels of officers, open on one request
          Calls,
          Texts,
          PageSize,      \* NOTE_PAGE_SIZE
          MaxNotes,      \* bound: notes in the table
          Patient,       \* does an officer leave the text alone while it is saved?
          NoText, NoPage

\* What the constants are; assumed where values are given.
NotesAssumption ==
  NoText \notin Texts /\ NoPage \notin Pages \cup Calls /\ PageSize \in Nat \ {0} /\ Patient \in BOOLEAN

VARIABLES
  kept,     \* is the request in quote_requests?
  notes,    \* internal_notes of the request, oldest first
  content,  \* content[p]: the text in the box of a panel
  saving,   \* saving[p]: the call the panel waits for, or NoPage
  feedback, \* feedback[p]
  shown,    \* shown[p]: the notes under the box
  call,     \* call[c]: the step of a handler, its page and its text
  typed     \* history: typed[p], the last text typed and not taken back

panels == <<content, saving, feedback, shown, typed>>
vars == <<kept, notes, panels, call>>

Idle == [step |-> "idle", page |-> NoPage, text |-> NoText]

Init ==
  /\ kept = TRUE /\ notes = <<>>
  /\ content = [p \in Pages |-> NoText] /\ typed = [p \in Pages |-> NoText]
  /\ saving = [p \in Pages |-> NoPage] /\ feedback = [p \in Pages |-> "none"]
  /\ shown = [p \in Pages |-> <<>>]
  /\ call = [c \in Calls |-> Idle]

-----------------------------------------------------------------------------
(* The panel.                                                              *)

\* The box is not closed while its text is being saved.
Type(p, t) ==
  /\ content[p] # t /\ (Patient => saving[p] = NoPage)
  /\ content' = [content EXCEPT ![p] = t] /\ typed' = [typed EXCEPT ![p] = t]
  /\ UNCHANGED <<kept, notes, saving, feedback, shown, call>>

Submit(p, c) ==
  /\ saving[p] = NoPage /\ content[p] # NoText
  /\ call[c] = Idle
  /\ saving' = [saving EXCEPT ![p] = c] /\ feedback' = [feedback EXCEPT ![p] = "none"]
  /\ call' = [call EXCEPT ![c] = [step |-> "check", page |-> p, text |-> content[p]]]
  /\ UNCHANGED <<kept, notes, content, shown, typed>>

\* listNotes: the newest, newest first.
Newest ==
  [i \in 1..(IF Len(notes) < PageSize THEN Len(notes) ELSE PageSize) |-> notes[Len(notes) - i + 1]]

Refresh(p) == shown' = [shown EXCEPT ![p] = Newest]

\* The box keeps its text when the note was not saved.
Box(p, outcome) == IF outcome = "saved" THEN NoText ELSE content[p]

Heard(p, outcome) ==
  /\ saving' = [saving EXCEPT ![p] = NoPage]
  /\ feedback' = [feedback EXCEPT ![p] = outcome]
  /\ content' = [content EXCEPT ![p] = Box(p, outcome)]
  /\ IF outcome = "saved" THEN Refresh(p) ELSE UNCHANGED shown

\* The answer does not come: the server cannot be reached, as far as the panel knows.
GiveUp(p) ==
  /\ saving[p] # NoPage /\ Heard(p, "unreachable")
  /\ UNCHANGED <<kept, notes, call, typed>>

Answer(c) ==
  /\ call[c].step \in {"saved", "refused"}
  /\ call' = [call EXCEPT ![c] = Idle]
  /\ IF saving[call[c].page] = c
     THEN Heard(call[c].page, call[c].step)
     ELSE UNCHANGED <<content, saving, feedback, shown>>
  /\ UNCHANGED <<kept, notes, typed>>

-----------------------------------------------------------------------------
(* createInternalNote.                                                     *)

Goto(c, s) == call' = [call EXCEPT ![c].step = s]

EntityExists(c) ==
  /\ call[c].step = "check" /\ Goto(c, IF kept THEN "insert" ELSE "refused")
  /\ UNCHANGED <<kept, notes, panels>>

InsertNote(c) ==
  /\ call[c].step = "insert" /\ Len(notes) < MaxNotes
  /\ notes' = Append(notes, [text |-> call[c].text, author |-> call[c].page])
  /\ Goto(c, "saved") /\ UNCHANGED <<kept, panels>>

\* A limit, a body that is refused, a database that does not answer.
HandlerFails(c) ==
  /\ call[c].step \in {"check", "insert"} /\ Goto(c, "refused")
  /\ UNCHANGED <<kept, notes, panels>>

\* The purge of expired drafts.
Purge == kept /\ kept' = FALSE /\ UNCHANGED <<notes, panels, call>>

Next ==
  \/ Purge
  \/ \E p \in Pages : GiveUp(p) \/ (\E t \in Texts : Type(p, t)) \/ \E c \in Calls : Submit(p, c)
  \/ \E c \in Calls : EntityExists(c) \/ InsertNote(c) \/ HandlerFails(c) \/ Answer(c)

Spec == Init /\ [][Next]_vars
-----------------------------------------------------------------------------
(* Properties.                                                             *)

Note == [text : Texts, author : Pages]

\* Every note and panel has its type.
TypeOK ==
  /\ kept \in BOOLEAN /\ notes \in Seq(Note)
  /\ content \in [Pages -> Texts \cup {NoText}] /\ typed \in [Pages -> Texts \cup {NoText}]
  /\ saving \in [Pages -> Calls \cup {NoPage}] /\ shown \in [Pages -> Seq(Note)]
  /\ feedback \in [Pages -> {"none", "saved", "refused", "unreachable"}]
  /\ call \in [Calls -> [step : {"idle", "check", "insert", "saved", "refused"},
                         page : Pages \cup {NoPage}, text : Texts \cup {NoText}]]

\* What an officer has typed is in the box still, or is a note of theirs: no answer, late
\* or lost, takes a text away that was not saved.
NothingTypedIsLost ==
  \A p \in Pages : content[p] = typed[p] \/ \E i \in DOMAIN notes : notes[i] = [text |-> typed[p], author |-> p]

\* "Une note affichee n'est jamais une note qui n'existe pas en base", and one that is
\* said to be saved is displayed unless a page of newer ones is.
SavedIsShown ==
  \A p \in Pages :
    /\ \A i \in DOMAIN shown[p] : \E j \in DOMAIN notes : notes[j] = shown[p][i]
    /\ feedback[p] = "saved" =>
         \/ \E i \in DOMAIN shown[p] : shown[p][i].author = p
         \/ Len(shown[p]) = PageSize
=============================================================================
