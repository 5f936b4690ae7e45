--------------------------- MODULE PrivateUploads ---------------------------
(***************************************************************************)
(* The files of a submission: objects of a private store that takes no     *)
(* part in database transactions, rows of quote_attachments that name      *)
(* them, and the script that deletes the objects no row names.             *)
(*                                                                         *)
(* A handler stores its files one after the other, then commits the rows;  *)
(* when anything fails it deletes what it prepared.  What the transaction  *)
(* itself decides is the subject of QuoteRequests.                         *)
(***************************************************************************)
EXTENDS Naturals

CONSTANTS Files,         \* storage keys, drawn at random and never reused
          Handlers,      \* executions of submitQuoteRequest
          HandlerOf,     \* HandlerOf[f]: the execution that prepared file f
          SlowHandlers,  \* may an execution outlast the grace period of its objects?
          AckLoss        \* may a commit be applied and its acknowledgement be lost?

ASSUME UploadAssumption ==
  /\ HandlerOf \in [Files -> Handlers]
  /\ SlowHandlers \in BOOLEAN
  /\ AckLoss \in BOOLEAN

VARIABLES
  object,    \* object[f]: "absent", "fresh", or "old" past the grace period of 24 h
  late,      \* files whose put reported an error and may still be applied
  attached,  \* files named by quote_attachments
  pc,        \* pc[h]: where execution h is; it ends "created", "failed" or "dead"
  left,      \* left[h]: files still to be stored, or still to be deleted
  script,    \* statement the clean-up script is at
  aged,      \* objects past the grace period when the script started
  named,     \* files quote_attachments named when the script read it
  doomed     \* objects the script is going to delete

scriptVars == <<script, aged, named, doomed>>
vars == <<object, late, attached, pc, left, scriptVars>>

FilesOf(h) == {f \in Files : HandlerOf[f] = h}

Init ==
  /\ object = [f \in Files |-> "absent"]
  /\ late = {}
  /\ attached = {}
  /\ pc = [h \in Handlers |-> "new"]
  /\ left = [h \in Handlers |-> {}]
  /\ script = "idle"
  /\ aged = {} /\ named = {} /\ doomed = {}

Store(f) == object' = [object EXCEPT ![f] = "fresh"]
Discard(f) == object' = [object EXCEPT ![f] = "absent"]

-----------------------------------------------------------------------------
(* submitQuoteRequest, from the checked form to the answer.                *)

\* Every file passed its inspection and has its key.
Prepare(h) ==
  /\ pc[h] = "new"
  /\ pc' = [pc EXCEPT ![h] = "put"]
  /\ left' = [left EXCEPT ![h] = FilesOf(h)]
  /\ UNCHANGED <<object, late, attached, scriptVars>>

\* A file is refused before any was stored: there is nothing to delete.
Refuse(h) ==
  /\ pc[h] = "new"
  /\ pc' = [pc EXCEPT ![h] = "failed"]
  /\ UNCHANGED <<object, late, attached, left, scriptVars>>

Put(h) ==
  /\ pc[h] = "put"
  /\ \E f \in left[h] : /\ Store(f)
                        /\ left' = [left EXCEPT ![h] = @ \ {f}]
  /\ UNCHANGED <<late, attached, pc, scriptVars>>

\* A put fails, with or without effect, now or later: all that was prepared goes.
PutFails(h) ==
  /\ pc[h] = "put"
  /\ \E f \in left[h] :
       \/ UNCHANGED <<object, late>>
       \/ Store(f) /\ UNCHANGED late
       \/ late' = late \cup {f} /\ UNCHANGED object
  /\ pc' = [pc EXCEPT ![h] = "remove"]
  /\ left' = [left EXCEPT ![h] = FilesOf(h)]
  /\ UNCHANGED <<attached, scriptVars>>

\* The store applies a put it had reported as failed.
LatePut(f) ==
  /\ f \in late
  /\ late' = late \ {f}
  /\ Store(f)
  /\ UNCHANGED <<attached, pc, left, scriptVars>>

Attach(h) == attached' = attached \cup FilesOf(h)

\* Mutation: the transaction is opened before every file is stored.
BatchStoredAnyway(h) == TRUE

BatchStored(h) == left[h] = {}

\* The transaction commits the request with its attachments.
Commit(h) ==
  /\ pc[h] = "put"
  /\ BatchStored(h)
  /\ Attach(h)
  /\ pc' = [pc EXCEPT ![h] = "created"]
  /\ left' = [left EXCEPT ![h] = {}]
  /\ UNCHANGED <<object, late, scriptVars>>

\* The transaction fails, or its acknowledgement is lost: all that was prepared goes.
CommitFails(h) ==
  /\ pc[h] = "put" /\ left[h] = {}
  /\ UNCHANGED attached \/ (AckLoss /\ Attach(h))
  /\ pc' = [pc EXCEPT ![h] = "remove"]
  /\ left' = [left EXCEPT ![h] = FilesOf(h)]
  /\ UNCHANGED <<object, late, scriptVars>>

\* removeStoredObjects: the deletions run side by side; one that fails is recorded
\* and left to the script.
Remove(h) ==
  /\ pc[h] = "remove"
  /\ \E f \in left[h] : /\ Discard(f) \/ UNCHANGED object
                        /\ left' = [left EXCEPT ![h] = @ \ {f}]
  /\ UNCHANGED <<late, attached, pc, scriptVars>>

Removed(h) ==
  /\ pc[h] = "remove" /\ left[h] = {}
  /\ pc' = [pc EXCEPT ![h] = "failed"]
  /\ UNCHANGED <<object, late, attached, left, scriptVars>>

\* The process dies, between two puts or before it deletes anything.
Crash(h) ==
  /\ pc[h] \in {"put", "remove"}
  /\ pc' = [pc EXCEPT ![h] = "dead"]
  /\ left' = [left EXCEPT ![h] = {}]
  /\ UNCHANGED <<object, late, attached, scriptVars>>

\* The grace period of an object ends.
Age(f) ==
  /\ object[f] = "fresh"
  /\ SlowHandlers \/ pc[HandlerOf[f]] # "put"
  /\ object' = [object EXCEPT ![f] = "old"]
  /\ UNCHANGED <<late, attached, pc, left, scriptVars>>

-----------------------------------------------------------------------------
(* cleanup-orphaned-uploads --apply.                                       *)

\* The cut-off is computed from the clock.
StartScript ==
  /\ script = "idle"
  /\ script' = "rows"
  /\ aged' = {f \in Files : object[f] = "old"}
  /\ UNCHANGED <<object, late, attached, pc, left, named, doomed>>

ReadRows ==
  /\ script = "rows"
  /\ script' = "list"
  /\ named' = attached
  /\ UNCHANGED <<object, late, attached, pc, left, aged, doomed>>

\* Mutations: no grace period; the clean-up looks for objects a row names.
OrphanAnyAge(f) == object[f] # "absent" /\ f \notin named
OrphanNamed(f) == f \in aged /\ object[f] # "absent" /\ f \in named

Orphan(f) == f \in aged /\ object[f] # "absent" /\ f \notin named

ListObjects ==
  /\ script = "list"
  /\ script' = "delete"
  /\ doomed' = {f \in Files : Orphan(f)}
  /\ aged' = {} /\ named' = {}
  /\ UNCHANGED <<object, late, attached, pc, left>>

DeleteObject(f) ==
  /\ script = "delete" /\ f \in doomed
  /\ Discard(f)
  /\ doomed' = doomed \ {f}
  /\ UNCHANGED <<late, attached, pc, left, script, aged, named>>

EndScript ==
  /\ script = "delete" /\ doomed = {}
  /\ script' = "idle"
  /\ UNCHANGED <<object, late, attached, pc, left, aged, named, doomed>>

\* A statement or a deletion fails, or the process dies: the script stops.
ScriptFails ==
  /\ script # "idle"
  /\ script' = "idle"
  /\ aged' = {} /\ named' = {} /\ doomed' = {}
  /\ UNCHANGED <<object, late, attached, pc, left>>

-----------------------------------------------------------------------------
Submission(h) == \/ Prepare(h) \/ Refuse(h) \/ Put(h) \/ PutFails(h) \/ Commit(h)
                 \/ CommitFails(h) \/ Remove(h) \/ Removed(h)

Script == StartScript \/ ReadRows \/ ListObjects \/ EndScript

Next == \/ \E h \in Handlers : Submission(h) \/ Crash(h)
        \/ \E f \in Files : LatePut(f) \/ Age(f) \/ DeleteObject(f)
        \/ Script \/ ScriptFails

Spec == Init /\ [][Next]_vars

\* Handlers end, time goes by, the scheduler starts the script every day, and a
\* deletion that can be tried again and again ends up succeeding.
Fairness == /\ \A h \in Handlers : WF_vars(Submission(h))
            /\ \A f \in Files : WF_vars(Age(f)) /\ SF_vars(DeleteObject(f))
            /\ WF_vars(StartScript) /\ SF_vars(ReadRows) /\ SF_vars(ListObjects)
            /\ WF_vars(EndScript)

FairSpec == Spec /\ Fairness

-----------------------------------------------------------------------------
(* Properties.                                                             *)

TypeOK ==
  /\ object \in [Files -> {"absent", "fresh", "old"}]
  /\ late \subseteq Files
  /\ attached \subseteq Files
  /\ pc \in [Handlers -> {"new", "put", "remove", "created", "failed", "dead"}]
  /\ left \in [Handlers -> SUBSET Files]
  /\ script \in {"idle", "rows", "list", "delete"}
  /\ aged \subseteq Files /\ named \subseteq Files /\ doomed \subseteq Files

\* No row of quote_attachments names an object that is not there: neither the
\* compensation of a handler nor the clean-up script, which reads rows and objects
\* at different times, deletes a file a committed request needs, as long as no
\* handler outlasts the grace period and no acknowledgement of a commit is lost.
NoDanglingAttachment == \A f \in attached : object[f] # "absent"

\* A client told that the request was created has all the files of the request in
\* the store: a partial batch is never confirmed.
CreatedHasFiles ==
  \A h \in Handlers : pc[h] = "created" =>
    \A f \in FilesOf(h) : f \in attached /\ object[f] # "absent"

\* Every object ends up named by a row or deleted, whichever put, transaction,
\* compensation or process failed: the daily script is the safety net.
NoOrphanForever ==
  \A f \in Files : object[f] # "absent" ~> (object[f] = "absent" \/ f \in attached)
=============================================================================
