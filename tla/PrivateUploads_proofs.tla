------------------------ MODULE PrivateUploads_proofs ------------------------
(***************************************************************************)
(* No attachment of a committed request loses its object, for every number *)
(* of files and of handlers, when no handler outlasts the grace period of  *)
(* its objects and no acknowledgement of a commit is lost.                 *)
(***************************************************************************)
EXTENDS PrivateUploads, TLAPS

Ended == {"remove", "failed", "dead"}

\* What is known of a file from where the handler that prepared it is.
FileKept(f) ==
  LET at == pc[HandlerOf[f]] IN
  /\ f \in attached <=> at = "created"
  /\ at = "created" => object[f] # "absent"
  /\ at = "put" /\ f \notin left[HandlerOf[f]] => object[f] = "fresh"
  /\ at = "put" /\ f \in left[HandlerOf[f]] => object[f] = "absent"
  /\ at = "new" => object[f] = "absent"
  /\ f \in late => at \in Ended

\* What the script holds of it: an aged file is past its put, the rows that were
\* read name it if it is attached, and a doomed one can no more be attached.
ScriptSafe(f) ==
  LET at == pc[HandlerOf[f]] IN
  /\ f \in aged => at \notin {"new", "put"}
  /\ script = "list" /\ f \in aged /\ at = "created" => f \in named
  /\ f \in doomed => at \in Ended

Safe == /\ TypeOK
        /\ \A h \in Handlers : left[h] \subseteq FilesOf(h)
        /\ \A f \in Files : FileKept(f) /\ ScriptSafe(f)

-----------------------------------------------------------------------------
\* The steps of a handler: each changes where that handler is, its own files,
\* and nothing of the script.
LEMMA HandlerSafe ==
  ASSUME ~AckLoss, Safe, NEW h \in Handlers, Submission(h) \/ Crash(h)
  PROVE  Safe'
<1> USE UploadAssumption DEF Ended
<1>1. /\ TypeOK /\ \A g \in Handlers : left[g] \subseteq FilesOf(g)
      /\ \A f \in Files : HandlerOf[f] \in Handlers
      /\ \A f \in FilesOf(h) : f \in Files /\ HandlerOf[f] = h
      /\ \A f \in Files \ FilesOf(h) : HandlerOf[f] # h
      /\ FilesOf(h) \in SUBSET Files
  BY DEF Safe, FilesOf
<1>2. CASE Prepare(h)
  <2>1. TypeOK' /\ \A g \in Handlers : left'[g] \subseteq FilesOf(g)
    BY <1>1, <1>2 DEF Prepare, TypeOK, scriptVars
  <2>2. \A f \in Files : FileKept(f)'
    BY <1>1, <1>2 DEF Prepare, TypeOK, Safe, FileKept
  <2>3. \A f \in Files : ScriptSafe(f)'
    BY <1>1, <1>2 DEF Prepare, TypeOK, Safe, FileKept, ScriptSafe, scriptVars
  <2> QED BY <2>1, <2>2, <2>3 DEF Safe, FilesOf
<1>3. CASE Refuse(h)
  <2>1. TypeOK' /\ \A g \in Handlers : left'[g] \subseteq FilesOf(g)
    BY <1>1, <1>3 DEF Refuse, TypeOK, scriptVars
  <2>2. \A f \in Files : FileKept(f)'
    BY <1>1, <1>3 DEF Refuse, TypeOK, Safe, FileKept
  <2>3. \A f \in Files : ScriptSafe(f)'
    BY <1>1, <1>3 DEF Refuse, TypeOK, Safe, FileKept, ScriptSafe, scriptVars
  <2> QED BY <2>1, <2>2, <2>3 DEF Safe, FilesOf
<1>4. CASE Put(h)
  <2>1. TypeOK' /\ \A g \in Handlers : left'[g] \subseteq FilesOf(g)
    BY <1>1, <1>4 DEF Put, Store, TypeOK, scriptVars
  <2>2. \A f \in Files : FileKept(f)'
    BY <1>1, <1>4 DEF Put, Store, TypeOK, Safe, FileKept
  <2>3. \A f \in Files : ScriptSafe(f)'
    BY <1>1, <1>4 DEF Put, TypeOK, Safe, FileKept, ScriptSafe, scriptVars
  <2> QED BY <2>1, <2>2, <2>3 DEF Safe, FilesOf
<1>5. CASE PutFails(h)
  <2>1. TypeOK' /\ \A g \in Handlers : left'[g] \subseteq FilesOf(g)
    BY <1>1, <1>5 DEF PutFails, Store, TypeOK, scriptVars
  <2>2. \A f \in Files : FileKept(f)'
    BY <1>1, <1>5 DEF PutFails, Store, TypeOK, Safe, FileKept
  <2>3. \A f \in Files : ScriptSafe(f)'
    BY <1>1, <1>5 DEF PutFails, TypeOK, Safe, FileKept, ScriptSafe, scriptVars
  <2> QED BY <2>1, <2>2, <2>3 DEF Safe, FilesOf
<1>6. CASE Commit(h)
  <2>1. TypeOK' /\ \A g \in Handlers : left'[g] \subseteq FilesOf(g)
    BY <1>1, <1>6 DEF Commit, BatchStored, Attach, TypeOK, scriptVars
  <2>2. \A f \in Files : FileKept(f)'
    BY <1>1, <1>6 DEF Commit, BatchStored, Attach, TypeOK, Safe, FileKept
  <2>3. \A f \in Files : ScriptSafe(f)'
    BY <1>1, <1>6 DEF Commit, TypeOK, Safe, FileKept, ScriptSafe, scriptVars
  <2> QED BY <2>1, <2>2, <2>3 DEF Safe, FilesOf
<1>7. CASE CommitFails(h)
  <2>1. TypeOK' /\ \A g \in Handlers : left'[g] \subseteq FilesOf(g)
    BY <1>1, <1>7 DEF CommitFails, Attach, TypeOK, scriptVars
  <2>2. \A f \in Files : FileKept(f)'
    BY <1>1, <1>7 DEF CommitFails, Attach, TypeOK, Safe, FileKept
  <2>3. \A f \in Files : ScriptSafe(f)'
    BY <1>1, <1>7 DEF CommitFails, TypeOK, Safe, FileKept, ScriptSafe, scriptVars
  <2> QED BY <2>1, <2>2, <2>3 DEF Safe, FilesOf
<1>8. CASE Remove(h)
  <2>1. TypeOK' /\ \A g \in Handlers : left'[g] \subseteq FilesOf(g)
    BY <1>1, <1>8 DEF Remove, Discard, TypeOK, scriptVars
  <2>2. \A f \in Files : FileKept(f)'
    BY <1>1, <1>8 DEF Remove, Discard, TypeOK, Safe, FileKept
  <2>3. \A f \in Files : ScriptSafe(f)'
    BY <1>1, <1>8 DEF Remove, TypeOK, Safe, FileKept, ScriptSafe, scriptVars
  <2> QED BY <2>1, <2>2, <2>3 DEF Safe, FilesOf
<1>9. CASE Removed(h)
  <2>1. TypeOK' /\ \A g \in Handlers : left'[g] \subseteq FilesOf(g)
    BY <1>1, <1>9 DEF Removed, TypeOK, scriptVars
  <2>2. \A f \in Files : FileKept(f)'
    BY <1>1, <1>9 DEF Removed, TypeOK, Safe, FileKept
  <2>3. \A f \in Files : ScriptSafe(f)'
    BY <1>1, <1>9 DEF Removed, TypeOK, Safe, FileKept, ScriptSafe, scriptVars
  <2> QED BY <2>1, <2>2, <2>3 DEF Safe, FilesOf
<1>10. CASE Crash(h)
  <2>1. TypeOK' /\ \A g \in Handlers : left'[g] \subseteq FilesOf(g)
    BY <1>1, <1>10 DEF Crash, TypeOK, scriptVars
  <2>2. \A f \in Files : FileKept(f)'
    BY <1>1, <1>10 DEF Crash, TypeOK, Safe, FileKept
  <2>3. \A f \in Files : ScriptSafe(f)'
    BY <1>1, <1>10 DEF Crash, TypeOK, Safe, FileKept, ScriptSafe, scriptVars
  <2> QED BY <2>1, <2>2, <2>3 DEF Safe, FilesOf
<1> QED BY <1>2, <1>3, <1>4, <1>5, <1>6, <1>7, <1>8, <1>9, <1>10 DEF Submission

\* The store, the clock and the script.
LEMMA WorldSafe ==
  ASSUME ~SlowHandlers, Safe,
         (\E f \in Files : LatePut(f) \/ Age(f) \/ DeleteObject(f)) \/ Script \/ ScriptFails
  PROVE  Safe'
<1> USE UploadAssumption DEF Ended
<1>1. /\ TypeOK /\ \A g \in Handlers : left[g] \subseteq FilesOf(g)
      /\ \A f \in Files : HandlerOf[f] \in Handlers
  BY DEF Safe
<1>2. ASSUME TypeOK', UNCHANGED left, \A f \in Files : FileKept(f)' /\ ScriptSafe(f)'
      PROVE  Safe'
  BY <1>1, <1>2 DEF Safe, FilesOf
<1>3. ASSUME NEW g \in Files, LatePut(g) \/ Age(g) \/ DeleteObject(g)
      PROVE  Safe'
  <2>1. TypeOK' /\ UNCHANGED left
    BY <1>1, <1>3 DEF LatePut, Age, DeleteObject, Store, Discard, TypeOK, scriptVars
  <2>2. \A f \in Files : FileKept(f)'
    BY <1>1, <1>3 DEF LatePut, Age, DeleteObject, Store, Discard, TypeOK, Safe, FileKept, ScriptSafe
  <2>3. \A f \in Files : ScriptSafe(f)'
    BY <1>1, <1>3 DEF LatePut, Age, DeleteObject, TypeOK, Safe, ScriptSafe, scriptVars
  <2> QED BY <1>2, <2>1, <2>2, <2>3
<1>4. CASE Script \/ ScriptFails
  <2>1. TypeOK' /\ UNCHANGED <<object, late, attached, pc, left>>
    BY <1>1, <1>4 DEF Script, StartScript, ReadRows, ListObjects, EndScript, ScriptFails, Orphan, TypeOK
  <2>2. \A f \in Files : FileKept(f)'
    BY <2>1 DEF Safe, FileKept
  <2>3. \A f \in Files : ScriptSafe(f)'
    <3>1. CASE StartScript
      BY <1>1, <3>1 DEF StartScript, TypeOK, Safe, FileKept, ScriptSafe
    <3>2. CASE ReadRows
      BY <1>1, <3>2 DEF ReadRows, Safe, FileKept, ScriptSafe
    <3>3. CASE ListObjects
      BY <1>1, <3>3 DEF ListObjects, Orphan, TypeOK, Safe, FileKept, ScriptSafe
    <3>4. CASE EndScript \/ ScriptFails
      BY <1>1, <3>4 DEF EndScript, ScriptFails, Safe, ScriptSafe
    <3> QED BY <1>4, <3>1, <3>2, <3>3, <3>4 DEF Script
  <2> QED BY <1>2, <2>1, <2>2, <2>3
<1> QED BY <1>3, <1>4

LEMMA SafeStep == ~SlowHandlers /\ ~AckLoss /\ Safe /\ [Next]_vars => Safe'
<1> SUFFICES ASSUME ~SlowHandlers, ~AckLoss, Safe, [Next]_vars PROVE Safe'
  OBVIOUS
<1>1. CASE UNCHANGED vars
  BY <1>1 DEF vars, scriptVars, Safe, TypeOK, FilesOf, FileKept, ScriptSafe
<1>2. CASE Next
  BY <1>2, HandlerSafe, WorldSafe DEF Next
<1> QED BY <1>1, <1>2

LEMMA SafeAlways ==
  ASSUME SlowHandlers = FALSE, AckLoss = FALSE
  PROVE  Spec => []Safe
<1>1. Init => Safe
  BY UploadAssumption DEF Init, Safe, TypeOK, FilesOf, FileKept, ScriptSafe, Ended
<1>2. Safe /\ [Next]_vars => Safe'
  BY SafeStep
<1> QED BY <1>1, <1>2, PTL DEF Spec

\* No row of quote_attachments names an object that is not there, whatever the
\* compensations of removeStoredObjects and the clean-up script delete, when the
\* grace period outlasts the handlers and a commit that took effect is reported.
THEOREM AttachmentsKept ==
  ASSUME SlowHandlers = FALSE, AckLoss = FALSE
  PROVE  Spec => []NoDanglingAttachment
<1>1. Safe => NoDanglingAttachment
  BY UploadAssumption DEF Safe, TypeOK, FileKept, NoDanglingAttachment
<1> QED BY <1>1, SafeAlways, PTL

\* A submission that answers that the request was created has every one of its
\* files attached and in the store (submitQuoteRequest).
THEOREM CreatedComplete ==
  ASSUME SlowHandlers = FALSE, AckLoss = FALSE
  PROVE  Spec => []CreatedHasFiles
<1>1. Safe => CreatedHasFiles
  BY UploadAssumption DEF Safe, TypeOK, FilesOf, FileKept, CreatedHasFiles
<1> QED BY <1>1, SafeAlways, PTL
=============================================================================
