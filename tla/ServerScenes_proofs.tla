------------------------ MODULE ServerScenes_proofs -------------------------
(***************************************************************************)
(* Documents, and the scenes that run on a server: scripts, quotas,        *)
(* addresses, decisions, totals and sessions.  For each scene an invariant *)
(* of its own, true at the start and kept by every step, for all values of *)
(* the constants.                                                          *)
(***************************************************************************)
EXTENDS ServerScenes, FiniteSetTheorems, SequenceTheorems, TLAPS

-----------------------------------------------------------------------------
(* The summary of a request (Documents): a published version has its own   *)
(* file, is what was handed out, and stays as it is, when no acknowledgement*)
(* of a publication is lost; and the verdict on an access lets through the *)
(* readers of the matrix, and no other.                                    *)

\* Where a call holds a version of its own: nobody else knows its number yet.
Holding == {"render", "put", "publish", "fail"}

\* What a call at a statement has read.
KnownAt(at, read) ==
  /\ at \in {"find", "reuse", "reserve", "render", "put", "publish"} => read.print \in Prints
  /\ at \in Holding \cup {"reuse", "locate", "fetch", "deliver"} =>
       read.doc \in Docs /\ read.number \in Numbers
  /\ at = "panel" => read.doc \in Docs

Known == \A c \in Calls : KnownAt(pc[c], call[c])

WellTyped == TypeOK /\ Known

-----------------------------------------------------------------------------
\* A call that goes on leaves the others where they are.
LEMMA GotoTyping ==
  ASSUME WellTyped, NEW c \in Calls, NEW at \in Statements, NEW read \in Readings,
         Goto(c, at, read), KnownAt(at, read)
  PROVE  pc' \in [Calls -> Statements] /\ call' \in [Calls -> Readings] /\ Known'
<1>1. pc' \in [Calls -> Statements] /\ call' \in [Calls -> Readings]
      /\ \A e \in Calls : IF e = c THEN pc'[e] = at /\ call'[e] = read
                          ELSE pc'[e] = pc[e] /\ call'[e] = call[e]
  BY DEF Goto, WellTyped, TypeOK
<1>2. ASSUME NEW e \in Calls PROVE KnownAt(pc'[e], call'[e])
  BY <1>1 DEF WellTyped, Known
<1>3. Numbers' = Numbers /\ Holding' = Holding BY DEF Numbers, Holding
<1>4. Known' BY <1>2, <1>3 DEF Known, KnownAt
<1> QED BY <1>1, <1>4

LEMMA ReturnTyping ==
  ASSUME DocumentAssumption, WellTyped, NEW c \in Calls, Return(c)
  PROVE  pc' \in [Calls -> Statements] /\ call' \in [Calls -> Readings] /\ Known'
<1>1. Idle \in Readings /\ "idle" \in Statements /\ KnownAt("idle", Idle)
  BY DEF DocumentAssumption, Idle, Readings, Statements, KnownAt, Holding
<1> QED BY <1>1, GotoTyping DEF Return

\* The transaction of a publication.
LEMMA PublishedTyping ==
  ASSUME DocumentAssumption, TypeOK, NEW d \in Docs, NEW n \in Numbers, Published(d, n)
  PROVE  /\ version' \in [Docs -> [Numbers -> Versions]]
         /\ current' \in [Docs -> 0..MaxVersions]
<1>1. \A m \in Numbers : version[d][m] \in Versions BY DEF TypeOK
<1>2. \A m \in Numbers : /\ [version[d][m] EXCEPT !.state = "ready"] \in Versions
                         /\ [version[d][m] EXCEPT !.superseded = TRUE] \in Versions
  BY <1>1 DEF Versions
<1>3. [m \in Numbers |->
         IF m = n THEN [version[d][m] EXCEPT !.state = "ready"]
         ELSE IF version[d][m].state # "none" /\ Supersedes(d, n, m)
              THEN [version[d][m] EXCEPT !.superseded = TRUE]
         ELSE version[d][m]] \in [Numbers -> Versions]
  BY <1>1, <1>2
<1> QED BY <1>3 DEF Published, TypeOK, Numbers, DocumentAssumption

LEMMA GenerationTyping ==
  ASSUME DocumentAssumption, WellTyped, NEW c \in Calls, Generation(c)
  PROVE  WellTyped'
<1> USE DEF Numbers, Holding
<1>1. /\ Idle \in Readings /\ call[c] \in Readings /\ KnownAt(pc[c], call[c])
      /\ print \in Prints /\ made \subseteq Docs /\ NoPrint \notin Prints
      /\ \A d \in Docs : current[d] \in 0..MaxVersions
      /\ MaxVersions \in Nat
  BY DEF DocumentAssumption, WellTyped, Known, TypeOK, Idle, Readings
<1>2. /\ {"load", "find", "reserve", "reuse", "render", "put", "publish", "fail"} \subseteq Statements
  BY DEF Statements, GenerationSteps
<1> DEFINE Progress == pc' \in [Calls -> Statements] /\ call' \in [Calls -> Readings] /\ Known'
<1>3. ASSUME NEW at \in Statements, NEW read \in Readings, Goto(c, at, read), KnownAt(at, read)
      PROVE  Progress
  BY <1>3, GotoTyping
<1>4. Return(c) => Progress BY ReturnTyping
<1>5. Progress /\ UNCHANGED <<request, documents, file, records>> => WellTyped'
  BY DEF WellTyped, TypeOK, request, documents, records
<1> HIDE DEF Progress
<1>6. CASE \E u \in Users, force \in BOOLEAN : AskGeneration(c, u, force)
  <2>1. PICK force \in BOOLEAN :
          Goto(c, "load", [Idle EXCEPT !.force = force])
          /\ UNCHANGED <<request, documents, file, told>> /\ overlapped' \in BOOLEAN
    BY <1>6 DEF AskGeneration, WellTyped, TypeOK
  <2>2. [Idle EXCEPT !.force = force] \in Readings BY <1>1 DEF Readings
  <2>3. KnownAt("load", [Idle EXCEPT !.force = force]) BY DEF KnownAt
  <2>4. Progress BY <2>1, <2>2, <2>3, <1>2, <1>3
  <2> QED BY <2>1, <2>4 DEF Progress, WellTyped, TypeOK, documents, request
<1>7. CASE LoadSource(c)
  <2>1. [call[c] EXCEPT !.print = print] \in Readings
        /\ KnownAt("find", [call[c] EXCEPT !.print = print])
    BY <1>1 DEF Readings, KnownAt
  <2> QED BY <1>7, <2>1, <1>2, <1>3, <1>5 DEF LoadSource
<1>8. CASE FindDocument(c)
  <2>1. KnownAt("reserve", call[c]) BY <1>1, <1>8 DEF FindDocument, KnownAt
  <2>2. CASE made = {} /\ Goto(c, "reserve", call[c])
    BY <1>8, <2>1, <2>2, <1>1, <1>2, <1>3, <1>5 DEF FindDocument
  <2>3. CASE ~(made = {} /\ Goto(c, "reserve", call[c]))
    <3>1. PICK d \in made :
            IF call[c].force \/ current[d] = 0
            THEN Goto(c, "reserve", [call[c] EXCEPT !.doc = d])
            ELSE Goto(c, "reuse", [call[c] EXCEPT !.doc = d, !.number = current[d]])
      BY <1>8, <2>3 DEF FindDocument
    <3>2. /\ [call[c] EXCEPT !.doc = d] \in Readings
          /\ [call[c] EXCEPT !.doc = d, !.number = current[d]] \in Readings
      BY <1>1 DEF Readings
    <3>3. KnownAt("reserve", [call[c] EXCEPT !.doc = d])
      BY <1>1, <2>1 DEF Readings, KnownAt
    <3>4. current[d] # 0 => KnownAt("reuse", [call[c] EXCEPT !.doc = d, !.number = current[d]])
      BY <1>1, <2>1 DEF Readings, KnownAt
    <3>5. Progress BY <3>1, <3>2, <3>3, <3>4, <1>2, <1>3
    <3> QED BY <1>8, <3>5, <1>5 DEF FindDocument
  <2> QED BY <2>2, <2>3
<1>9. CASE ReuseVersion(c)
  <2>1. KnownAt("reserve", [call[c] EXCEPT !.number = 0])
        /\ [call[c] EXCEPT !.number = 0] \in Readings
    BY <1>1, <1>9 DEF ReuseVersion, KnownAt, Readings
  <2>2. Progress BY <1>9, <2>1, <1>2, <1>3, <1>4 DEF ReuseVersion, Answer
  <2>3. told' \subseteq [doc : Docs, number : Numbers, print : Prints]
    BY <1>1, <1>9 DEF ReuseVersion, Answer, KnownAt, WellTyped, TypeOK
  <2> QED BY <1>9, <2>2, <2>3 DEF ReuseVersion, Progress, WellTyped, TypeOK, documents, request
<1>10. CASE Reserve(c)
  <2>1. PICK d \in Target(c), n \in Numbers :
          /\ made' = made \cup {d}
          /\ version' = [version EXCEPT ![d][n] =
               [state |-> "pending", print |-> call[c].print, superseded |-> FALSE]]
          /\ Goto(c, "render", [call[c] EXCEPT !.doc = d, !.number = n, !.force = FALSE])
    BY <1>10 DEF Reserve
  <2>2. d \in Docs BY <1>1 DEF Target, Readings
  <2> DEFINE read == [call[c] EXCEPT !.doc = d, !.number = n, !.force = FALSE]
  <2>3. read \in Readings /\ KnownAt("render", read)
    <3>1. n \in 0..MaxVersions BY <1>1
    <3>2. call[c].print \in Prints BY <1>1, <1>10 DEF Reserve, KnownAt
    <3>3. read \in Readings BY <1>1, <2>2, <3>1 DEF Readings
    <3>4. read.doc = d /\ read.number = n /\ read.print = call[c].print BY <1>1 DEF Readings
    <3> QED BY <3>2, <3>3, <3>4, <2>2 DEF KnownAt
  <2>4. [state |-> "pending", print |-> call[c].print, superseded |-> FALSE] \in Versions
    BY <1>1, <1>10 DEF Reserve, Versions, Readings
  <2>5. version' \in [Docs -> [Numbers -> Versions]] BY <2>1, <2>2, <2>4 DEF WellTyped, TypeOK
  <2>6. Progress BY <2>1, <2>3, <1>2, <1>3
  <2> QED BY <1>10, <2>1, <2>2, <2>5, <2>6 DEF Reserve, Progress, WellTyped, TypeOK, request, records
<1>11. CASE Render(c)
  <2>1. /\ [call[c] EXCEPT !.print = NoPrint] \in Readings
        /\ KnownAt("fail", [call[c] EXCEPT !.print = NoPrint]) /\ KnownAt("put", call[c])
    BY <1>1, <1>11 DEF Render, Readings, KnownAt
  <2> QED BY <1>11, <2>1, <1>1, <1>2, <1>3, <1>5 DEF Render
<1>12. CASE PutFile(c)
  <2>1. /\ [call[c] EXCEPT !.print = NoPrint] \in Readings
        /\ KnownAt("fail", [call[c] EXCEPT !.print = NoPrint]) /\ KnownAt("publish", call[c])
    BY <1>1, <1>12 DEF PutFile, Readings, KnownAt
  <2>2. file' \in [Docs -> [Numbers -> Prints \cup {NoPrint}]]
    <3>1. call[c].doc \in Docs /\ call[c].number \in Numbers /\ call[c].print \in Prints
      BY <1>1, <1>12 DEF PutFile, KnownAt
    <3>2. file \in [Docs -> [Numbers -> Prints \cup {NoPrint}]] BY DEF WellTyped, TypeOK
    <3>3. file' = file \/ file' = [file EXCEPT ![call[c].doc][call[c].number] = call[c].print]
      BY <1>12 DEF PutFile, Write
    <3>4. [file EXCEPT ![call[c].doc][call[c].number] = call[c].print]
            \in [Docs -> [Numbers -> Prints \cup {NoPrint}]]
      BY <3>1, <3>2
    <3> QED BY <3>2, <3>3, <3>4
  <2>3. Progress BY <1>12, <2>1, <1>1, <1>2, <1>3 DEF PutFile
  <2> QED BY <1>12, <2>2, <2>3 DEF PutFile, Progress, WellTyped, TypeOK, documents, request, records
<1>13. CASE Publish(c)
  <2>1. call[c].doc \in Docs /\ call[c].number \in Numbers /\ call[c].print \in Prints
    BY <1>1, <1>13 DEF Publish, KnownAt
  <2>2. version' \in [Docs -> [Numbers -> Versions]] /\ current' \in [Docs -> 0..MaxVersions]
    BY <1>13, <2>1, PublishedTyping DEF Publish, WellTyped
  <2>3. told' \subseteq [doc : Docs, number : Numbers, print : Prints]
    BY <1>13, <2>1 DEF Publish, Answer, WellTyped, TypeOK
  <2>4. Progress BY <1>13, <1>4 DEF Publish, Answer
  <2> QED BY <1>13, <2>2, <2>3, <2>4 DEF Publish, Progress, WellTyped, TypeOK, request
<1>14. CASE PublishFails(c)
  <2>1. call[c].doc \in Docs /\ call[c].number \in Numbers
    BY <1>1, <1>14 DEF PublishFails, KnownAt
  <2>2. version' \in [Docs -> [Numbers -> Versions]] /\ current' \in [Docs -> 0..MaxVersions]
    BY <1>14, <2>1, PublishedTyping DEF PublishFails, WellTyped, TypeOK
  <2>3. /\ [call[c] EXCEPT !.print = NoPrint] \in Readings
        /\ KnownAt("fail", [call[c] EXCEPT !.print = NoPrint])
    BY <1>1, <2>1 DEF Readings, KnownAt
  <2>4. Progress BY <1>14, <2>3, <1>2, <1>3 DEF PublishFails
  <2> QED BY <1>14, <2>2, <2>4 DEF PublishFails, Progress, WellTyped, TypeOK, request, records
<1>15. CASE RecordFailure(c)
  <2>1. call[c].doc \in Docs /\ call[c].number \in Numbers
    BY <1>1, <1>15 DEF RecordFailure, KnownAt
  <2>2. [version[call[c].doc][call[c].number] EXCEPT !.state = "failed"] \in Versions
    <3>1. version[call[c].doc][call[c].number] \in Versions BY <2>1 DEF WellTyped, TypeOK
    <3>2. \A v \in Versions : [v EXCEPT !.state = "failed"] \in Versions BY DEF Versions
    <3> QED BY <3>1, <3>2
  <2>3. version' \in [Docs -> [Numbers -> Versions]]
    BY <1>15, <2>1, <2>2 DEF RecordFailure, WellTyped, TypeOK
  <2>4. Progress BY <1>15, <1>4 DEF RecordFailure
  <2> QED BY <1>15, <2>3, <2>4 DEF RecordFailure, Progress, WellTyped, TypeOK, request, records
<1> QED BY <1>6, <1>7, <1>8, <1>9, <1>10, <1>11, <1>12, <1>13, <1>14, <1>15 DEF Generation

LEMMA ReadingTyping ==
  ASSUME DocumentAssumption, WellTyped, NEW c \in Calls, Reading(c) \/ CallDies(c)
  PROVE  WellTyped'
<1> USE DEF Numbers, Holding
<1>1. /\ Idle \in Readings /\ call[c] \in Readings /\ KnownAt(pc[c], call[c])
      /\ made \subseteq Docs /\ \A d \in Docs : current[d] \in 0..MaxVersions
      /\ MaxVersions \in Nat
  BY DEF DocumentAssumption, WellTyped, Known, TypeOK, Idle, Readings
<1> DEFINE Progress == pc' \in [Calls -> Statements] /\ call' \in [Calls -> Readings] /\ Known'
<1>2. ASSUME NEW at \in Statements, NEW read \in Readings, Goto(c, at, read), KnownAt(at, read)
      PROVE  Progress
  BY <1>2, GotoTyping
<1>3. Return(c) => Progress BY ReturnTyping
<1>4. UNCHANGED <<request, documents, file, records>>
  BY DEF Reading, AskDocument, LocateVersion, FetchFile, Deliver, OpenPanel, ShowPanel, CallDies
<1>5. Progress => WellTyped'
  BY <1>4 DEF WellTyped, TypeOK, request, documents, records
<1>6. {"locate", "fetch", "deliver", "panel"} \subseteq Statements BY DEF Statements
<1> HIDE DEF Progress
<1>7. CASE \E u \in Users, d \in Docs, action \in {"view", "download"} : AskDocument(c, u, d, action)
  <2>1. PICK d \in Docs, n \in Numbers : Goto(c, "locate", [Idle EXCEPT !.doc = d, !.number = n])
    <3>1. PICK d \in Docs : d \in made /\ \E n \in {current[d]} \cup Numbers :
            n # 0 /\ Goto(c, "locate", [Idle EXCEPT !.doc = d, !.number = n])
      BY <1>7 DEF AskDocument
    <3>2. PICK n \in {current[d]} \cup Numbers :
            n # 0 /\ Goto(c, "locate", [Idle EXCEPT !.doc = d, !.number = n])
      BY <3>1
    <3>3. n \in Numbers BY <1>1, <3>2
    <3> QED BY <3>2, <3>3
  <2> DEFINE read == [Idle EXCEPT !.doc = d, !.number = n]
  <2>2. read \in Readings /\ KnownAt("locate", read)
    <3>1. n \in 0..MaxVersions BY <1>1
    <3>2. read \in Readings BY <1>1, <3>1 DEF Readings
    <3>3. read.doc = d /\ read.number = n BY <1>1 DEF Readings
    <3> QED BY <3>2, <3>3 DEF KnownAt
  <2> QED BY <2>1, <2>2, <1>2, <1>5, <1>6
<1>8. CASE LocateVersion(c)
  <2>1. KnownAt("fetch", call[c]) BY <1>1, <1>8 DEF LocateVersion, KnownAt
  <2> QED BY <1>8, <2>1, <1>1, <1>2, <1>3, <1>5, <1>6 DEF LocateVersion
<1>9. CASE FetchFile(c)
  <2> DEFINE bytes == file[call[c].doc][call[c].number]
  <2>1. bytes \in Prints \cup {NoPrint}
    BY <1>1, <1>9 DEF FetchFile, KnownAt, WellTyped, TypeOK
  <2>2. [call[c] EXCEPT !.print = bytes] \in Readings
        /\ KnownAt("deliver", [call[c] EXCEPT !.print = bytes])
    BY <1>1, <1>9, <2>1 DEF FetchFile, KnownAt, Readings
  <2> QED BY <1>9, <2>2, <1>2, <1>3, <1>5, <1>6 DEF FetchFile
<1>10. CASE OpenPanel(c)
  <2>1. PICK d \in made : Goto(c, "panel", [Idle EXCEPT !.doc = d, !.number = current[d]])
    BY <1>10 DEF OpenPanel
  <2>2. [Idle EXCEPT !.doc = d, !.number = current[d]] \in Readings
        /\ KnownAt("panel", [Idle EXCEPT !.doc = d, !.number = current[d]])
    BY <1>1 DEF Readings, KnownAt, Idle
  <2> QED BY <2>1, <2>2, <1>2, <1>5, <1>6
<1>11. CASE Deliver(c) \/ ShowPanel(c) \/ CallDies(c)
  BY <1>11, <1>3, <1>5 DEF Deliver, ShowPanel, CallDies
<1> QED BY <1>7, <1>8, <1>9, <1>10, <1>11 DEF Reading

LEMMA StepTyping ==
  ASSUME DocumentAssumption, WellTyped, [Next]_vars
  PROVE  WellTyped'
<1>1. CASE RequestChanges \/ AssignRequest
  <2>1. UNCHANGED <<documents, file, pc, call, records>> /\ print' \in Prints
        /\ assigned' \in Users \cup {Nobody}
    BY <1>1 DEF RequestChanges, AssignRequest, WellTyped, TypeOK
  <2> QED BY <2>1 DEF WellTyped, Known, KnownAt, TypeOK, documents, records, Numbers, Holding
<1>2. CASE UNCHANGED vars
  BY <1>2 DEF vars, request, documents, records, WellTyped, Known, KnownAt, TypeOK,
              Numbers, Holding
<1> QED BY <1>1, <1>2, GenerationTyping, ReadingTyping DEF Next

LEMMA InitTyping ==
  ASSUME DocumentAssumption, Init
  PROVE  WellTyped
<1>1. NoVersion \in Versions /\ Idle \in Readings /\ "idle" \in Statements /\ MaxVersions \in Nat
  BY DEF DocumentAssumption, NoVersion, Versions, Idle, Readings, Statements
<1>2. /\ version \in [Docs -> [Numbers -> Versions]]
      /\ file \in [Docs -> [Numbers -> Prints \cup {NoPrint}]]
      /\ pc \in [Calls -> Statements] /\ call \in [Calls -> Readings]
      /\ current \in [Docs -> 0..MaxVersions]
  BY <1>1 DEF Init
<1>3. TypeOK BY <1>2 DEF Init, TypeOK
<1>4. Known BY DEF Init, Known, KnownAt, Holding
<1> QED BY <1>3, <1>4 DEF WellTyped

\* Every row, file, call and record has its type, for any number of calls, documents
\* and versions.
THEOREM Typing == ASSUME DocumentAssumption PROVE Spec => []TypeOK
<1>1. Init => WellTyped BY InitTyping
<1>2. WellTyped /\ [Next]_vars => WellTyped' BY StepTyping
<1> QED BY <1>1, <1>2, PTL DEF Spec, WellTyped

-----------------------------------------------------------------------------
(* Publication.                                                            *)

\* What a call that holds a version knows of it, when v and f are the rows of
\* versions and the files.
HoldAt(v, f, at, read) ==
  at \in Holding =>
    /\ v[read.doc][read.number].state = "pending"
    /\ at # "fail" => v[read.doc][read.number].print = read.print
    /\ at = "publish" => f[read.doc][read.number] = read.print

\* What a call read of a version that was published then.
ReadAt(v, at, read) ==
  /\ at \in {"reuse", "fetch", "deliver"} => v[read.doc][read.number].state = "ready"
  /\ at = "deliver" => read.print = v[read.doc][read.number].print
  /\ at = "panel" /\ read.number # 0 =>
       read.number \in Numbers /\ v[read.doc][read.number].state = "ready"

\* A version is held by one call.
HeldOnce == \A c, e \in Calls :
  /\ pc[c] \in Holding /\ pc[e] \in Holding
  /\ call[c].doc = call[e].doc /\ call[c].number = call[e].number
  => c = e

ToldSafe == \A t \in told : t.number \in Ready(t.doc) /\ version[t.doc][t.number].print = t.print

Safe == /\ WellTyped /\ HeldOnce /\ PublishedHasItsFile /\ ToldSafe
        /\ \A c \in Calls : HoldAt(version, file, pc[c], call[c]) /\ ReadAt(version, pc[c], call[c])

\* A step leaves the published versions as they are,
Kept == \A d \in Docs : \A n \in Ready(d) :
          /\ version'[d][n].state = "ready" /\ version'[d][n].print = version[d][n].print
          /\ file'[d][n] = file[d][n]

\* and what other calls hold.
OthersKept(c) == \A e \in Calls \ {c} :
  pc[e] \in Holding =>
    LET d == call[e].doc
        n == call[e].number
    IN /\ version'[d][n].state = version[d][n].state /\ version'[d][n].print = version[d][n].print
       /\ file'[d][n] = file[d][n]

\* Call c may go on to hold a version no other call holds.
Free(c, at, read) ==
  at \in Holding => \A e \in Calls \ {c} :
    pc[e] \in Holding => ~(call[e].doc = read.doc /\ call[e].number = read.number)

\* What a step has to show of the call that took it, for the calls together.
LEMMA Frame ==
  ASSUME Safe, NEW c \in Calls, NEW at, NEW read, Goto(c, at, read),
         Kept, OthersKept(c), Free(c, at, read),
         HoldAt(version', file', at, read), ReadAt(version', at, read)
  PROVE  /\ HeldOnce'
         /\ (\A e \in Calls : HoldAt(version, file, pc[e], call[e]) /\ ReadAt(version, pc[e], call[e]))'
<1>1. \A e \in Calls : IF e = c THEN pc'[e] = at /\ call'[e] = read
                       ELSE pc'[e] = pc[e] /\ call'[e] = call[e]
  BY DEF Goto, Safe, WellTyped, TypeOK
<1>2. HeldOnce' BY <1>1 DEF Safe, HeldOnce, Free, Holding
<1>3. ASSUME NEW e \in Calls \ {c}
      PROVE  HoldAt(version', file', pc[e], call[e]) /\ ReadAt(version', pc[e], call[e])
  <2>1. HoldAt(version, file, pc[e], call[e]) /\ ReadAt(version, pc[e], call[e])
        /\ KnownAt(pc[e], call[e])
    BY DEF Safe, WellTyped, Known
  <2>2. HoldAt(version', file', pc[e], call[e]) BY <2>1 DEF OthersKept, HoldAt
  <2>3. \A d \in Docs, n \in Numbers : version[d][n].state = "ready" =>
          version'[d][n].state = "ready" /\ version'[d][n].print = version[d][n].print
    BY DEF Kept, Ready
  <2>4. ReadAt(version', pc[e], call[e]) BY <2>1, <2>3 DEF ReadAt, KnownAt
  <2> QED BY <2>2, <2>4
<1>4. ASSUME NEW e \in Calls
      PROVE  HoldAt(version', file', pc'[e], call'[e]) /\ ReadAt(version', pc'[e], call'[e])
  BY <1>1, <1>3
<1>5. (\A e \in Calls : HoldAt(version, file, pc[e], call[e]) /\ ReadAt(version, pc[e], call[e]))'
  BY <1>4 DEF HoldAt, ReadAt, Holding, Numbers
<1> QED BY <1>2, <1>5

\* A step that writes neither a version nor a file.
LEMMA Quiet ==
  ASSUME DocumentAssumption, Safe, NEW c \in Calls, NEW at, NEW read, Goto(c, at, read),
         UNCHANGED <<version, file, current>>, WellTyped',
         \A t \in told' : t.number \in Ready(t.doc) /\ version[t.doc][t.number].print = t.print,
         Free(c, at, read), HoldAt(version, file, at, read), ReadAt(version, at, read)
  PROVE  Safe' /\ Kept
<1>1. Kept /\ OthersKept(c) BY DEF Kept, OthersKept, Ready
<1>2. HoldAt(version', file', at, read) /\ ReadAt(version', at, read) BY DEF HoldAt, ReadAt
<1>3. PublishedHasItsFile' /\ ToldSafe'
  BY DEF Safe, PublishedHasItsFile, ToldSafe, Ready, Numbers
<1> QED BY <1>1, <1>2, <1>3, Frame DEF Safe

\* The steps that read.
LEMMA ReadersSafe ==
  ASSUME DocumentAssumption, Safe, WellTyped', NEW c \in Calls,
         \/ \E u \in Users, force \in BOOLEAN : AskGeneration(c, u, force)
         \/ LoadSource(c) \/ FindDocument(c) \/ ReuseVersion(c) \/ Render(c)
         \/ Reading(c) \/ CallDies(c)
  PROVE  Safe' /\ Kept
<1>1. /\ HoldAt(version, file, pc[c], call[c]) /\ ReadAt(version, pc[c], call[c])
      /\ KnownAt(pc[c], call[c]) /\ call[c] \in Readings /\ Idle \in Readings
      /\ \A t \in told : t.number \in Ready(t.doc) /\ version[t.doc][t.number].print = t.print
      /\ \A e \in Calls \ {c} : pc[c] \in Holding /\ pc[e] \in Holding =>
           ~(call[e].doc = call[c].doc /\ call[e].number = call[c].number)
      /\ made \subseteq Docs
  BY DEF Safe, WellTyped, Known, ToldSafe, HeldOnce, TypeOK, DocumentAssumption, Idle, Readings
<1>2. UNCHANGED <<version, file, current>>
  BY DEF AskGeneration, LoadSource, FindDocument, ReuseVersion, Render, Reading, AskDocument,
         LocateVersion, FetchFile, Deliver, OpenPanel, ShowPanel, CallDies, documents
<1>3. \A t \in told' : t.number \in Ready(t.doc) /\ version[t.doc][t.number].print = t.print
  <2>1. CASE ReuseVersion(c)
    <3>1. told' = told \/
          (/\ Reusable(version[call[c].doc][call[c].number], call[c].print)
           /\ told' = told \cup {[doc |-> call[c].doc, number |-> call[c].number,
                                  print |-> call[c].print]})
      BY <2>1 DEF ReuseVersion, Answer
    <3>2. call[c].number \in Numbers BY <1>1, <2>1 DEF ReuseVersion, KnownAt
    <3> QED BY <1>1, <3>1, <3>2 DEF Reusable, Ready
  <2>2. CASE ~ReuseVersion(c)
    <3>1. told' = told
      BY <2>2 DEF AskGeneration, LoadSource, FindDocument, Render, Reading, AskDocument,
                  LocateVersion, FetchFile, Deliver, OpenPanel, ShowPanel, CallDies, records
    <3> QED BY <1>1, <3>1
  <2> QED BY <2>1, <2>2
<1> DEFINE Fine(at, read) == Free(c, at, read) /\ HoldAt(version, file, at, read)
                             /\ ReadAt(version, at, read)
<1>4. ASSUME NEW at, NEW read, Goto(c, at, read), Fine(at, read) PROVE Safe' /\ Kept
  BY <1>2, <1>3, <1>4, Quiet
<1>5. \A at, read : at \notin Holding \cup {"reuse", "fetch", "deliver", "panel"} => Fine(at, read)
  BY DEF Free, HoldAt, ReadAt
<1>6. Return(c) => Safe' /\ Kept
  BY <1>4, <1>5 DEF Return, Holding
<1> HIDE DEF Fine
<1>7. CASE \E u \in Users, force \in BOOLEAN : AskGeneration(c, u, force)
  BY <1>4, <1>5, <1>7 DEF AskGeneration, Holding
<1>8. CASE LoadSource(c)
  BY <1>4, <1>5, <1>8 DEF LoadSource, Holding
<1>9. CASE FindDocument(c)
  <2>1. CASE \E read : Goto(c, "reserve", read)
    BY <2>1, <1>4, <1>5 DEF Holding
  <2>2. CASE ~\E read : Goto(c, "reserve", read)
    <3>1. PICK d \in made : current[d] # 0
            /\ Goto(c, "reuse", [call[c] EXCEPT !.doc = d, !.number = current[d]])
      BY <1>9, <2>2 DEF FindDocument
    <3>2. current[d] \in Numbers /\ version[d][current[d]].state = "ready"
      BY <3>1, <1>1 DEF Safe, PublishedHasItsFile, Ready
    <3>3. Fine("reuse", [call[c] EXCEPT !.doc = d, !.number = current[d]])
      BY <3>2, <1>1 DEF Fine, Free, HoldAt, ReadAt, Holding, Readings
    <3> QED BY <3>1, <3>3, <1>4
  <2> QED BY <2>1, <2>2
<1>10. CASE ReuseVersion(c)
  BY <1>4, <1>5, <1>6, <1>10 DEF ReuseVersion, Answer, Holding
<1>11. CASE Render(c)
  <2>1. Fine("put", call[c])
    BY <1>1, <1>11 DEF Render, Fine, Free, HoldAt, ReadAt, Holding
  <2>2. Fine("fail", [call[c] EXCEPT !.print = NoPrint])
    BY <1>1, <1>11 DEF Render, Fine, Free, HoldAt, ReadAt, Holding, Readings
  <2> QED BY <1>11, <2>1, <2>2, <1>4 DEF Render
<1>12. CASE Reading(c)
  <2>1. CASE \E u \in Users, d \in Docs, action \in {"view", "download"} : AskDocument(c, u, d, action)
    BY <2>1, <1>4, <1>5 DEF AskDocument, Holding
  <2>2. CASE LocateVersion(c)
    <3>1. Deliverable(version[call[c].doc][call[c].number]) => Fine("fetch", call[c])
      BY DEF Deliverable, Fine, Free, HoldAt, ReadAt, Holding
    <3> QED BY <2>2, <3>1, <1>4, <1>6 DEF LocateVersion
  <2>3. CASE FetchFile(c)
    <3> DEFINE bytes == file[call[c].doc][call[c].number]
    <3>1. /\ call[c].doc \in Docs /\ call[c].number \in Ready(call[c].doc)
      BY <1>1, <2>3 DEF FetchFile, ReadAt, KnownAt, Ready
    <3>2. bytes = version[call[c].doc][call[c].number].print
      BY <3>1 DEF Safe, PublishedHasItsFile
    <3>3. Fine("deliver", [call[c] EXCEPT !.print = bytes])
      BY <3>1, <3>2, <1>1 DEF Fine, Free, HoldAt, ReadAt, Holding, Readings, Ready
    <3> QED BY <2>3, <3>3, <1>4, <1>6 DEF FetchFile
  <2>4. CASE OpenPanel(c)
    <3>1. PICK d \in made : Goto(c, "panel", [Idle EXCEPT !.doc = d, !.number = current[d]])
      BY <2>4 DEF OpenPanel
    <3>2. current[d] # 0 => current[d] \in Numbers /\ version[d][current[d]].state = "ready"
      BY <3>1, <1>1 DEF Safe, PublishedHasItsFile, Ready
    <3>3. Fine("panel", [Idle EXCEPT !.doc = d, !.number = current[d]])
      BY <3>2, <1>1 DEF Fine, Free, HoldAt, ReadAt, Holding, Readings
    <3> QED BY <3>1, <3>3, <1>4
  <2>5. CASE Deliver(c) \/ ShowPanel(c)
    BY <2>5, <1>6 DEF Deliver, ShowPanel
  <2> QED BY <1>12, <2>1, <2>2, <2>3, <2>4, <2>5 DEF Reading
<1>13. CASE CallDies(c)
  BY <1>6, <1>13 DEF CallDies
<1> QED BY <1>7, <1>8, <1>9, <1>10, <1>11, <1>12, <1>13

-----------------------------------------------------------------------------
(* The steps that write a version or a file.                               *)

\* A call that writes only the version it holds, which is not published.
LEMMA HeldAlone ==
  ASSUME Safe, NEW c \in Calls, pc[c] \in Holding
  PROVE  /\ call[c].doc \in Docs /\ call[c].number \in Numbers
         /\ version[call[c].doc][call[c].number].state = "pending"
         /\ \A e \in Calls \ {c} : pc[e] \in Holding =>
              /\ call[e].doc \in Docs /\ call[e].number \in Numbers
              /\ ~(call[e].doc = call[c].doc /\ call[e].number = call[c].number)
         /\ \A at, read : read.doc = call[c].doc /\ read.number = call[c].number => Free(c, at, read)
<1>1. \A e \in Calls : KnownAt(pc[e], call[e]) /\ HoldAt(version, file, pc[e], call[e])
  BY DEF Safe, WellTyped, Known
<1>2. call[c].doc \in Docs /\ call[c].number \in Numbers
      /\ version[call[c].doc][call[c].number].state = "pending"
  BY <1>1 DEF KnownAt, HoldAt
<1>3. ASSUME NEW e \in Calls \ {c}, pc[e] \in Holding
      PROVE  /\ call[e].doc \in Docs /\ call[e].number \in Numbers
             /\ ~(call[e].doc = call[c].doc /\ call[e].number = call[c].number)
  BY <1>1, <1>3 DEF KnownAt, Safe, HeldOnce
<1> QED BY <1>2, <1>3 DEF Free

LEMMA ReserveSafe ==
  ASSUME DocumentAssumption, Safe, WellTyped', NEW c \in Calls, Reserve(c)
  PROVE  Safe' /\ Kept
<1>1. PICK d \in Target(c), n \in Numbers :
        /\ IsNext(d, n)
        /\ version' = [version EXCEPT ![d][n] =
             [state |-> "pending", print |-> call[c].print, superseded |-> FALSE]]
        /\ Goto(c, "render", [call[c] EXCEPT !.doc = d, !.number = n, !.force = FALSE])
  BY DEF Reserve
<1>2. /\ call[c] \in Readings /\ version \in [Docs -> [Numbers -> Versions]]
      /\ MaxVersions \in Nat /\ UNCHANGED <<current, file, told>>
  BY DEF Safe, WellTyped, TypeOK, DocumentAssumption, Reserve, records
<1>3. d \in Docs BY <1>2 DEF Target, Readings
<1> DEFINE read == [call[c] EXCEPT !.doc = d, !.number = n, !.force = FALSE]
<1>4. read.doc = d /\ read.number = n /\ read.print = call[c].print BY <1>2 DEF Readings
<1>5. version[d][n].state = "none"
  BY <1>1, <1>2 DEF IsNext, Taken, Numbers
<1>6. \A e \in Docs, m \in Numbers : ~(e = d /\ m = n) => version'[e][m] = version[e][m]
  BY <1>1, <1>2, <1>3
<1>7. version'[d][n] = [state |-> "pending", print |-> call[c].print, superseded |-> FALSE]
  BY <1>1, <1>2, <1>3
<1>8. Kept BY <1>2, <1>5, <1>6 DEF Kept, Ready
<1>9. ASSUME NEW e \in Calls, pc[e] \in Holding
      PROVE  /\ call[e].doc \in Docs /\ call[e].number \in Numbers
             /\ ~(call[e].doc = d /\ call[e].number = n)
  BY <1>5, <1>9, HeldAlone
<1>10. OthersKept(c) BY <1>2, <1>6, <1>9 DEF OthersKept
<1>11. Free(c, "render", read) BY <1>4, <1>9 DEF Free
<1>12. HoldAt(version', file', "render", read) /\ ReadAt(version', "render", read)
  BY <1>4, <1>7 DEF HoldAt, ReadAt
<1> HIDE DEF read
<1>13. /\ HeldOnce'
       /\ (\A e \in Calls : HoldAt(version, file, pc[e], call[e]) /\ ReadAt(version, pc[e], call[e]))'
  BY <1>1, <1>8, <1>10, <1>11, <1>12, Frame DEF read
<1>14. \A e \in Docs : Ready(e)' = Ready(e)
  BY <1>5, <1>6, <1>7 DEF Ready, Numbers
<1>15. PublishedHasItsFile'
  BY <1>2, <1>8, <1>14 DEF Safe, PublishedHasItsFile, Kept
<1>16. ToldSafe'
  <2>1. \A t \in told : t.doc \in Docs BY DEF Safe, WellTyped, TypeOK
  <2> QED BY <1>2, <1>8, <1>14, <2>1 DEF Safe, ToldSafe, Kept
<1> QED BY <1>8, <1>13, <1>15, <1>16 DEF Safe

LEMMA PutSafe ==
  ASSUME DocumentAssumption, Safe, WellTyped', NEW c \in Calls, PutFile(c)
  PROVE  Safe' /\ Kept
<1> DEFINE d == call[c].doc
           n == call[c].number
<1>1. /\ pc[c] \in Holding /\ pc[c] = "put" BY DEF PutFile, Holding
<1>2. /\ d \in Docs /\ n \in Numbers /\ version[d][n].state = "pending"
      /\ version[d][n].print = call[c].print
      /\ UNCHANGED <<version, current, told>>
      /\ file \in [Docs -> [Numbers -> Prints \cup {NoPrint}]] /\ call[c] \in Readings
  BY <1>1, HeldAlone DEF HoldAt, Safe, WellTyped, TypeOK, PutFile, documents, records
<1>3. file' = file \/ file' = [file EXCEPT ![d][n] = call[c].print]
  BY DEF PutFile, Write
<1>4. \A e \in Docs, m \in Numbers : ~(e = d /\ m = n) => file'[e][m] = file[e][m]
  BY <1>2, <1>3
<1>5. Kept BY <1>2, <1>4 DEF Kept, Ready
<1>6. OthersKept(c) BY <1>1, <1>2, <1>4, HeldAlone DEF OthersKept
<1> DEFINE failed == [call[c] EXCEPT !.print = NoPrint]
<1>7. failed.doc = d /\ failed.number = n BY <1>2 DEF Readings
<1>8. \/ Goto(c, "publish", call[c]) /\ file'[d][n] = call[c].print
      \/ Goto(c, "fail", failed)
  BY <1>2 DEF PutFile, Write
<1>9. Free(c, "publish", call[c]) /\ Free(c, "fail", failed)
  BY <1>1, <1>7, HeldAlone
<1>10. HoldAt(version', file', "fail", failed) /\ ReadAt(version', "fail", failed)
  BY <1>2, <1>7 DEF HoldAt, ReadAt
<1>11. file'[d][n] = call[c].print =>
         HoldAt(version', file', "publish", call[c]) /\ ReadAt(version', "publish", call[c])
  BY <1>2 DEF HoldAt, ReadAt
<1> HIDE DEF failed
<1>12. /\ HeldOnce'
       /\ (\A e \in Calls : HoldAt(version, file, pc[e], call[e]) /\ ReadAt(version, pc[e], call[e]))'
  BY <1>5, <1>6, <1>8, <1>9, <1>10, <1>11, Frame
<1>13. \A e \in Docs : Ready(e)' = Ready(e) BY <1>2 DEF Ready, Numbers
<1>14. PublishedHasItsFile'
  BY <1>2, <1>5, <1>13 DEF Safe, PublishedHasItsFile, Kept
<1>15. ToldSafe'
  <2>1. \A t \in told : t.doc \in Docs BY DEF Safe, WellTyped, TypeOK
  <2> QED BY <1>2, <1>5, <1>13, <2>1 DEF Safe, ToldSafe, Kept
<1> QED BY <1>5, <1>12, <1>14, <1>15 DEF Safe

LEMMA PublishSafe ==
  ASSUME DocumentAssumption, Safe, WellTyped', NEW c \in Calls, Publish(c)
  PROVE  Safe' /\ Kept
<1> DEFINE d == call[c].doc
           n == call[c].number
<1>1. pc[c] = "publish" /\ pc[c] \in Holding BY DEF Publish, Holding
<1>2. /\ d \in Docs /\ n \in Numbers /\ version[d][n].state = "pending"
      /\ version[d][n].print = call[c].print /\ file[d][n] = call[c].print
      /\ version \in [Docs -> [Numbers -> Versions]] /\ file' = file
      /\ current \in [Docs -> 0..MaxVersions]
  BY <1>1, HeldAlone DEF HoldAt, Safe, WellTyped, TypeOK, Publish
<1>3. \A e \in Docs, m \in Numbers : version[e][m] \in Versions BY <1>2
<1> DEFINE row(m) == IF m = n THEN [version[d][m] EXCEPT !.state = "ready"]
                     ELSE IF version[d][m].state # "none" /\ Supersedes(d, n, m)
                          THEN [version[d][m] EXCEPT !.superseded = TRUE]
                     ELSE version[d][m]
<1>4. /\ version' = [version EXCEPT ![d] = [m \in Numbers |-> row(m)]]
      /\ current' = [current EXCEPT ![d] = n]
  BY DEF Publish, Published
<1>5. \A m \in Numbers : row(m).print = version[d][m].print
                         /\ row(m).state = IF m = n THEN "ready" ELSE version[d][m].state
  BY <1>2, <1>3 DEF Versions
<1>6. \A e \in Docs, m \in Numbers :
        version'[e][m] = IF e = d THEN row(m) ELSE version[e][m]
  BY <1>2, <1>4
<1> HIDE DEF row
<1>7. \A e \in Docs, m \in Numbers :
        /\ version'[e][m].print = version[e][m].print
        /\ version'[e][m].state = IF e = d /\ m = n THEN "ready" ELSE version[e][m].state
  BY <1>5, <1>6
<1>8. Kept
  <2>1. file' = file /\ d \in Docs /\ n \in Numbers /\ version[d][n].state = "pending" BY <1>2
  <2>2. ASSUME NEW e \in Docs, NEW m \in Ready(e)
        PROVE  /\ version'[e][m].state = "ready" /\ version'[e][m].print = version[e][m].print
               /\ file'[e][m] = file[e][m]
    <3>1. m \in Numbers /\ version[e][m].state = "ready" BY ONLY <2>2 DEF Ready
    <3> QED BY ONLY <1>7, <2>1, <3>1, e \in Docs
  <2> QED BY ONLY <2>2 DEF Kept
<1>9. OthersKept(c) BY <1>1, <1>2, <1>7, HeldAlone DEF OthersKept
<1>10. Goto(c, "idle", Idle) /\ Free(c, "idle", Idle) /\ HoldAt(version', file', "idle", Idle)
       /\ ReadAt(version', "idle", Idle)
  BY DEF Publish, Answer, Return, Free, HoldAt, ReadAt, Holding
<1>11. /\ HeldOnce'
       /\ (\A e \in Calls : HoldAt(version, file, pc[e], call[e]) /\ ReadAt(version, pc[e], call[e]))'
  BY <1>8, <1>9, <1>10, Frame
<1>12. \A e \in Docs : Ready(e)' = IF e = d THEN Ready(e) \cup {n} ELSE Ready(e)
  BY <1>2, <1>7 DEF Ready, Numbers
<1>13. PublishedHasItsFile'
  <2>1. ASSUME NEW e \in Docs, NEW m \in Ready(e)' PROVE file'[e][m] = version'[e][m].print
    <3>1. m \in Numbers BY <2>1 DEF Ready, Numbers
    <3>2. file[e][m] = version[e][m].print
      BY <1>2, <1>12, <2>1 DEF Safe, PublishedHasItsFile
    <3> QED BY <1>2, <1>7, <3>1, <3>2
  <2>2. ASSUME NEW e \in Docs, current'[e] # 0 PROVE current'[e] \in Ready(e)'
    BY <1>2, <1>4, <1>12, <2>2 DEF Safe, PublishedHasItsFile
  <2> QED BY <2>1, <2>2 DEF PublishedHasItsFile
<1>14. ToldSafe'
  <2>1. told' = told \cup {[doc |-> d, number |-> n, print |-> call[c].print]}
    BY DEF Publish, Answer
  <2>2. \A t \in told : t.doc \in Docs /\ t.number \in Ready(t.doc) /\ t.number \in Numbers
                        /\ version[t.doc][t.number].print = t.print
    BY DEF Safe, WellTyped, TypeOK, ToldSafe
  <2>3. \A t \in told' : t.number \in Ready(t.doc)' /\ version'[t.doc][t.number].print = t.print
    <3>1. ASSUME NEW t \in told PROVE t.number \in Ready(t.doc)' /\ version'[t.doc][t.number].print = t.print
      <4>1. t.doc \in Docs /\ t.number \in Ready(t.doc) /\ t.number \in Numbers
            /\ version[t.doc][t.number].print = t.print
        BY ONLY <2>2, t \in told
      <4> QED BY <1>7, <1>12, <4>1
    <3>2. ASSUME NEW t, t.doc = d, t.number = n, t.print = call[c].print
          PROVE  t.number \in Ready(t.doc)' /\ version'[t.doc][t.number].print = t.print
      BY <1>2, <1>7, <1>12, <3>2
    <3> QED BY ONLY <2>1, <3>1, <3>2
  <2> QED BY <2>3 DEF ToldSafe, Ready, Numbers
<1> QED BY <1>8, <1>11, <1>13, <1>14 DEF Safe

LEMMA FailureSafe ==
  ASSUME DocumentAssumption, Safe, WellTyped', NEW c \in Calls, RecordFailure(c)
  PROVE  Safe' /\ Kept
<1> DEFINE d == call[c].doc
           n == call[c].number
<1>1. pc[c] \in Holding BY DEF RecordFailure, Holding
<1>2. /\ d \in Docs /\ n \in Numbers /\ version[d][n].state = "pending"
      /\ version \in [Docs -> [Numbers -> Versions]]
      /\ UNCHANGED <<current, file, told>>
      /\ version' = [version EXCEPT ![d][n].state = "failed"]
  BY <1>1, HeldAlone DEF Safe, WellTyped, TypeOK, RecordFailure, records
<1>3. \A e \in Docs, m \in Numbers : ~(e = d /\ m = n) => version'[e][m] = version[e][m]
  BY <1>2
<1>4. version'[d][n].state = "failed"
  <2>1. version[d][n] \in Versions BY <1>2
  <2>2. version'[d][n] = [version[d][n] EXCEPT !.state = "failed"] BY <1>2
  <2> QED BY <2>1, <2>2 DEF Versions
<1>5. Kept BY <1>2, <1>3 DEF Kept, Ready
<1>6. OthersKept(c) BY <1>1, <1>2, <1>3, HeldAlone DEF OthersKept
<1>7. Goto(c, "idle", Idle) /\ Free(c, "idle", Idle) /\ HoldAt(version', file', "idle", Idle)
      /\ ReadAt(version', "idle", Idle)
  BY DEF RecordFailure, Return, Free, HoldAt, ReadAt, Holding
<1>8. /\ HeldOnce'
      /\ (\A e \in Calls : HoldAt(version, file, pc[e], call[e]) /\ ReadAt(version, pc[e], call[e]))'
  BY <1>5, <1>6, <1>7, Frame
<1>9. \A e \in Docs : Ready(e)' = Ready(e)
  <2>1. d \in Docs /\ n \in Numbers /\ version[d][n].state = "pending" BY <1>2
  <2>2. \A e \in Docs, m \in Numbers : version'[e][m].state = "ready" <=> version[e][m].state = "ready"
    BY ONLY <1>3, <1>4, <2>1
  <2> QED BY ONLY <2>2 DEF Ready, Numbers
<1>10. PublishedHasItsFile'
  <2>1. \A e \in Docs : /\ \A m \in Ready(e) : file[e][m] = version[e][m].print
                        /\ current[e] # 0 => current[e] \in Ready(e)
    BY DEF Safe, PublishedHasItsFile
  <2>2. \A e \in Docs : \A m \in Ready(e) : file'[e][m] = version'[e][m].print
    BY ONLY <1>5, <2>1 DEF Kept
  <2>3. current' = current BY <1>2
  <2>4. \A e \in Docs : \A m \in Ready(e)' : file'[e][m] = version'[e][m].print BY ONLY <1>9, <2>2
  <2>5. \A e \in Docs : current'[e] # 0 => current'[e] \in Ready(e)' BY ONLY <1>9, <2>1, <2>3
  <2> QED BY ONLY <2>4, <2>5 DEF PublishedHasItsFile
<1>11. ToldSafe'
  <2>1. \A t \in told : t.doc \in Docs BY DEF Safe, WellTyped, TypeOK
  <2>2. \A t \in told : t.number \in Ready(t.doc) /\ version[t.doc][t.number].print = t.print
    BY DEF Safe, ToldSafe
  <2>3. \A t \in told : t.number \in Ready(t.doc)' /\ version'[t.doc][t.number].print = t.print
    BY ONLY <1>5, <1>9, <2>1, <2>2 DEF Kept
  <2> QED BY ONLY <1>2, <2>3 DEF ToldSafe, Ready, Numbers
<1> QED BY <1>5, <1>8, <1>10, <1>11 DEF Safe

\* A publication that was refused: without a lost acknowledgement nothing was written.
LEMMA RefusalSafe ==
  ASSUME DocumentAssumption, ~AckLoss, Safe, WellTyped', NEW c \in Calls, PublishFails(c)
  PROVE  Safe' /\ Kept
<1> DEFINE failed == [call[c] EXCEPT !.print = NoPrint]
<1>1. pc[c] \in Holding /\ Goto(c, "fail", failed)
      /\ UNCHANGED <<version, current, file, told>> /\ call[c] \in Readings
  BY DEF PublishFails, Holding, records, Safe, WellTyped, TypeOK
<1>2. failed.doc = call[c].doc /\ failed.number = call[c].number BY <1>1 DEF Readings
<1>3. Free(c, "fail", failed) /\ HoldAt(version, file, "fail", failed)
      /\ ReadAt(version, "fail", failed)
  BY <1>1, <1>2, HeldAlone DEF HoldAt, ReadAt
<1> HIDE DEF failed
<1>4. \A t \in told' : t.number \in Ready(t.doc) /\ version[t.doc][t.number].print = t.print
  BY <1>1 DEF Safe, ToldSafe
<1> QED BY <1>1, <1>3, <1>4, Quiet

LEMMA StepSafe ==
  ASSUME DocumentAssumption, ~AckLoss, Safe, [Next]_vars
  PROVE  Safe' /\ Kept
<1>1. WellTyped' BY StepTyping DEF Safe
<1>2. CASE RequestChanges \/ AssignRequest \/ UNCHANGED vars
  <2>1. UNCHANGED <<documents, file, pc, call, records>>
    BY <1>2 DEF RequestChanges, AssignRequest, vars
  <2>2. Kept BY <2>1 DEF Kept, Ready, documents
  <2>3. UNCHANGED <<current, version, told>> BY ONLY <2>1 DEF documents, records
  <2>4. HeldOnce' BY ONLY Safe, <2>1 DEF Safe, HeldOnce, Holding
  <2>5. PublishedHasItsFile' BY ONLY Safe, <2>1, <2>3 DEF Safe, PublishedHasItsFile, Ready, Numbers
  <2>6. ToldSafe' BY ONLY Safe, <2>3 DEF Safe, ToldSafe, Ready, Numbers
  <2>7. \A c \in Calls : (HoldAt(version, file, pc[c], call[c]) /\ ReadAt(version, pc[c], call[c]))'
    BY ONLY Safe, <2>1, <2>3 DEF Safe, HoldAt, ReadAt, Holding
  <2> QED BY ONLY <1>1, <2>2, <2>4, <2>5, <2>6, <2>7 DEF Safe
<1> QED BY <1>1, <1>2, ReadersSafe, ReserveSafe, PutSafe, PublishSafe, FailureSafe, RefusalSafe
        DEF Next, Generation

-----------------------------------------------------------------------------
(* Generations that follow one another.                                    *)

\* A document that is not made yet has no version.
Fresh == \A d \in Docs \ made : Taken(d) = {} /\ current[d] = 0

\* What a generation that runs alone knows, when m and v are the documents and
\* the rows of versions: the only document, and its greatest number.
GenAt(m, v, at, read) ==
  /\ at \in {"reuse", "reserve"} => m \subseteq {read.doc}
  /\ at \in Holding =>
       /\ \A n \in Numbers : v[read.doc][n].state # "none" => n <= read.number
       /\ ~v[read.doc][read.number].superseded

InForce(d) ==
  /\ \A n \in Ready(d) : n <= current[d]
  /\ {n \in Ready(d) : ~version[d][n].superseded} = {current[d]} \ {0}

InOrder ==
  /\ \A c, e \in Generating : c = e
  /\ \A d, e \in made : d = e
  /\ \A c \in Calls : GenAt(made, version, pc[c], call[c])
  /\ \A d \in made : InForce(d)

Ordered == Safe /\ Fresh /\ (~overlapped => InOrder)

\* A step of the only generation.
LEMMA AloneFrame ==
  ASSUME Safe, InOrder, NEW c \in Generating, NEW at, NEW read, Goto(c, at, read),
         GenAt(made', version', at, read)
  PROVE  (\A b, e \in Generating : b = e)' /\ (\A e \in Calls : GenAt(made, version, pc[e], call[e]))'
<1>1. c \in Calls /\ \A e \in Calls : IF e = c THEN pc'[e] = at /\ call'[e] = read
                                      ELSE pc'[e] = pc[e] /\ call'[e] = call[e]
  BY DEF Goto, Safe, WellTyped, TypeOK, Generating
<1>2. \A e \in Calls \ {c} : pc[e] \notin GenerationSteps BY DEF InOrder, Generating
<1>3. (\A b, e \in Generating : b = e)'
  BY <1>1, <1>2 DEF Generating, GenerationSteps
<1>4. \A e \in Calls : GenAt(made', version', pc'[e], call'[e])
  <2> SUFFICES ASSUME NEW e \in Calls \ {c} PROVE GenAt(made', version', pc[e], call[e])
    BY <1>1
  <2> QED BY <1>2 DEF GenAt, GenerationSteps, Holding
<1> QED BY <1>3, <1>4 DEF GenAt, Holding, Numbers

\* A step that writes no document: what it leads to holds with the documents there are.
LEMMA OrderedQuiet ==
  ASSUME Ordered, Safe', NEW c \in Calls, NEW at, NEW read, Goto(c, at, read),
         UNCHANGED documents,
         \/ c \in Generating /\ overlapped' = overlapped
         \/ at \notin GenerationSteps /\ overlapped' = overlapped
         \/ overlapped' = (overlapped \/ Generating # {}),
         InOrder => GenAt(made, version, at, read)
  PROVE  Ordered'
<1>1. Fresh' BY DEF Ordered, Fresh, documents, Taken, Numbers
<1>2. ASSUME ~overlapped' PROVE InOrder'
  <2>1. InOrder /\ GenAt(made', version', at, read) BY <1>2 DEF Ordered, documents
  <2>2. \A d \in made : InForce(d)' BY <2>1 DEF InOrder, InForce, Ready, documents, Numbers
  <2>3. \A e \in Calls : IF e = c THEN pc'[e] = at /\ call'[e] = read
                         ELSE pc'[e] = pc[e] /\ call'[e] = call[e]
    BY DEF Goto, Ordered, Safe, WellTyped, TypeOK
  <2>4. (\A b, e \in Generating : b = e)' /\ (\A e \in Calls : GenAt(made, version, pc[e], call[e]))'
    <3>1. CASE c \in Generating
      BY <2>1, <3>1, AloneFrame DEF Ordered
    <3>2. CASE c \notin Generating
      <4>1. (\A b, e \in Generating : b = e)'
        BY <1>2, <2>1, <2>3, <3>2 DEF InOrder, Generating, GenerationSteps
      <4>2. \A e \in Calls : GenAt(made', version', pc'[e], call'[e])
        BY <2>1, <2>3 DEF InOrder, documents
      <4> QED BY <4>1, <4>2 DEF GenAt, Holding, Numbers
    <3> QED BY <3>1, <3>2
  <2> QED BY <2>1, <2>2, <2>4 DEF InOrder, documents
<1> QED BY <1>1, <1>2 DEF Ordered

LEMMA QuietOrdered ==
  ASSUME Ordered, Safe', NEW c \in Calls,
         \/ \E u \in Users, force \in BOOLEAN : AskGeneration(c, u, force)
         \/ LoadSource(c) \/ FindDocument(c) \/ ReuseVersion(c) \/ Render(c) \/ PutFile(c)
         \/ Reading(c) \/ CallDies(c)
  PROVE  Ordered'
<1>1. UNCHANGED documents
  BY DEF AskGeneration, LoadSource, FindDocument, ReuseVersion, Render, PutFile, Reading,
         AskDocument, LocateVersion, FetchFile, Deliver, OpenPanel, ShowPanel, CallDies
<1>2. \A at, read : at \notin Holding \cup {"reuse", "reserve"} => GenAt(made, version, at, read)
  BY DEF GenAt
<1>3. InOrder => GenAt(made, version, pc[c], call[c]) BY DEF InOrder
<1>4. KnownAt(pc[c], call[c]) /\ made \subseteq Docs /\ call[c] \in Readings
  BY DEF Ordered, Safe, WellTyped, Known, TypeOK
<1>5. CASE \E u \in Users, force \in BOOLEAN : AskGeneration(c, u, force)
  <2>1. PICK read : Goto(c, "load", read) BY <1>5 DEF AskGeneration
  <2>2. overlapped' = (overlapped \/ Generating # {}) BY <1>5 DEF AskGeneration
  <2> QED BY <2>1, <2>2, <1>1, <1>2, OrderedQuiet DEF Holding
<1>6. CASE LoadSource(c)
  <2>1. c \in Generating /\ overlapped' = overlapped
    BY <1>6 DEF LoadSource, Generating, GenerationSteps, records
  <2>2. PICK read : Goto(c, "find", read) BY <1>6 DEF LoadSource
  <2> QED BY <2>1, <2>2, <1>1, <1>2, OrderedQuiet DEF Holding
<1>7. CASE FindDocument(c)
  <2>1. c \in Generating /\ overlapped' = overlapped
    BY <1>7 DEF FindDocument, Generating, GenerationSteps, records
  <2>2. CASE made = {} /\ Goto(c, "reserve", call[c])
    BY <2>1, <2>2, <1>1, OrderedQuiet DEF GenAt, Holding
  <2>3. CASE ~(made = {} /\ Goto(c, "reserve", call[c]))
    <3>1. PICK d \in made :
            \/ Goto(c, "reserve", [call[c] EXCEPT !.doc = d])
            \/ Goto(c, "reuse", [call[c] EXCEPT !.doc = d, !.number = current[d]])
      BY <1>7, <2>3 DEF FindDocument
    <3>2. [call[c] EXCEPT !.doc = d].doc = d
          /\ [call[c] EXCEPT !.doc = d, !.number = current[d]].doc = d
      BY <1>4 DEF Readings
    <3>3. InOrder => /\ GenAt(made, version, "reserve", [call[c] EXCEPT !.doc = d])
                     /\ GenAt(made, version, "reuse",
                              [call[c] EXCEPT !.doc = d, !.number = current[d]])
      BY <3>1, <3>2 DEF InOrder, GenAt, Holding
    <3> QED BY <2>1, <3>1, <3>3, <1>1, OrderedQuiet
  <2> QED BY <2>2, <2>3
<1>8. CASE ReuseVersion(c)
  <2>1. c \in Generating /\ overlapped' = overlapped
    BY <1>8 DEF ReuseVersion, Generating, GenerationSteps
  <2>2. Goto(c, "idle", Idle) \/ Goto(c, "reserve", [call[c] EXCEPT !.number = 0])
    BY <1>8 DEF ReuseVersion, Answer, Return
  <2>3. [call[c] EXCEPT !.number = 0].doc = call[c].doc BY <1>4 DEF Readings
  <2>4. InOrder => GenAt(made, version, "reserve", [call[c] EXCEPT !.number = 0])
    BY <1>3, <1>8, <2>3 DEF ReuseVersion, GenAt, Holding
  <2> QED BY <2>1, <2>2, <2>4, <1>1, <1>2, OrderedQuiet DEF Holding
<1>9. CASE Render(c) \/ PutFile(c)
  <2>1. c \in Generating /\ pc[c] \in Holding /\ overlapped' = overlapped
    BY <1>9 DEF Render, PutFile, Generating, GenerationSteps, Holding, records
  <2> DEFINE failed == [call[c] EXCEPT !.print = NoPrint]
  <2>2. \/ Goto(c, "put", call[c]) \/ Goto(c, "publish", call[c]) \/ Goto(c, "fail", failed)
    BY <1>9 DEF Render, PutFile
  <2>3. failed.doc = call[c].doc /\ failed.number = call[c].number BY <1>4 DEF Readings
  <2>4. InOrder => /\ GenAt(made, version, "put", call[c]) /\ GenAt(made, version, "publish", call[c])
                   /\ GenAt(made, version, "fail", failed)
    BY <1>3, <2>1, <2>3 DEF GenAt, Holding
  <2> HIDE DEF failed
  <2> QED BY <2>1, <2>2, <2>4, <1>1, OrderedQuiet
<1>10. CASE Reading(c) \/ CallDies(c)
  <2>1. overlapped' = overlapped
    BY <1>10 DEF Reading, AskDocument, LocateVersion, FetchFile, Deliver, OpenPanel, ShowPanel,
                 CallDies, records
  <2>2. PICK at \in {"locate", "fetch", "deliver", "panel", "idle"} : \E read : Goto(c, at, read)
    BY <1>10 DEF Reading, AskDocument, LocateVersion, FetchFile, Deliver, OpenPanel, ShowPanel,
                 CallDies, Return
  <2>3. at \notin GenerationSteps /\ at \notin Holding \cup {"reuse", "reserve"}
    BY <2>2 DEF GenerationSteps, Holding
  <2> QED BY <2>1, <2>2, <2>3, <1>1, <1>2, OrderedQuiet
<1> QED BY <1>5, <1>6, <1>7, <1>8, <1>9, <1>10

LEMMA ReserveOrdered ==
  ASSUME DocumentAssumption, Ordered, Safe', NEW c \in Calls, Reserve(c)
  PROVE  Ordered'
<1>1. PICK d \in Target(c), n \in Numbers :
        /\ IsNext(d, n)
        /\ made' = made \cup {d}
        /\ version' = [version EXCEPT ![d][n] =
             [state |-> "pending", print |-> call[c].print, superseded |-> FALSE]]
        /\ Goto(c, "render", [call[c] EXCEPT !.doc = d, !.number = n, !.force = FALSE])
  BY DEF Reserve
<1>2. /\ call[c] \in Readings /\ version \in [Docs -> [Numbers -> Versions]]
      /\ made \subseteq Docs /\ MaxVersions \in Nat /\ NoDoc \notin Docs
      /\ UNCHANGED <<current, overlapped>>
      /\ current \in [Docs -> 0..MaxVersions]
  BY DEF Ordered, Safe, WellTyped, TypeOK, DocumentAssumption, Reserve, records
<1>3. d \in Docs /\ (d = call[c].doc \/ call[c].doc = NoDoc) BY <1>2 DEF Target, Readings
<1> DEFINE read == [call[c] EXCEPT !.doc = d, !.number = n, !.force = FALSE]
<1>4. read.doc = d /\ read.number = n BY <1>2 DEF Readings
<1>5. version[d][n].state = "none" /\ \A m \in Numbers : version[d][m].state # "none" => m < n
  BY <1>1, <1>2 DEF IsNext, Taken, Numbers
<1>6. /\ \A e \in Docs, m \in Numbers : ~(e = d /\ m = n) => version'[e][m] = version[e][m]
      /\ version'[d][n] = [state |-> "pending", print |-> call[c].print, superseded |-> FALSE]
  BY <1>1, <1>2, <1>3
<1>7. GenAt(made', version', "render", read)
  <2>1. ~version'[d][n].superseded BY <1>6
  <2>2. ASSUME NEW m \in Numbers, version'[d][m].state # "none" PROVE m <= n
    <3>1. m \in Nat /\ n \in Nat BY <1>2 DEF Numbers
    <3>2. m = n \/ version[d][m].state # "none" BY <1>3, <1>6, <2>2
    <3> QED BY <1>5, <3>1, <3>2
  <2> QED BY <1>4, <2>1, <2>2 DEF GenAt
<1>8. \A e \in Docs : Ready(e)' = Ready(e) BY <1>5, <1>6 DEF Ready, Numbers
<1> HIDE DEF read
<1>9. Fresh' BY <1>1, <1>2, <1>6 DEF Ordered, Fresh, Taken, Numbers
<1>10. ASSUME InOrder PROVE InOrder'
  <2>1. c \in Generating BY DEF Reserve, Generating, GenerationSteps
  <2>2. (\A b, e \in Generating : b = e)' /\ (\A e \in Calls : GenAt(made, version, pc[e], call[e]))'
    BY <1>1, <1>7, <1>10, <2>1, AloneFrame DEF read, Ordered
  <2>3. made \subseteq {d}
    BY <1>2, <1>3, <1>10 DEF InOrder, GenAt, Reserve
  <2>4. \A e \in made' : InForce(e)'
    <3>1. made' = {d} BY <1>1, <2>3
    <3>2. InForce(d)
      <4>1. CASE d \in made BY <4>1, <1>10 DEF InOrder
      <4>2. CASE d \notin made
        BY <4>2, <1>3 DEF Ordered, Fresh, InForce, Ready, Taken
      <4> QED BY <4>1, <4>2
    <3>3. \A m \in Ready(d) : m # n BY <1>5 DEF Ready
    <3>4. InForce(d)'
      <4>1. {m \in Ready(d)' : ~version'[d][m].superseded} = {m \in Ready(d) : ~version[d][m].superseded}
        BY <1>3, <1>6, <1>8, <3>3 DEF Ready
      <4> QED BY <1>2, <1>3, <1>8, <3>2, <4>1 DEF InForce
    <3> QED BY <3>1, <3>4
  <2>5. \A b, e \in made' : b = e BY <1>1, <2>3
  <2> QED BY <2>2, <2>4, <2>5 DEF InOrder
<1> QED BY <1>2, <1>9, <1>10 DEF Ordered

LEMMA PublishOrdered ==
  ASSUME DocumentAssumption, Ordered, Safe', NEW c \in Calls, Publish(c)
  PROVE  Ordered'
<1>1. pc[c] = "publish" /\ pc[c] \in Holding /\ c \in Generating
  BY DEF Publish, Holding, Generating, GenerationSteps
<1>0. PICK d \in Docs, n \in Numbers : d = call[c].doc /\ n = call[c].number
  BY <1>1, HeldAlone DEF Ordered
<1>2. /\ d \in Docs /\ n \in Numbers /\ version[d][n].state = "pending"
      /\ version \in [Docs -> [Numbers -> Versions]] /\ current \in [Docs -> 0..MaxVersions]
      /\ UNCHANGED <<made, overlapped>> /\ MaxVersions \in Nat
  BY <1>1, <1>0, HeldAlone DEF Ordered, Safe, WellTyped, TypeOK, Publish, DocumentAssumption
<1>3. \A e \in Docs, m \in Numbers : version[e][m] \in Versions BY <1>2
<1> DEFINE row(m) == IF m = n THEN [version[d][m] EXCEPT !.state = "ready"]
                     ELSE IF version[d][m].state # "none" /\ Supersedes(d, n, m)
                          THEN [version[d][m] EXCEPT !.superseded = TRUE]
                     ELSE version[d][m]
<1>4. /\ version' = [version EXCEPT ![d] = [m \in Numbers |-> row(m)]]
      /\ current' = [current EXCEPT ![d] = n]
  BY <1>0 DEF Publish, Published
<1>5. \A m \in Numbers :
        /\ row(m).state = IF m = n THEN "ready" ELSE version[d][m].state
        /\ row(m).superseded = IF m # n /\ version[d][m].state # "none" THEN TRUE
                               ELSE version[d][m].superseded
  <2>1. \A v \in Versions :
          /\ [v EXCEPT !.state = "ready"].state = "ready"
          /\ [v EXCEPT !.state = "ready"].superseded = v.superseded
          /\ [v EXCEPT !.superseded = TRUE].state = v.state
          /\ [v EXCEPT !.superseded = TRUE].superseded = TRUE
    BY DEF Versions
  <2> QED BY <1>2, <1>3, <2>1 DEF Supersedes
<1>6. \A e \in Docs, m \in Numbers : version'[e][m] = IF e = d THEN row(m) ELSE version[e][m]
  BY <1>2, <1>4
<1> HIDE DEF row
<1>7. /\ \A e \in Docs : e # d => version'[e] = version[e] /\ current'[e] = current[e]
      /\ current'[d] = n
      /\ \A m \in Numbers :
           /\ version'[d][m].state = IF m = n THEN "ready" ELSE version[d][m].state
           /\ version'[d][m].superseded = IF m # n /\ version[d][m].state # "none" THEN TRUE
                                          ELSE version[d][m].superseded
  BY <1>2, <1>4, <1>5, <1>6
<1>8. d \in made BY <1>2 DEF Ordered, Fresh, Taken
<1>9. Fresh' BY <1>2, <1>7, <1>8 DEF Ordered, Fresh, Taken, Numbers
<1>10. ASSUME InOrder PROVE InOrder'
  <2>1. GenAt(made', version', "idle", Idle) /\ Goto(c, "idle", Idle)
    BY DEF GenAt, Holding, Publish, Answer, Return
  <2>2. (\A b, e \in Generating : b = e)' /\ (\A e \in Calls : GenAt(made, version, pc[e], call[e]))'
    BY <1>1, <1>10, <2>1, AloneFrame DEF Ordered
  <2>3. GenAt(made, version, pc[c], call[c]) BY <1>10 DEF InOrder
  <2>4. InForce(d)'
    <3>1. \A m \in Ready(d)' : m <= n
      <4>1. \A m \in Numbers : version[d][m].state # "none" => m <= n
        BY <1>1, <1>0, <2>3 DEF GenAt
      <4>2. \A m \in Ready(d)' : m \in Numbers /\ version'[d][m].state = "ready"
        BY DEF Ready, Numbers
      <4>3. n <= n BY <1>2 DEF Numbers
      <4> QED BY <1>7, <4>1, <4>2, <4>3
    <3>2. ~version'[d][n].superseded BY <1>1, <1>2, <1>7, <1>0, <2>3 DEF GenAt
    <3>3. {m \in Ready(d)' : ~version'[d][m].superseded} = {n}
      <4>1. \A m \in Numbers : m \in Ready(d)' <=> version'[d][m].state = "ready"
        BY DEF Ready, Numbers
      <4>2. Ready(d)' \subseteq Numbers BY DEF Ready, Numbers
      <4>3. \A m \in Ready(d)' : m # n => version'[d][m].superseded
        BY <1>7, <4>1, <4>2
      <4> QED BY <1>2, <1>7, <3>2, <4>1, <4>3
    <3>4. n # 0 BY <1>2 DEF Numbers
    <3>5. (\A m \in Ready(d) : m <= current[d])' BY <1>7, <3>1
    <3>6. {m \in Ready(d)' : ~version'[d][m].superseded} = {current'[d]} \ {0}
      BY <1>7, <3>3, <3>4
    <3> QED BY <3>5, <3>6 DEF InForce
  <2>5. \A e \in made' : InForce(e)'
    <3>1. made' = {d} BY <1>2, <1>8, <1>10 DEF InOrder
    <3> QED BY <2>4, <3>1 DEF InForce
  <2> QED BY <1>2, <1>10, <2>2, <2>5 DEF InOrder
<1> QED BY <1>2, <1>9, <1>10 DEF Ordered

LEMMA FailureOrdered ==
  ASSUME DocumentAssumption, Ordered, Safe', NEW c \in Calls, RecordFailure(c)
  PROVE  Ordered'
<1> DEFINE d == call[c].doc
           n == call[c].number
<1>1. pc[c] \in Holding /\ c \in Generating
  BY DEF RecordFailure, Holding, Generating, GenerationSteps
<1>2. /\ d \in Docs /\ n \in Numbers /\ version[d][n].state = "pending"
      /\ version \in [Docs -> [Numbers -> Versions]]
      /\ UNCHANGED <<made, current, overlapped>>
      /\ version' = [version EXCEPT ![d][n].state = "failed"]
  BY <1>1, HeldAlone DEF Ordered, Safe, WellTyped, TypeOK, RecordFailure, records
<1>3. \A e \in Docs, m \in Numbers : ~(e = d /\ m = n) => version'[e][m] = version[e][m]
  BY <1>2
<1>4. version'[d][n].state = "failed"
  <2>1. version[d][n] \in Versions BY <1>2
  <2>2. version'[d][n] = [version[d][n] EXCEPT !.state = "failed"] BY <1>2
  <2> QED BY <2>1, <2>2 DEF Versions
<1>5. d \in made BY <1>2 DEF Ordered, Fresh, Taken
<1>6. Fresh'
  <2>1. made' = made /\ current' = current /\ d \in Docs BY <1>2
  <2>2. ASSUME NEW e \in Docs \ made PROVE Taken(e)' = {} /\ current'[e] = 0
    <3>1. Taken(e) = {} /\ current[e] = 0 BY <2>2 DEF Ordered, Fresh
    <3>2. \A m \in Numbers : version'[e][m] = version[e][m] BY ONLY <1>3, <1>5, <2>2
    <3> QED BY ONLY <2>1, <3>1, <3>2 DEF Taken, Numbers
  <2> QED BY ONLY <2>1, <2>2 DEF Fresh
<1>7. \A e \in Docs : Ready(e)' = Ready(e)
  <2>1. d \in Docs /\ n \in Numbers /\ version[d][n].state = "pending" BY <1>2
  <2>2. \A e \in Docs, m \in Numbers : version'[e][m].state = "ready" <=> version[e][m].state = "ready"
    BY ONLY <1>3, <1>4, <2>1
  <2> QED BY ONLY <2>2 DEF Ready, Numbers
<1>8. ASSUME InOrder PROVE InOrder'
  <2>1. GenAt(made', version', "idle", Idle) /\ Goto(c, "idle", Idle)
    BY DEF GenAt, Holding, RecordFailure, Return
  <2>2. (\A b, e \in Generating : b = e)' /\ (\A e \in Calls : GenAt(made, version, pc[e], call[e]))'
    BY <1>1, <1>8, <2>1, AloneFrame DEF Ordered
  <2>3. ASSUME NEW e \in made PROVE InForce(e)'
    <3>1. e \in Docs /\ InForce(e) BY <1>8 DEF InOrder, Ordered, Safe, WellTyped, TypeOK
    <3>2. \A m \in Ready(e) : version'[e][m] = version[e][m] BY <1>2, <1>3, <3>1 DEF Ready
    <3>3. {m \in Ready(e)' : ~version'[e][m].superseded} = {m \in Ready(e) : ~version[e][m].superseded}
      BY <1>7, <3>1, <3>2
    <3> QED BY <1>2, <1>7, <3>1, <3>3 DEF InForce
  <2> QED BY <1>2, <1>8, <2>2, <2>3 DEF InOrder
<1> QED BY <1>2, <1>6, <1>8 DEF Ordered

LEMMA StepOrdered ==
  ASSUME DocumentAssumption, ~AckLoss, Ordered, [Next]_vars
  PROVE  Ordered'
<1>1. Safe' BY StepSafe DEF Ordered
<1>2. CASE RequestChanges \/ AssignRequest \/ UNCHANGED vars
  <2>1. UNCHANGED <<documents, pc, call, overlapped>>
    BY <1>2 DEF RequestChanges, AssignRequest, vars, records
  <2>2. Fresh' BY <2>1 DEF Ordered, Fresh, Taken, documents, Numbers
  <2>3. InOrder => InOrder'
    BY <2>1 DEF InOrder, Generating, GenAt, InForce, Ready, documents, Numbers, Holding, GenerationSteps
  <2> QED BY <1>1, <2>1, <2>2, <2>3 DEF Ordered
<1>3. ASSUME NEW c \in Calls, PublishFails(c) PROVE Ordered'
  <2> DEFINE failed == [call[c] EXCEPT !.print = NoPrint]
  <2>1. /\ c \in Generating /\ pc[c] \in Holding /\ Goto(c, "fail", failed)
        /\ UNCHANGED documents /\ overlapped' = overlapped /\ call[c] \in Readings
    BY <1>3 DEF PublishFails, Generating, GenerationSteps, Holding, records, documents, Ordered,
                Safe, WellTyped, TypeOK
  <2>2. failed.doc = call[c].doc /\ failed.number = call[c].number BY <2>1 DEF Readings
  <2>3. InOrder => GenAt(made, version, "fail", failed)
    BY <2>1, <2>2 DEF InOrder, GenAt, Holding
  <2> HIDE DEF failed
  <2> QED BY <1>1, <2>1, <2>3, OrderedQuiet
<1> QED BY <1>1, <1>2, <1>3, QuietOrdered, ReserveOrdered, PublishOrdered, FailureOrdered
        DEF Next, Generation

-----------------------------------------------------------------------------
(* The theorems.                                                           *)

LEMMA AlwaysSafe == ASSUME DocumentAssumption, ~AckLoss PROVE Spec => []Safe
<1>1. Init => Safe
  <2> SUFFICES ASSUME Init PROVE Safe
    OBVIOUS
  <2>1. \A d \in Docs : Ready(d) = {} BY DEF Init, Ready, NoVersion
  <2>2. PublishedHasItsFile BY <2>1 DEF Init, PublishedHasItsFile
  <2>3. HeldOnce /\ ToldSafe BY DEF Init, HeldOnce, ToldSafe, Holding
  <2>4. \A c \in Calls : HoldAt(version, file, pc[c], call[c]) /\ ReadAt(version, pc[c], call[c])
    BY DEF Init, HoldAt, ReadAt, Holding
  <2> QED BY <2>2, <2>3, <2>4, InitTyping DEF Safe
<1>2. Safe /\ [Next]_vars => Safe' BY StepSafe
<1> QED BY <1>1, <1>2, PTL DEF Spec

\* A published version has its own file and the current one is published, whatever
\* generation was refused, failed, died or overlapped another.
THEOREM PublishedHaveFiles ==
  ASSUME DocumentAssumption, ~AckLoss PROVE Spec => []PublishedHasItsFile
<1>1. Safe => PublishedHasItsFile BY DEF Safe
<1> QED BY <1>1, AlwaysSafe, PTL

\* What operators are told, readers receive and the panel offers is published.
THEOREM HandedOutArePublished ==
  ASSUME DocumentAssumption, ~AckLoss PROVE Spec => []HandedOutIsPublished
<1>1. Safe => HandedOutIsPublished
  <2> SUFFICES ASSUME Safe PROVE HandedOutIsPublished
    OBVIOUS
  <2>1. \A t \in told : t.number \in Ready(t.doc) /\ file[t.doc][t.number] = t.print
    <3>1. \A t \in told : t.doc \in Docs BY DEF Safe, WellTyped, TypeOK
    <3> QED BY <3>1 DEF Safe, ToldSafe, PublishedHasItsFile
  <2>2. ASSUME NEW c \in Calls
        PROVE  /\ KnownAt(pc[c], call[c]) /\ ReadAt(version, pc[c], call[c])
    BY DEF Safe, WellTyped, Known
  <2>3. ASSUME NEW c \in Calls, pc[c] = "deliver"
        PROVE  call[c].number \in Ready(call[c].doc)
               /\ call[c].print = version[call[c].doc][call[c].number].print
    BY <2>2, <2>3 DEF KnownAt, ReadAt, Ready
  <2>4. ASSUME NEW c \in Calls, pc[c] = "panel"
        PROVE  Courante(c) \subseteq Ready(call[c].doc)
               /\ (call[c].number # 0 => Courante(c) # {})
    <3>1. DocumentAssumption => \A n \in Numbers : n # 0 BY DEF Numbers
    <3>2. Courante(c) \subseteq {call[c].number} BY DEF Courante
    <3>3. call[c].number # 0 => /\ call[c].number \in Ready(call[c].doc)
                                /\ call[c].number \in Courante(c)
      BY <2>2, <2>4 DEF ReadAt, Ready, Courante, Taken
    <3>4. Courante(c) \subseteq Numbers BY DEF Courante, Taken
    <3> QED BY <3>1, <3>2, <3>3, <3>4
  <2> QED BY <2>1, <2>3, <2>4 DEF HandedOutIsPublished
<1> QED BY <1>1, AlwaysSafe, PTL

LEMMA AlwaysOrdered == ASSUME DocumentAssumption, ~AckLoss PROVE Spec => []Ordered
<1>1. Init => Fresh /\ InOrder
  <2> SUFFICES ASSUME Init PROVE Fresh /\ InOrder
    OBVIOUS
  <2>1. Fresh BY DEF Init, Fresh, Taken, NoVersion
  <2>2. Generating = {} BY DEF Init, Generating, GenerationSteps
  <2>3. \A c \in Calls : GenAt(made, version, pc[c], call[c]) BY DEF Init, GenAt, Holding
  <2> QED BY <2>1, <2>2, <2>3 DEF Init, InOrder
<1>2. Fresh /\ InOrder /\ Safe => Ordered BY DEF Ordered
<1>3. Ordered /\ [Next]_vars => Ordered' BY StepOrdered
<1> QED BY <1>1, <1>2, <1>3, AlwaysSafe, PTL DEF Spec

\* While generations follow one another there is one document, and the last version
\* that was published is the one in force.
THEOREM LastIsInForce ==
  ASSUME DocumentAssumption, ~AckLoss PROVE Spec => []LastVersionInForce
<1>1. Ordered => LastVersionInForce
  <2> SUFFICES ASSUME Ordered, ~overlapped PROVE /\ Cardinality(made) <= 1
                                                /\ \A d \in made : InForce(d)
    BY DEF LastVersionInForce, InForce
  <2>1. InOrder BY DEF Ordered
  <2>2. CASE made = {} BY <2>1, <2>2, FS_EmptySet DEF InOrder
  <2>3. CASE made # {}
    <3>1. PICK d \in made : made = {d} BY <2>1, <2>3 DEF InOrder
    <3>2. Cardinality(made) = 1 BY <3>1, FS_Singleton
    <3> QED BY <2>1, <3>2 DEF InOrder
  <2> QED BY <2>2, <2>3
<1> QED BY <1>1, AlwaysOrdered, PTL

\* The matrix of who may download what, for every row of a document, every subject and
\* every operator the request is or was assigned to.
THEOREM ReadersAreRight == ASSUME DocumentAssumption PROVE Spec => []OnlyTheRightReaders
<1>1. ASSUME NEW t \in Rows, NEW s \in Subjects, Reader(s, t)
      PROVE  /\ ~t.deleted
             /\ s.role = "staff" => s.id = assigned
             /\ s.role = "client" => s.id = Owner /\ ~t.archived
             /\ t.visibility = "private_admin" => s.role = "admin"
  <2>1. t.assigned = assigned /\ t.owner = Owner BY DEF Rows
  <2> QED BY <1>1, <2>1 DEF Reader, Subjects, AuthorizeDocumentAccess, AuthorizeStaff,
                     AuthorizeClient, StaffVisibilities, ClientVisibilities
<1>2. ASSUME NEW t \in Rows, NEW u \in Users, ListedForOwner(u, t)
      PROVE  Reader([id |-> u, role |-> "client"], t)
  BY <1>2 DEF ListedForOwner, Reader, AuthorizeDocumentAccess, AuthorizeClient
<1>3. OnlyTheRightReaders BY <1>1, <1>2 DEF OnlyTheRightReaders
<1> QED BY <1>3, PTL

-----------------------------------------------------------------------------
(* The calls implement SummaryVersions: a publication publishes, an answer *)
(* that reuses a version confirms it, a generation that begins beside      *)
(* another overlaps it, and every other step changes nothing that is       *)
(* promised.                                                               *)

\* What is published, as the refinement maps it.
Shelf == [d \in Docs |-> [n \in Numbers |->
            IF version[d][n].state = "ready" THEN file[d][n] ELSE NoPrint]]

\* A step that publishes nothing leaves the shelf.
LEMMA ShelfStays ==
  ASSUME Kept, \A d \in Docs : Ready(d)' \subseteq Ready(d)
  PROVE  Shelf' = Shelf
<1>1. ASSUME NEW d \in Docs, NEW n \in Numbers
      PROVE  (IF version'[d][n].state = "ready" THEN file'[d][n] ELSE NoPrint)
             = (IF version[d][n].state = "ready" THEN file[d][n] ELSE NoPrint)
  <2>1. n \in Ready(d)' <=> version'[d][n].state = "ready" BY DEF Ready, Numbers
  <2>2. n \in Ready(d) <=> version[d][n].state = "ready" BY DEF Ready
  <2> QED BY <2>1, <2>2 DEF Kept
<1> QED BY <1>1 DEF Shelf, Numbers

LEMMA Unpromised ==
  ASSUME Kept, \A d \in Docs : Ready(d)' \subseteq Ready(d), UNCHANGED <<current, told, overlapped>>
  PROVE  UNCHANGED Versioned!vars
<1>1. Shelf' = Shelf BY ShelfStays
<1> QED BY <1>1 DEF Versioned!vars, Shelf

\* A generation that runs alone reuses the version in force.
ReusesCurrent == \A c \in Calls : pc[c] = "reuse" => call[c].number = current[call[c].doc]

LEMMA ReuseGoesOn ==
  ASSUME Ordered, NEW c \in Calls, NEW at, NEW read, Goto(c, at, read),
         at = "reuse" => read.number = current'[read.doc],
         current' = current \/ c \in Generating,
         ~overlapped => ReusesCurrent, overlapped => overlapped'
  PROVE  (~overlapped => ReusesCurrent)'
<1> SUFFICES ASSUME ~overlapped', NEW e \in Calls, pc'[e] = "reuse"
             PROVE  call'[e].number = current'[call'[e].doc]
  BY DEF ReusesCurrent
<1>1. IF e = c THEN pc'[e] = at /\ call'[e] = read ELSE pc'[e] = pc[e] /\ call'[e] = call[e]
  BY DEF Goto, Ordered, Safe, WellTyped, TypeOK
<1>2. CASE e = c
  BY <1>1, <1>2
<1>3. CASE e # c
  <2>1. e \in Generating BY <1>1, <1>3 DEF Generating, GenerationSteps
  <2>2. current' = current BY <1>3, <2>1 DEF Ordered, InOrder
  <2> QED BY <1>1, <1>3, <2>2 DEF ReusesCurrent
<1> QED BY <1>2, <1>3

LEMMA StepReuses ==
  ASSUME ~AckLoss, Ordered, ~overlapped => ReusesCurrent, [Next]_vars
  PROVE  (~overlapped => ReusesCurrent)'
<1>1. CASE RequestChanges \/ AssignRequest \/ UNCHANGED vars
  BY <1>1 DEF RequestChanges, AssignRequest, vars, documents, records, ReusesCurrent
<1>2. ASSUME NEW c \in Calls, Generation(c) \/ Reading(c) \/ CallDies(c)
      PROVE  (~overlapped => ReusesCurrent)'
  <2>1. overlapped => overlapped'
    BY <1>2 DEF Generation, AskGeneration, LoadSource, FindDocument, ReuseVersion, Reserve, Render,
                PutFile, Publish, PublishFails, RecordFailure, Reading, AskDocument, LocateVersion,
                FetchFile, Deliver, OpenPanel, ShowPanel, CallDies, records
  <2>2. ASSUME NEW at, NEW read, Goto(c, at, read), at # "reuse", current' = current
        PROVE  (~overlapped => ReusesCurrent)'
    BY <2>1, <2>2, ReuseGoesOn
  <2>3. CASE FindDocument(c)
    <3>1. current' = current /\ call[c] \in Readings
      BY <2>3 DEF FindDocument, documents, Ordered, Safe, WellTyped, TypeOK
    <3>2. CASE \E read : Goto(c, "reserve", read)
      BY <2>2, <3>1, <3>2
    <3>3. CASE ~\E read : Goto(c, "reserve", read)
      <4>1. PICK d \in made : Goto(c, "reuse", [call[c] EXCEPT !.doc = d, !.number = current[d]])
        BY <2>3, <3>3 DEF FindDocument
      <4>2. [call[c] EXCEPT !.doc = d, !.number = current[d]].doc = d
            /\ [call[c] EXCEPT !.doc = d, !.number = current[d]].number = current[d]
        BY <3>1 DEF Readings
      <4> QED BY <2>1, <3>1, <4>1, <4>2, ReuseGoesOn
    <3> QED BY <3>2, <3>3
  <2>4. CASE Publish(c)
    <3>1. c \in Generating /\ Goto(c, "idle", Idle)
      BY <2>4 DEF Publish, Generating, GenerationSteps, Answer, Return
    <3> QED BY <2>1, <3>1, ReuseGoesOn
  <2>5. CASE Generation(c) /\ ~FindDocument(c) /\ ~Publish(c)
    <3>1. current' = current
      BY <2>5 DEF Generation, AskGeneration, LoadSource, ReuseVersion, Reserve, Render,
                  PutFile, PublishFails, RecordFailure, documents
    <3>2. \E at, read : at # "reuse" /\ Goto(c, at, read)
      BY <2>5 DEF Generation, AskGeneration, LoadSource, ReuseVersion, Reserve, Render,
                  PutFile, PublishFails, RecordFailure, Answer, Return
    <3> QED BY <2>2, <3>1, <3>2
  <2>6. CASE Reading(c) \/ CallDies(c)
    <3>1. current' = current
      BY <2>6 DEF Reading, AskDocument, LocateVersion, FetchFile, Deliver, OpenPanel, ShowPanel,
                  CallDies, documents
    <3>2. \E at, read : at # "reuse" /\ Goto(c, at, read)
      BY <2>6 DEF Reading, AskDocument, LocateVersion, FetchFile, Deliver, OpenPanel, ShowPanel,
                  CallDies, Return
    <3> QED BY <2>2, <3>1, <3>2
  <2> QED BY <1>2, <2>3, <2>4, <2>5, <2>6
<1> QED BY <1>1, <1>2 DEF Next

\* The transaction of a publication, under the number its generation holds.
LEMMA PublishPublishes ==
  ASSUME DocumentAssumption, Ordered, Kept, NEW c \in Calls, Publish(c)
  PROVE  \E d \in Docs, n \in Numbers, p \in Prints : Versioned!Publish(d, n, p)
<1>1. pc[c] = "publish" /\ pc[c] \in Holding /\ c \in Generating
  BY DEF Publish, Holding, Generating, GenerationSteps
<1>0. PICK d \in Docs, n \in Numbers, p \in Prints :
        d = call[c].doc /\ n = call[c].number /\ p = call[c].print
  BY <1>1, HeldAlone DEF Ordered, Safe, WellTyped, Known, KnownAt
<1>2. /\ d \in Docs /\ n \in Numbers /\ version[d][n].state = "pending" /\ file[d][n] = p
      /\ version \in [Docs -> [Numbers -> Versions]] /\ current \in [Docs -> 0..MaxVersions]
      /\ file' = file /\ overlapped' = overlapped
  BY <1>0, <1>1, HeldAlone DEF HoldAt, Ordered, Safe, WellTyped, TypeOK, Publish
<1>3. /\ Published(d, n) /\ told' = told \cup {Versioned!Version(d, n, p)}
  BY <1>0 DEF Publish, Published, Answer, Versioned!Version
<1>4. \A e \in Docs, m \in Numbers :
        version'[e][m].state = IF e = d /\ m = n THEN "ready" ELSE version[e][m].state
  <2>1. \A e \in Docs, m \in Numbers : e # d => version'[e][m] = version[e][m]
    BY <1>2, <1>3 DEF Published
  <2>2. ASSUME NEW m \in Numbers
        PROVE  version'[d][m].state = IF m = n THEN "ready" ELSE version[d][m].state
    <3>1. version[d][m] \in Versions BY <1>2
    <3>2. version'[d][m] = IF m = n THEN [version[d][m] EXCEPT !.state = "ready"]
                           ELSE IF version[d][m].state # "none" /\ Supersedes(d, n, m)
                                THEN [version[d][m] EXCEPT !.superseded = TRUE]
                           ELSE version[d][m]
      BY <1>2, <1>3 DEF Published
    <3> QED BY <3>1, <3>2 DEF Versions
  <2> QED BY <2>1, <2>2
<1>5. Shelf[d][n] = NoPrint BY <1>2 DEF Shelf
<1>6. Shelf' = [Shelf EXCEPT ![d][n] = p]
  <2>1. ASSUME NEW e \in Docs, NEW m \in Numbers
        PROVE  (IF version'[e][m].state = "ready" THEN file'[e][m] ELSE NoPrint)
               = IF e = d /\ m = n THEN p
                 ELSE IF version[e][m].state = "ready" THEN file[e][m] ELSE NoPrint
    BY <1>2, <1>4
  <2> QED BY <1>2, <2>1 DEF Shelf, Numbers
<1>7. ASSUME ~overlapped, NEW e \in Docs, NEW m \in Numbers, Shelf[e][m] # NoPrint
      PROVE  e = d /\ m < n
  <2>1. InOrder /\ Fresh BY <1>7 DEF Ordered
  <2>2. version[e][m].state = "ready" BY <1>7 DEF Shelf
  <2>3. m \in Taken(e) /\ n \in Taken(d) BY <1>2, <2>2 DEF Taken
  <2>4. e \in made /\ d \in made BY <1>2, <2>1, <2>3 DEF Fresh
  <2>5. e = d BY <2>1, <2>4 DEF InOrder
  <2>6. m <= n BY <1>0, <1>1, <2>1, <2>2, <2>5 DEF InOrder, GenAt
  <2>7. m # n BY <1>2, <2>2, <2>5
  <2> QED BY <2>5, <2>6, <2>7, <1>2 DEF Numbers, DocumentAssumption
<1>8. current' = [current EXCEPT ![d] = n] BY <1>3 DEF Published
<1> QED BY <1>2, <1>3, <1>5, <1>6, <1>7, <1>8 DEF Versioned!Publish, Shelf

\* An answer with the version that was printed from the data just read.
LEMMA ReuseConfirms ==
  ASSUME DocumentAssumption, Ordered, ~overlapped => ReusesCurrent, NEW c \in Calls, ReuseVersion(c), told' # told
  PROVE  Versioned!Confirm(call[c].doc, call[c].number)
<1> DEFINE d == call[c].doc
           n == call[c].number
<1>1. pc[c] = "reuse" /\ UNCHANGED <<version, current, file, overlapped>>
  BY DEF ReuseVersion, documents
<1>2. /\ Reusable(version[d][n], call[c].print)
      /\ told' = told \cup {Versioned!Version(d, n, call[c].print)}
  BY DEF ReuseVersion, Answer, Versioned!Version
<1>3. d \in Docs /\ n \in Numbers /\ call[c].print \in Prints
  BY <1>1 DEF Ordered, Safe, WellTyped, Known, KnownAt
<1>4. Shelf[d][n] = call[c].print
  <2>1. n \in Ready(d) /\ version[d][n].print = call[c].print BY <1>2, <1>3 DEF Ready, Reusable
  <2>2. file[d][n] = call[c].print BY <1>3, <2>1 DEF Ordered, Safe, PublishedHasItsFile
  <2> QED BY <1>3, <2>1, <2>2 DEF Shelf, Ready
<1>5. Shelf' = Shelf BY <1>1 DEF Shelf
<1>6. ~overlapped => n = current[d] BY <1>1 DEF ReusesCurrent
<1>7. Shelf[d][n] # NoPrint BY <1>3, <1>4 DEF DocumentAssumption
<1>8. told' = told \cup {Versioned!Version(d, n, Shelf[d][n])} BY <1>2, <1>4
<1> HIDE DEF d, n
<1> QED BY ONLY <1>1, <1>5, <1>6, <1>7, <1>8 DEF Versioned!Confirm, Shelf, d, n

LEMMA VersionsStep ==
  ASSUME DocumentAssumption, ~AckLoss, Ordered, ~overlapped => ReusesCurrent, [Next]_vars
  PROVE  [Versioned!Next]_(Versioned!vars)
<1>1. Kept BY StepSafe DEF Ordered
<1>2. CASE RequestChanges \/ AssignRequest \/ UNCHANGED vars
  <2>1. UNCHANGED <<version, current, told, overlapped>>
    BY <1>2 DEF RequestChanges, AssignRequest, vars, documents, records
  <2>2. \A d \in Docs : Ready(d)' \subseteq Ready(d) BY <2>1 DEF Ready, Numbers
  <2> QED BY <1>1, <2>1, <2>2, Unpromised
<1>3. ASSUME NEW c \in Calls, Generation(c) \/ Reading(c) \/ CallDies(c)
      PROVE  [Versioned!Next]_(Versioned!vars)
  <2>1. ASSUME UNCHANGED <<version, current, told, overlapped>>
        PROVE  UNCHANGED Versioned!vars
    <3>1. \A d \in Docs : Ready(d)' \subseteq Ready(d) BY <2>1 DEF Ready, Numbers
    <3> QED BY <1>1, <2>1, <3>1, Unpromised
  <2>2. CASE \E u \in Users, force \in BOOLEAN : AskGeneration(c, u, force)
    <3>1. UNCHANGED <<version, current, file, told>>
          /\ (overlapped' = overlapped \/ overlapped' = TRUE)
      <4>1. UNCHANGED <<version, current, file, told>>
            /\ overlapped' = (overlapped \/ Generating # {})
        BY <2>2 DEF AskGeneration, documents
      <4>2. overlapped \in BOOLEAN BY DEF Ordered, Safe, WellTyped, TypeOK
      <4> QED BY <4>1, <4>2
    <3>2. Shelf' = Shelf BY <3>1 DEF Shelf
    <3>3. CASE overlapped' = overlapped BY <2>1, <3>1, <3>3
    <3>4. CASE overlapped' # overlapped
      BY <3>1, <3>2, <3>4 DEF Versioned!Next, Versioned!Overlap, Shelf
    <3> QED BY <3>3, <3>4
  <2>3. CASE ReuseVersion(c)
    <3>1. CASE told' = told
      BY <2>1, <2>3, <3>1 DEF ReuseVersion, documents
    <3>2. CASE told' # told
      <4>1. Versioned!Confirm(call[c].doc, call[c].number) BY <2>3, <3>2, ReuseConfirms
      <4>2. call[c].doc \in Docs /\ call[c].number \in Numbers
        BY <2>3 DEF ReuseVersion, Ordered, Safe, WellTyped, Known, KnownAt
      <4> QED BY <3>2, <4>1, <4>2 DEF Versioned!Next
    <3> QED BY <3>1, <3>2
  <2>4. CASE Reserve(c)
    <3>1. UNCHANGED <<current, told, overlapped>> BY <2>4 DEF Reserve, records
    <3>2. PICK d \in Target(c), n \in Numbers :
            version' = [version EXCEPT ![d][n] =
              [state |-> "pending", print |-> call[c].print, superseded |-> FALSE]]
      BY <2>4 DEF Reserve
    <3>3. version \in [Docs -> [Numbers -> Versions]] BY DEF Ordered, Safe, WellTyped, TypeOK
    <3>4. \A e \in Docs, m \in Numbers :
            version'[e][m].state = "ready" => version[e][m].state = "ready"
      BY <3>2, <3>3
    <3>5. \A e \in Docs : Ready(e)' \subseteq Ready(e) BY <3>4 DEF Ready, Numbers
    <3> QED BY <1>1, <3>1, <3>5, Unpromised
  <2>5. CASE Publish(c)
    <3>1. \E d \in Docs, n \in Numbers, p \in Prints : Versioned!Publish(d, n, p)
      BY <1>1, <2>5, PublishPublishes
    <3>2. CASE told' = told  \* It cannot be: nobody was told of a version not published yet.
      <4>1. [doc |-> call[c].doc, number |-> call[c].number, print |-> call[c].print] \in told
        BY <2>5, <3>2 DEF Publish, Answer
      <4>2. call[c].number \in Ready(call[c].doc) BY <4>1 DEF Ordered, Safe, ToldSafe
      <4>3. pc[c] \in Holding BY <2>5 DEF Publish, Holding
      <4> QED BY <4>2, <4>3, HeldAlone DEF Ordered, Ready
    <3>3. CASE told' # told
      BY <3>1, <3>3 DEF Versioned!Next
    <3> QED BY <3>2, <3>3
  <2>6. CASE RecordFailure(c)
    <3>1. UNCHANGED <<current, told, overlapped>> BY <2>6 DEF RecordFailure, records
    <3>2. version' = [version EXCEPT ![call[c].doc][call[c].number].state = "failed"]
      BY <2>6 DEF RecordFailure
    <3>3. version \in [Docs -> [Numbers -> Versions]] BY DEF Ordered, Safe, WellTyped, TypeOK
    <3>4. ASSUME NEW e \in Docs, NEW m \in Numbers, version'[e][m].state = "ready"
          PROVE  version[e][m].state = "ready"
      <4>1. version[e][m] \in Versions BY <3>3
      <4>2. version'[e][m] \in {version[e][m], [version[e][m] EXCEPT !.state = "failed"]}
        BY <3>2, <3>3
      <4>3. [version[e][m] EXCEPT !.state = "failed"].state = "failed" BY <4>1 DEF Versions
      <4> QED BY <3>4, <4>2, <4>3
    <3>5. \A e \in Docs : Ready(e)' \subseteq Ready(e) BY <3>4 DEF Ready, Numbers
    <3> QED BY <1>1, <3>1, <3>5, Unpromised
  <2>7. CASE LoadSource(c) \/ FindDocument(c) \/ Render(c) \/ PutFile(c) \/ PublishFails(c)
    BY <2>1, <2>7 DEF LoadSource, FindDocument, Render, PutFile, PublishFails, documents, records
  <2>8. CASE Reading(c) \/ CallDies(c)
    BY <2>1, <2>8 DEF Reading, AskDocument, LocateVersion, FetchFile, Deliver, OpenPanel, ShowPanel,
                      CallDies, documents, records
  <2> QED BY <1>3, <2>2, <2>3, <2>4, <2>5, <2>6, <2>7, <2>8 DEF Generation
<1> QED BY <1>2, <1>3 DEF Next

LEMMA VersionsInit == ASSUME Init PROVE Versioned!Init /\ ReusesCurrent
<1>1. Shelf = [d \in Docs |-> [n \in Numbers |-> NoPrint]] BY DEF Init, Shelf, NoVersion
<1>2. ReusesCurrent BY DEF Init, ReusesCurrent
<1> QED BY <1>1, <1>2 DEF Init, Versioned!Init, Shelf

\* Generations, publications and failures implement the promise of SummaryVersions: a
\* version is published once and stays, operators are told of published versions only,
\* and without overlap the numbers grow within one document.
THEOREM ImplementsVersions ==
  ASSUME DocumentAssumption, ~AckLoss PROVE Spec => VersionsSpec
<1>1. Init => Versioned!Init /\ (~overlapped => ReusesCurrent) BY VersionsInit
<1>2. Ordered /\ (~overlapped => ReusesCurrent) /\ [Next]_vars
        => (~overlapped => ReusesCurrent)' /\ [Versioned!Next]_(Versioned!vars)
  BY StepReuses, VersionsStep
<1> QED BY <1>1, <1>2, AlwaysOrdered, PTL DEF Spec, VersionsSpec, Versioned!Spec

-----------------------------------------------------------------------------
(* Rotation of the encryption key (SealedSecrets).  With the application   *)
(* stopped and every commit acknowledged, a row holds what was meant under *)
(* the key the application opens it with, at each step of a run that may   *)
(* be killed or repeated.                                                  *)

\* Where a run of the script is.
States == {"idle", "factors", "mails", "seal", "write", "applied", "refused"}

\* What the script has read is what is there.
SealsFresh ==
  /\ ssScript \in {"mails", "seal", "write"} => \A x \in Factors : ssFound[x] = ssSealed[x]
  /\ ssScript \in {"seal", "write"} => \A x \in Mails : ssFound[x] = ssSealed[x]

\* The key that opens what is sealed: the new one as soon as the script has written.
KeyInForce == IF ssScript = "applied" THEN ssNew ELSE ssKey

\* Every secret is what was meant, and opens with the key in force.
Readable == \A x \in Seals!Rows : ssSealed[x].secret = ssMeant[x] /\ Seals!Opens(KeyInForce, ssSealed[x])

\* The script runs while the application is stopped.
Rotating ==
  /\ ssRunning => ssScript = "idle"
  /\ ssScript # "idle" => ssNew \in 1..MaxKeys

\* Together, inductive.
SealInv == Seals!TypeOK /\ SealsFresh /\ Readable /\ Rotating

\* An empty cell is a cell.
LEMMA CellFacts ==
  ASSUME Seals!SealAssumption
  PROVE  Seals!Empty \in Seals!Cells /\ Seals!Empty.secret = Nobody /\ Seals!Nothing \in [Seals!Rows -> Seals!Cells]
BY DEF Seals!SealAssumption, Seals!Empty, Seals!Cells, Seals!Nothing

LEMMA SealInit == ASSUME Seals!SealAssumption PROVE Seals!Init => SealInv
<1> SUFFICES ASSUME Seals!Init PROVE SealInv
  OBVIOUS
<1>1. Seals!TypeOK BY CellFacts DEF Seals!Init, Seals!TypeOK, Seals!SealAssumption
<1>2. SealsFresh /\ Rotating BY DEF Seals!Init, SealsFresh, Rotating
<1>3. Readable BY CellFacts DEF Seals!Init, Readable, Seals!Nothing, Seals!Opens
<1> QED BY <1>1, <1>2, <1>3 DEF SealInv

\* What the application writes, it writes with its key.
LEMMA ApplicationKeeps ==
  ASSUME Seals!SealAssumption, SealInv,
         \/ \E x \in Seals!Rows : Seals!Forget(x) \/ \E s \in Secrets : Seals!Seal(x, s)
         \/ Seals!StopApplication
  PROVE  SealInv'
<1>1. Seals!TypeOK /\ SealsFresh /\ Readable /\ Rotating BY DEF SealInv
<1>2. ssSealed \in [Seals!Rows -> Seals!Cells] /\ ssMeant \in [Seals!Rows -> Secrets \cup {Nobody}] /\ ssKey \in 0..MaxKeys
  BY <1>1 DEF Seals!TypeOK, Seals!SealAssumption
<1>3. ASSUME NEW x \in Seals!Rows, NEW cell \in Seals!Cells, NEW content \in Secrets \cup {Nobody}, ssRunning,
             ssSealed' = [ssSealed EXCEPT ![x] = cell], ssMeant' = [ssMeant EXCEPT ![x] = content],
             cell.secret = content, Seals!Opens(ssKey, cell), UNCHANGED <<Seals!environment, Seals!rotation>>
      PROVE  SealInv'
  <2>1. UNCHANGED <<ssRunning, ssKey, ssScript, ssOld, ssNew, ssFound>>
    BY <1>3 DEF Seals!environment, Seals!rotation
  <2>2. ssScript = "idle" BY <1>1, <1>3 DEF Rotating
  <2>3. Seals!TypeOK' BY <1>1, <1>2, <1>3, <2>1 DEF Seals!TypeOK
  <2>4. SealsFresh' /\ Rotating' BY <1>1, <2>1, <2>2 DEF SealsFresh, Rotating
  <2>5. ASSUME NEW y \in Seals!Rows
    PROVE ssSealed'[y].secret = ssMeant'[y] /\ Seals!Opens(ssKey, ssSealed'[y])
    <3>1. ssSealed[y].secret = ssMeant[y] /\ Seals!Opens(ssKey, ssSealed[y])
      BY <1>1, <2>2 DEF Readable, KeyInForce
    <3> QED BY <1>2, <1>3, <3>1
  <2>6. Readable' BY <2>1, <2>2, <2>5 DEF Readable, KeyInForce, Seals!Opens
  <2> QED BY <2>3, <2>4, <2>6 DEF SealInv
<1>4. ASSUME NEW x \in Seals!Rows, NEW s \in Secrets, Seals!Seal(x, s) PROVE SealInv'
  <2> DEFINE cell == [key |-> ssKey, secret |-> s]
  <2>1. cell \in Seals!Cells /\ cell.secret = s /\ Seals!Opens(ssKey, cell)
    BY <1>2 DEF Seals!Cells, Seals!Opens
  <2>2. ssSealed' = [ssSealed EXCEPT ![x] = cell] BY <1>4 DEF Seals!Seal
  <2> HIDE DEF cell
  <2> QED BY <1>3, <1>4, <2>1, <2>2 DEF Seals!Seal
<1>5. ASSUME NEW x \in Seals!Rows, Seals!Forget(x) PROVE SealInv'
  <2>1. Seals!Opens(ssKey, Seals!Empty) BY CellFacts DEF Seals!Opens
  <2> QED BY <1>3, <1>5, <2>1, CellFacts DEF Seals!Forget
<1>6. CASE Seals!StopApplication
  <2>1. UNCHANGED <<ssKey, ssSealed, ssMeant, ssScript, ssOld, ssNew, ssFound>> /\ ssRunning' = FALSE
    BY <1>6 DEF Seals!StopApplication, Seals!columns, Seals!rotation
  <2>2. Seals!TypeOK' /\ SealsFresh' /\ Rotating'
    BY <1>1, <2>1 DEF Seals!TypeOK, SealsFresh, Rotating
  <2>3. Readable' BY <1>1, <2>1 DEF Readable, KeyInForce, Seals!Opens
  <2> QED BY <2>2, <2>3 DEF SealInv
<1> QED BY <1>4, <1>5, <1>6

\* Starting the application breaks nothing: its key is the one in force.
LEMMA StartKeeps ==
  ASSUME Seals!SealAssumption, SealInv, Seals!StartApplication
  PROVE  SealInv'
<1>1. Seals!TypeOK /\ Readable /\ Rotating BY DEF SealInv
<1>2. /\ ssRunning' = TRUE /\ ssKey' = KeyInForce /\ ssScript' = "idle" /\ ssOld' = 0 /\ ssNew' = 0
      /\ UNCHANGED <<ssSealed, ssMeant, ssFound>>
  BY DEF Seals!StartApplication, Seals!columns, KeyInForce
<1>3. KeyInForce \in 1..MaxKeys BY <1>1 DEF KeyInForce, Rotating, Seals!TypeOK
<1>4. Seals!TypeOK'
  BY <1>1, <1>2, <1>3, Seals!SealAssumption DEF Seals!TypeOK, Seals!SealAssumption
<1>5. SealsFresh' /\ Rotating' BY <1>2 DEF SealsFresh, Rotating
<1>6. KeyInForce' = KeyInForce BY <1>2 DEF KeyInForce
<1>7. Readable' BY <1>1, <1>2, <1>6 DEF Readable, Seals!Opens
<1> QED BY <1>4, <1>5, <1>7 DEF SealInv

\* Before its transaction the script changes nothing, and nobody else does.
LEMMA ReadingKeeps ==
  ASSUME Seals!SealAssumption, SealInv, Seals!RunScript \/ Seals!ReadFactors \/ Seals!ReadMails \/ Seals!Rewrap
  PROVE  SealInv'
<1>1. Seals!TypeOK /\ SealsFresh /\ Readable /\ Rotating BY DEF SealInv
<1>2. UNCHANGED <<ssRunning, ssKey, ssSealed, ssMeant>>
  BY DEF Seals!RunScript, Seals!ReadFactors, Seals!ReadMails, Seals!ReadTable, Seals!Rewrap,
      Seals!environment, Seals!columns
<1>3. ssScript # "applied" /\ ssScript' \notin {"applied", "idle"} /\ ~ssRunning
  BY <1>1
  DEF Seals!RunScript, Seals!ReadFactors, Seals!ReadMails, Seals!ReadTable, Seals!Rewrap, Rotating
<1>4. Readable' BY <1>1, <1>2, <1>3 DEF Readable, KeyInForce, Seals!Opens
<1>5. CASE Seals!RunScript
  <2>1. ssKey + 1 \in 1..MaxKeys /\ ssKey \in 0..MaxKeys
    BY <1>1, <1>5 DEF Seals!RunScript, Seals!TypeOK, Seals!SealAssumption
  <2>2. Seals!TypeOK' BY <1>1, <1>2, <1>5, <2>1 DEF Seals!RunScript, Seals!TypeOK
  <2>3. SealsFresh' /\ Rotating'
    BY <1>2, <1>3, <1>5, <2>1 DEF Seals!RunScript, SealsFresh, Rotating
  <2> QED BY <1>4, <2>2, <2>3 DEF SealInv
<1>6. CASE Seals!ReadFactors \/ Seals!ReadMails
  <2>1. PICK rows \in {Factors, Mails} :
          ssFound' = [x \in Seals!Rows |-> IF x \in rows THEN ssSealed[x] ELSE ssFound[x]]
          /\ UNCHANGED <<ssOld, ssNew>>
    BY <1>6 DEF Seals!ReadFactors, Seals!ReadMails, Seals!ReadTable
  <2>2. Seals!TypeOK'
    BY <1>1, <1>2, <1>6, <2>1
    DEF Seals!ReadFactors, Seals!ReadMails, Seals!ReadTable, Seals!TypeOK
  <2>3. SealsFresh'
    BY <1>1, <1>2, <1>6
    DEF Seals!ReadFactors, Seals!ReadMails, Seals!ReadTable, SealsFresh, Seals!Rows
  <2>4. Rotating'
    BY <1>1, <1>2, <1>3, <1>6, <2>1
    DEF Seals!ReadFactors, Seals!ReadMails, Seals!ReadTable, Rotating
  <2> QED BY <1>4, <2>2, <2>3, <2>4 DEF SealInv
<1>7. CASE Seals!Rewrap
  <2>1. ssScript = "seal" /\ ssScript' = "write" /\ UNCHANGED <<ssOld, ssNew, ssFound>>
    BY <1>7 DEF Seals!Rewrap
  <2> QED BY <1>1, <1>2, <1>3, <1>4, <2>1 DEF SealInv, Seals!TypeOK, SealsFresh, Rotating
<1> QED BY <1>5, <1>6, <1>7

\* The transaction: all the rows, with the secrets they had.
LEMMA ApplyKeeps ==
  ASSUME Seals!SealAssumption, SealInv, Seals!Apply
  PROVE  SealInv'
<1>1. Seals!TypeOK /\ SealsFresh /\ Readable /\ Rotating /\ ssSealed \in [Seals!Rows -> Seals!Cells]
  BY DEF SealInv, Seals!TypeOK
<1>2. /\ ssSealed' = [x \in Seals!Rows |-> IF ssFound[x] # Seals!Empty /\ ssSealed[x] # Seals!Empty
                                           THEN [key |-> ssNew, secret |-> ssFound[x].secret] ELSE ssSealed[x]]
      /\ ssScript = "write" /\ ssScript' = "applied" /\ ssFound' = Seals!Nothing
      /\ UNCHANGED <<ssRunning, ssKey, ssMeant, ssOld, ssNew>>
  BY DEF Seals!Apply, Seals!Write, Seals!Written, Seals!environment
<1>3. \A x \in Seals!Rows : ssFound[x] = ssSealed[x] BY <1>1, <1>2 DEF SealsFresh, Seals!Rows
<1>4. ssNew \in 1..MaxKeys /\ ssNew \in 0..MaxKeys BY <1>1, <1>2 DEF Rotating, Seals!TypeOK
<1>5. ASSUME NEW x \in Seals!Rows
      PROVE  ssSealed'[x] \in Seals!Cells /\ ssSealed'[x].secret = ssMeant[x] /\ Seals!Opens(ssNew, ssSealed'[x])
  <2>1. ssSealed[x] \in Seals!Cells /\ ssSealed[x].secret = ssMeant[x] BY <1>1 DEF Readable
  <2>2. CASE ssSealed[x] = Seals!Empty
    <3>1. ssSealed'[x] = Seals!Empty BY <1>2, <2>2
    <3> QED BY <2>1, <2>2, <3>1, CellFacts DEF Seals!Opens
  <2>3. CASE ssSealed[x] # Seals!Empty
    <3>1. ssSealed'[x] = [key |-> ssNew, secret |-> ssSealed[x].secret] BY <1>2, <1>3, <2>3
    <3> QED BY <1>4, <2>1, <3>1 DEF Seals!Opens, Seals!Cells
  <2> QED BY <2>2, <2>3
<1>6. ssSealed' \in [Seals!Rows -> Seals!Cells] BY <1>2, <1>5
<1>7. Seals!TypeOK' BY <1>1, <1>2, <1>6, CellFacts DEF Seals!TypeOK
<1>8. SealsFresh' /\ Rotating' BY <1>1, <1>2 DEF SealsFresh, Rotating
<1>9. Readable' BY <1>2, <1>5 DEF Readable, KeyInForce, Seals!Opens
<1> QED BY <1>7, <1>8, <1>9 DEF SealInv

\* A run that stops leaves what it was doing either done or undone.
LEMMA FailureKeeps ==
  ASSUME Seals!SealAssumption, SealInv, Seals!ScriptFails
  PROVE  SealInv'
<1>1. Seals!TypeOK /\ SealsFresh /\ Readable /\ Rotating BY DEF SealInv
<1>2. /\ ssScript \notin {"idle", "applied"} /\ ssScript' = "refused" /\ ssFound' = Seals!Nothing
      /\ UNCHANGED <<ssRunning, ssKey, ssSealed, ssMeant, ssOld, ssNew>>
  BY DEF Seals!ScriptFails, Seals!environment
<1>3. Seals!TypeOK' BY <1>1, <1>2, CellFacts DEF Seals!TypeOK
<1>4. SealsFresh' /\ Rotating' BY <1>1, <1>2 DEF SealsFresh, Rotating
<1>5. Readable' BY <1>1, <1>2 DEF Readable, KeyInForce, Seals!Opens
<1> QED BY <1>3, <1>4, <1>5 DEF SealInv

\* Every step keeps the invariant.
LEMMA SealStepHolds ==
  ASSUME Seals!SealAssumption, SealInv, [Seals!Next]_(Seals!vars)
  PROVE  SealInv'
<1>1. CASE UNCHANGED Seals!vars
  BY <1>1
  DEF Seals!vars, Seals!environment, Seals!columns, Seals!rotation, SealInv, Seals!TypeOK,
      SealsFresh, Readable,
              KeyInForce, Seals!Opens, Rotating
<1> QED
  BY <1>1, ApplicationKeeps, StartKeeps, ReadingKeeps, ApplyKeeps, FailureKeeps DEF Seals!Next


\* What the invariant is for.
LEMMA SealSafe == SealInv => Seals!TypeOK /\ Seals!SecretsStayReadable
BY DEF SealInv, Readable, Rotating, KeyInForce, Seals!SecretsStayReadable

-----------------------------------------------------------------------------
(* Runs of migrate-database (Migrations).  A run that goes on has read     *)
(* what the old column holds, and the new table has it before the column   *)
(* goes.                                                                   *)

\* A value for each account.
Columns == [Accounts -> Values \cup {Nobody}]

\* An account without a secret has none in the buffer either.
NothingLeftOver == \A a \in Accounts : miLegacy[a] = Nobody => miBuffer[a] = Nobody

\* A run that copies has copied what it no longer holds; one that is past the copies
\* has copied everything.
Copied ==
  \A c \in Handlers :
    /\ miStep[c] = "copy" => \A a \in Accounts :
         miFound[c][a] = miLegacy[a] \/ (miFound[c][a] = Nobody /\ miBuffer[a] = miLegacy[a])
    /\ miStep[c] \in {"baseline", "migrate"} => miBuffer = miLegacy

\* A run that found no table finds none, or all of them.
FoundNone == \A c \in Handlers : miStep[c] = "empty" => miTables \in {"none", "new"}

\* The old column is copied until it goes, and empty before it is there.
MigrationInv ==
  /\ Moved!TypeOK /\ miFound \in [Handlers -> Columns]
  /\ miTables = "none" => miLegacy = Moved!None /\ miAccounts = {}
  /\ FoundNone
  /\ miTables # "new" => NothingLeftOver /\ Copied

\* A column without values.
LEMMA NoneFacts == Moved!None \in Columns /\ \A a \in Accounts : Moved!None[a] = Nobody
BY DEF Moved!None, Columns

\* Types, variable by variable.
LEMMA MigrationTypes ==
  ASSUME MigrationInv
  PROVE  /\ miLegacy \in Columns /\ miBuffer \in Columns /\ miFactors \in Columns
         /\ miFound \in [Handlers -> Columns] /\ \A c \in Handlers : miFound[c] \in Columns
         /\ miStep \in [Handlers -> Moved!Ended \cup {"empty", "create", "read", "copy", "baseline", "migrate"}]
         /\ miTables \in {"none", "partial", "old", "new"} /\ miJournal \in BOOLEAN /\ miMade \in BOOLEAN
         /\ miAccounts \subseteq Accounts
BY DEF MigrationInv, Moved!TypeOK, Columns

\* The same, the other way round.
LEMMA TypesOfMigration ==
  ASSUME miLegacy' \in Columns, miBuffer' \in Columns, miFactors' \in Columns,
         miFound' \in [Handlers -> Columns],
         miStep' \in [Handlers -> Moved!Ended \cup {"empty", "create", "read", "copy", "baseline", "migrate"}],
         miTables' \in {"none", "partial", "old", "new"}, miJournal' \in BOOLEAN, miMade' \in BOOLEAN,
         miAccounts' \subseteq Accounts
  PROVE  Moved!TypeOK'
BY DEF Moved!TypeOK, Columns

LEMMA MigrationInit == Moved!Init => MigrationInv
<1> SUFFICES ASSUME Moved!Init PROVE MigrationInv
  OBVIOUS
<1>1. /\ miLegacy = Moved!None /\ miBuffer = Moved!None /\ miFactors = Moved!None /\ miMade = FALSE
      /\ miStep = [c \in Handlers |-> "idle"] /\ miFound = [c \in Handlers |-> Moved!None]
      /\ miTables \in {"none", "partial", "old"} /\ miJournal \in BOOLEAN
      /\ miAccounts = IF miTables = "none" THEN {} ELSE Accounts
  BY DEF Moved!Init
<1>2. miFound \in [Handlers -> Columns] BY <1>1, NoneFacts
<1>3. Moved!TypeOK BY <1>1, <1>2, NoneFacts DEF Moved!TypeOK, Columns, Moved!Ended
<1>4. NothingLeftOver BY <1>1 DEF NothingLeftOver
<1>5. Copied /\ FoundNone BY <1>1 DEF Copied, FoundNone
<1> QED BY <1>1, <1>2, <1>3, <1>4, <1>5 DEF MigrationInv

\* The application of before changes a secret while no run is under way.
LEMMA SecretChanges ==
  ASSUME MigrationInv, NEW a \in Accounts, NEW v \in Values \cup {Nobody},
         \A c \in Handlers : ~Moved!Under(c), miTables # "none",
         v = Nobody => miBuffer[a] = Nobody,
         miLegacy' = [miLegacy EXCEPT ![a] = v], miAccounts' \subseteq Accounts,
         UNCHANGED <<miTables, miJournal, miFactors, miMade, miBuffer, miStep, miFound>>
  PROVE  MigrationInv'
<1>1. miLegacy' \in Columns BY MigrationTypes DEF Columns
<1>2. Moved!TypeOK' BY <1>1, MigrationTypes, TypesOfMigration
<1>3. ASSUME miTables # "new" PROVE NothingLeftOver' /\ Copied'
  <2>1. NothingLeftOver' BY <1>3, MigrationTypes DEF NothingLeftOver, MigrationInv, Columns
  <2>2. \A c \in Handlers : miStep'[c] \in Moved!Ended BY DEF Moved!Under
  <2>3. Copied' BY <2>2 DEF Copied, Moved!Ended
  <2> QED BY <2>1, <2>3
<1> QED BY <1>2, <1>3, MigrationTypes DEF MigrationInv, FoundNone

\* A run goes on, or ends, without a row being written.
LEMMA RunGoesOn ==
  ASSUME MigrationInv, NEW c \in Handlers,
         NEW s \in Moved!Ended \cup {"empty", "create", "read", "copy", "baseline", "migrate"},
         NEW held \in Columns,
         Moved!Goto(c, s), miFound' = [miFound EXCEPT ![c] = held],
         miMade' \in BOOLEAN, miJournal' \in BOOLEAN,
         UNCHANGED <<miTables, miAccounts, miLegacy, miFactors, miBuffer>>,
         s = "empty" => miTables \in {"none", "new"},
         miTables # "new" => /\ s = "copy" => \A a \in Accounts :
                                  held[a] = miLegacy[a] \/ (held[a] = Nobody /\ miBuffer[a] = miLegacy[a])
                             /\ s \in {"baseline", "migrate"} => miBuffer = miLegacy
  PROVE  MigrationInv'
<1>1. miStep' = [miStep EXCEPT ![c] = s] BY DEF Moved!Goto
<1>2. miStep' \in [Handlers -> Moved!Ended \cup {"empty", "create", "read", "copy", "baseline", "migrate"}]
      /\ miFound' \in [Handlers -> Columns]
  BY <1>1, MigrationTypes
<1>3. Moved!TypeOK' BY <1>2, MigrationTypes, TypesOfMigration
<1>4. ASSUME miTables # "new" PROVE Copied'
  <2>1. Copied BY <1>4 DEF MigrationInv
  <2>2. ASSUME NEW d \in Handlers
        PROVE  /\ miStep'[d] = "copy" => \A a \in Accounts :
                    miFound'[d][a] = miLegacy[a] \/ (miFound'[d][a] = Nobody /\ miBuffer[a] = miLegacy[a])
               /\ miStep'[d] \in {"baseline", "migrate"} => miBuffer = miLegacy
    <3>1. CASE d = c
      <4>1. miStep'[d] = s /\ miFound'[d] = held BY <1>1, <3>1, MigrationTypes
      <4> QED BY <4>1, <1>4
    <3>2. CASE d # c
      <4>1. miStep'[d] = miStep[d] /\ miFound'[d] = miFound[d] BY <1>1, <3>2, MigrationTypes
      <4> QED BY <4>1, <2>1 DEF Copied
    <3> QED BY <3>1, <3>2
  <2> QED BY <2>2 DEF Copied
<1>5. miTables # "new" => NothingLeftOver' BY DEF MigrationInv, NothingLeftOver
<1>6. FoundNone' BY <1>1, MigrationTypes DEF MigrationInv, FoundNone
<1> QED BY <1>2, <1>3, <1>4, <1>5, <1>6 DEF MigrationInv, NothingLeftOver

\* What a run reads and copies.
LEMMA CopyMigrates ==
  ASSUME MigrationInv, NEW c \in Handlers, NEW a \in Accounts, Moved!CopySecret(c, a)
  PROVE  MigrationInv'
<1>1. miStep[c] = "copy" /\ miFound[c][a] # Nobody BY DEF Moved!CopySecret
<1>2. UNCHANGED <<miTables, miJournal, miAccounts, miLegacy, miFactors, miMade>>
  BY DEF Moved!CopySecret, Moved!database
<1>3. miFound = [miFound EXCEPT ![c] = miFound[c]] BY MigrationTypes
<1>4. CASE ~miMade
  <2>1. Moved!Goto(c, "failed") /\ miFound' = [miFound EXCEPT ![c] = Moved!None] /\ miBuffer' = miBuffer
    BY <1>4 DEF Moved!CopySecret
  <2>2. "failed" \in Moved!Ended BY DEF Moved!Ended
  <2> QED BY <1>2, <2>1, <2>2, NoneFacts, MigrationTypes, RunGoesOn
<1>5. CASE miMade
  <2>1. /\ miBuffer' = [miBuffer EXCEPT ![a] = miFound[c][a]]
        /\ miFound' = [miFound EXCEPT ![c][a] = Nobody]
        /\ Moved!Goto(c, IF miFound'[c] = Moved!None THEN "baseline" ELSE "copy")
    BY <1>5 DEF Moved!CopySecret
  <2> DEFINE held == [miFound[c] EXCEPT ![a] = Nobody]
             s == IF miFound'[c] = Moved!None THEN "baseline" ELSE "copy"
  <2>2. miFound' = [miFound EXCEPT ![c] = held] BY <2>1, MigrationTypes
  <2>3. held \in Columns /\ miFound[c][a] \in Values \cup {Nobody}
        /\ \A b \in Accounts : held[b] = IF b = a THEN Nobody ELSE miFound[c][b]
    BY MigrationTypes DEF Columns
  <2> HIDE DEF held
  <2>4. miFound'[c] = held /\ \A d \in Handlers : d # c => miFound'[d] = miFound[d]
    BY <2>2, MigrationTypes
  <2>5. miStep'[c] = s /\ \A d \in Handlers : d # c => miStep'[d] = miStep[d]
    BY <2>1, MigrationTypes DEF Moved!Goto
  <2>6. s \in {"baseline", "copy"} OBVIOUS
  <2>7. miStep' = [miStep EXCEPT ![c] = s] BY <2>1 DEF Moved!Goto
  <2>8. miBuffer' \in Columns /\ miFound' \in [Handlers -> Columns]
        /\ \A b \in Accounts : miBuffer'[b] = IF b = a THEN miFound[c][a] ELSE miBuffer[b]
    BY <2>1, <2>2, <2>3, MigrationTypes DEF Columns
  <2>9. miStep' \in [Handlers -> Moved!Ended \cup {"empty", "create", "read", "copy", "baseline", "migrate"}]
    BY <2>6, <2>7, MigrationTypes
  <2> HIDE DEF s
  <2>10. Moved!TypeOK' BY <1>2, <2>8, <2>9, MigrationTypes, TypesOfMigration
  <2>11. ASSUME miTables # "new" PROVE NothingLeftOver' /\ Copied'
    <3>1. NothingLeftOver /\ Copied BY <2>11 DEF MigrationInv
    <3>2. miFound[c][a] = miLegacy[a] BY <1>1, <3>1 DEF Copied
    <3>3. NothingLeftOver' BY <1>1, <1>2, <2>8, <3>1, <3>2 DEF NothingLeftOver
    <3>4. \A b \in Accounts : miBuffer[b] = miLegacy[b] => miBuffer'[b] = miLegacy[b]
      BY <2>8, <3>2
    <3>5. miBuffer = miLegacy => miBuffer' = miLegacy BY <3>4, <2>8, MigrationTypes DEF Columns
    <3>6. \A b \in Accounts :
             miFound'[c][b] = miLegacy[b] \/ (miFound'[c][b] = Nobody /\ miBuffer'[b] = miLegacy[b])
      <4> SUFFICES ASSUME NEW b \in Accounts
                   PROVE  held[b] = miLegacy[b] \/ (held[b] = Nobody /\ miBuffer'[b] = miLegacy[b])
        BY <2>4
      <4>1. CASE b = a BY <4>1, <2>3, <2>8, <3>2
      <4>2. CASE b # a
        <5>1. miFound[c][b] = miLegacy[b] \/ (miFound[c][b] = Nobody /\ miBuffer[b] = miLegacy[b])
          BY <1>1, <3>1 DEF Copied
        <5> QED BY <4>2, <5>1, <2>3, <3>4
      <4> QED BY <4>1, <4>2
    <3>7. ASSUME s = "baseline" PROVE miBuffer' = miLegacy
      <4>1. miFound'[c] = Moved!None BY <3>7 DEF s
      <4>2. ASSUME NEW b \in Accounts PROVE miBuffer'[b] = miLegacy[b]
        <5>1. miFound'[c][b] = Nobody BY <4>1, NoneFacts
        <5> QED BY <5>1, <3>6, <3>3, <1>2 DEF NothingLeftOver
      <4> QED BY <4>2, <2>8, MigrationTypes DEF Columns
    <3>8. ASSUME NEW d \in Handlers
          PROVE  /\ miStep'[d] = "copy" => \A b \in Accounts :
                      miFound'[d][b] = miLegacy[b] \/ (miFound'[d][b] = Nobody /\ miBuffer'[b] = miLegacy[b])
                 /\ miStep'[d] \in {"baseline", "migrate"} => miBuffer' = miLegacy
      <4>1. CASE d = c BY <4>1, <2>5, <2>6, <3>6, <3>7
      <4>2. CASE d # c
        <5>1. miStep'[d] = miStep[d] /\ miFound'[d] = miFound[d] BY <4>2, <2>4, <2>5
        <5>2. miStep[d] = "copy" => \A b \in Accounts :
                 miFound[d][b] = miLegacy[b] \/ (miFound[d][b] = Nobody /\ miBuffer'[b] = miLegacy[b])
          BY <3>1, <3>4 DEF Copied
        <5>3. miStep[d] \in {"baseline", "migrate"} => miBuffer' = miLegacy
          BY <3>1, <3>5 DEF Copied
        <5> QED BY <5>1, <5>2, <5>3
      <4> QED BY <4>1, <4>2
    <3>9. Copied' BY <3>8, <1>2 DEF Copied
    <3> QED BY <3>3, <3>9
  <2>12. FoundNone' BY <1>2, <2>5, <2>6 DEF MigrationInv, FoundNone
  <2> QED BY <1>2, <2>8, <2>10, <2>11, <2>12 DEF MigrationInv, Moved!None
<1> QED BY <1>4, <1>5, MigrationTypes

\* Every step keeps the invariant.
LEMMA MigrationStepHolds == ASSUME MigrationInv, [Moved!Next]_(Moved!vars) PROVE MigrationInv'
<1>1. ASSUME NEW c \in Handlers
  PROVE miFound = [miFound EXCEPT ![c] = miFound[c]] /\ miFound[c] \in Columns
  BY MigrationTypes
<1>2. ASSUME NEW a \in Accounts, Moved!Remove(a) PROVE MigrationInv'
  <2>1. /\ \A c \in Handlers : ~Moved!Under(c)
        /\ miTables \in {"old", "partial"} /\ miBuffer[a] = Nobody
        /\ miLegacy' = [miLegacy EXCEPT ![a] = Nobody] /\ miAccounts' \subseteq miAccounts
        /\ UNCHANGED <<miTables, miJournal, miFactors, miMade, miBuffer, miStep, miFound>>
    BY <1>2 DEF Moved!Remove, Moved!MayWrite
  <2>2. miAccounts' \subseteq Accounts BY <2>1, MigrationTypes
  <2> QED BY <2>1, <2>2, SecretChanges
<1>3. ASSUME NEW a \in Accounts, NEW v \in Values \cup {Nobody}, Moved!Enrol(a, v)
  PROVE MigrationInv'
  <2>1. /\ \A c \in Handlers : ~Moved!Under(c)
        /\ miTables \in {"old", "partial"} /\ (v = Nobody => miBuffer[a] = Nobody)
        /\ miLegacy' = [miLegacy EXCEPT ![a] = v] /\ miAccounts' = miAccounts
        /\ UNCHANGED <<miTables, miJournal, miFactors, miMade, miBuffer, miStep, miFound>>
    BY <1>3 DEF Moved!Enrol, Moved!MayWrite
  <2>2. miAccounts' \subseteq Accounts BY <2>1, MigrationTypes
  <2> QED BY <2>1, <2>2, SecretChanges
<1>4. CASE Moved!Repair
  <2>1. miTables = "partial" /\ miTables' = "old"
        /\ UNCHANGED <<miJournal, miAccounts, miLegacy, miFactors, miMade, miBuffer, miStep, miFound>>
    BY <1>4 DEF Moved!Repair
  <2>2. Moved!TypeOK' BY <2>1, MigrationTypes, TypesOfMigration
  <2>3. NothingLeftOver' /\ Copied' BY <2>1 DEF MigrationInv, NothingLeftOver, Copied
  <2>4. FoundNone' BY <2>1 DEF MigrationInv, FoundNone
  <2> QED BY <2>1, <2>2, <2>3, <2>4, MigrationTypes DEF MigrationInv
<1>5. ASSUME NEW c \in Handlers, Moved!Look(c) PROVE MigrationInv'
  <2> DEFINE s == CASE miTables = "new" -> "baseline" [] miTables = "none" -> "empty" [] OTHER -> "create"
  <2>1. Moved!Goto(c, s) /\ UNCHANGED <<Moved!database, miMade, miBuffer, miFound>>
    BY <1>5 DEF Moved!Look
  <2>2. s \in {"baseline", "empty", "create"} /\ (miTables # "new" => s # "baseline")
        /\ (s = "empty" => miTables = "none")
    OBVIOUS
  <2> HIDE DEF s
  <2> QED BY <1>1, <2>1, <2>2, MigrationTypes, RunGoesOn DEF Moved!database
<1>6. ASSUME NEW c \in Handlers, Moved!CreateBuffer(c) PROVE MigrationInv'
  <2> DEFINE s == IF miStep[c] = "empty" THEN "baseline" ELSE "read"
  <2>1. Moved!Goto(c, s) /\ miMade' = TRUE /\ UNCHANGED <<Moved!database, miBuffer, miFound>>
    BY <1>6 DEF Moved!CreateBuffer
  <2>2. s \in {"baseline", "read"} /\ (s = "baseline" => miStep[c] = "empty") OBVIOUS
  <2> HIDE DEF s
  <2>3. CASE s = "read" BY <1>1, <2>1, <2>3, MigrationTypes, RunGoesOn DEF Moved!database
  <2>4. CASE s = "baseline"
    <3>1. miTables \in {"none", "new"} BY <2>2, <2>4 DEF MigrationInv, FoundNone
    <3>2. ASSUME miTables # "new" PROVE miBuffer = miLegacy
      <4>1. \A a \in Accounts : miLegacy[a] = Nobody /\ miBuffer[a] = Nobody
        BY <3>1, <3>2, NoneFacts DEF MigrationInv, NothingLeftOver
      <4> QED BY <4>1, MigrationTypes DEF Columns
    <3> QED BY <1>1, <2>1, <2>4, <3>2, MigrationTypes, RunGoesOn DEF Moved!database
  <2> QED BY <2>2, <2>3, <2>4
<1>7. ASSUME NEW c \in Handlers, Moved!ReadLegacy(c) PROVE MigrationInv'
  <2>1. UNCHANGED <<Moved!database, miMade, miBuffer>> BY <1>7 DEF Moved!ReadLegacy
  <2>2. CASE Moved!Goto(c, "failed") /\ miFound' = miFound
    BY <1>1, <2>1, <2>2, MigrationTypes, RunGoesOn DEF Moved!database, Moved!Ended
  <2>3. CASE /\ miTables # "new" /\ miFound' = [miFound EXCEPT ![c] = miLegacy]
             /\ Moved!Goto(c, IF miLegacy = Moved!None THEN "baseline" ELSE "copy")
    <3>1. ASSUME miLegacy = Moved!None PROVE miBuffer = miLegacy
      <4>1. \A a \in Accounts : miLegacy[a] = Nobody /\ miBuffer[a] = Nobody
        BY <2>3, <3>1, NoneFacts DEF MigrationInv, NothingLeftOver
      <4> QED BY <4>1, MigrationTypes DEF Columns
    <3>2. CASE miLegacy = Moved!None
      <4>1. Moved!Goto(c, "baseline") BY <2>3, <3>2
      <4> QED BY <4>1, <2>1, <2>3, <3>1, <3>2, MigrationTypes, RunGoesOn DEF Moved!database
    <3>3. CASE miLegacy # Moved!None
      <4>1. Moved!Goto(c, "copy") BY <2>3, <3>3
      <4> QED BY <4>1, <2>1, <2>3, MigrationTypes, RunGoesOn DEF Moved!database
    <3> QED BY <3>2, <3>3
  <2> QED BY <1>7, <2>2, <2>3 DEF Moved!ReadLegacy
<1>8. ASSUME NEW c \in Handlers, Moved!Baseline(c) PROVE MigrationInv'
  <2>1. miStep[c] = "baseline" /\ UNCHANGED <<miTables, miAccounts, miLegacy, miFactors, miMade, miBuffer, miFound>>
    BY <1>8 DEF Moved!Baseline
  <2>2. miTables # "new" => miBuffer = miLegacy BY <2>1 DEF MigrationInv, Copied
  <2>3. \E s \in {"failed", "done", "migrate"} : Moved!Goto(c, s) /\ miJournal' \in BOOLEAN
    BY <1>8, MigrationTypes DEF Moved!Baseline
  <2>4. PICK s \in {"failed", "done", "migrate"} : Moved!Goto(c, s) /\ miJournal' \in BOOLEAN
    BY <2>3
  <2> QED BY <1>1, <2>1, <2>2, <2>4, MigrationTypes, RunGoesOn DEF Moved!Ended
<1>9. ASSUME NEW c \in Handlers, Moved!Migrate(c) PROVE MigrationInv'
  <2>1. /\ miTables' = "new" /\ miJournal' = TRUE /\ miFactors' = miBuffer
        /\ miLegacy' = Moved!None /\ miMade' = FALSE /\ miBuffer' = Moved!None
        /\ Moved!Goto(c, "done") /\ UNCHANGED <<miAccounts, miFound>>
    BY <1>9 DEF Moved!Migrate
  <2>2. miStep' \in [Handlers -> Moved!Ended \cup {"empty", "create", "read", "copy", "baseline", "migrate"}]
    BY <2>1, MigrationTypes DEF Moved!Goto, Moved!Ended
  <2>3. Moved!TypeOK' BY <2>1, <2>2, NoneFacts, MigrationTypes, TypesOfMigration
  <2> QED BY <2>1, <2>3, MigrationTypes DEF MigrationInv, FoundNone
<1>10. ASSUME NEW c \in Handlers, Moved!RunFails(c) PROVE MigrationInv'
  BY <1>10, NoneFacts, MigrationTypes, RunGoesOn DEF Moved!RunFails, Moved!database, Moved!Ended
<1>11. CASE UNCHANGED Moved!vars
  BY <1>11
  DEF Moved!vars, Moved!database, MigrationInv, Moved!TypeOK, NothingLeftOver, Copied, FoundNone
<1> QED
  BY <1>2, <1>3, <1>4, <1>5, <1>6, <1>7, <1>8, <1>9, <1>10, <1>11, CopyMigrates
  DEF Moved!Next, Moved!RunStep

\* What the invariant is for.
LEMMA MigrationSafe == ASSUME MigrationInv PROVE Moved!SecretsMoved
BY DEF MigrationInv, Copied, Moved!SecretsMoved, Moved!Applicable

-----------------------------------------------------------------------------
(* Runs of db:seed (Seeds), one at a time, each of which may stop          *)
(* anywhere.  A run is past a kind of rows only when all of that kind are  *)
(* there.                                                                  *)

\* Where a run is.
RunSteps == Seeded!Ended \cup {"look", "insert", "factor", "message"}

\* One run at a time, and none in a production.
Alone ==
  /\ \A c, d \in Handlers : Seeded!Under(c) /\ Seeded!Under(d) => c = d
  /\ sdMode = "production" => (\A c \in Handlers : ~Seeded!Under(c)) /\ sdUsers = {} /\ sdRows = {} /\ sdNotes = <<>>

\* What a run has come to is there, but for what it is about to insert.
Come(c) == {x \in Seeded!Emails \cup Seeded!References : x \notin sdTodo[c] /\ (sdStep[c] = "insert" => x # sdAt[c])}

\* What a run is past is there.
Filled ==
  \A c \in Handlers : Seeded!Under(c) =>
    /\ Come(c) \cap Seeded!Emails \subseteq sdUsers /\ Come(c) \cap Seeded!References \subseteq sdRows
    /\ sdStep[c] = "factor" => sdAt[c] \in Operators
    /\ sdStep[c] = "message" => sdTodo[c] = {}

\* A note is about a row of its run, made when all rows are there and not made again.
Noted ==
  /\ \A c \in Handlers : sdCreated[c] \subseteq sdRows
  /\ \A i \in DOMAIN sdNotes : sdNotes[i] \in sdRows
  /\ (\E i \in DOMAIN sdNotes : sdNotes[i] \in Requests) =>
       /\ Seeded!References \subseteq sdRows
       /\ \A c \in Handlers : Seeded!Under(c) => sdStep[c] = "message" \/ sdCreated[c] \cap Requests = {}
  /\ (\E i \in DOMAIN sdNotes : sdNotes[i] \in Messages) =>
       /\ Seeded!References \subseteq sdRows
       /\ \A c \in Handlers : Seeded!Under(c) => sdCreated[c] \cap Messages = {}

\* An operator without a factor is one whose run is about to insert it, or died.
Enrolled ==
  \A u \in sdUsers \cap Operators :
    u \in sdFactors \cup sdTorn \/ \E c \in Handlers : sdStep[c] = "factor" /\ sdAt[c] = u

\* Together, inductive.
SeedInv == Seeded!TypeOK /\ Alone /\ Filled /\ Noted /\ Enrolled /\ Seeded!NotedOnce /\ Seeded!SeedIsWhole

LEMMA SeedInit == Seeded!Init => SeedInv
<1> SUFFICES ASSUME Seeded!Init PROVE SeedInv
  OBVIOUS
<1>1. /\ sdUsers = {} /\ sdFactors = {} /\ sdRows = {} /\ sdNotes = <<>> /\ sdTorn = {}
      /\ sdMode \in {"development", "production"}
      /\ \A c \in Handlers : sdStep[c] = "idle" /\ sdCreated[c] = {}
  BY DEF Seeded!Init
<1>2. Seeded!TypeOK BY <1>1 DEF Seeded!Init, Seeded!TypeOK, Seeded!Ended
<1>3. \A c \in Handlers : ~Seeded!Under(c) BY <1>1 DEF Seeded!Under, Seeded!Ended
<1>4. DOMAIN sdNotes = {} BY <1>1
<1>5. Alone /\ Filled BY <1>1, <1>3 DEF Alone, Filled
<1>6. Noted /\ Enrolled /\ Seeded!NotedOnce BY <1>1, <1>4 DEF Noted, Enrolled, Seeded!NotedOnce
<1>7. Seeded!SeedIsWhole BY <1>1 DEF Seeded!SeedIsWhole
<1> QED BY <1>2, <1>5, <1>6, <1>7 DEF SeedInv

\* Types, variable by variable.
LEMMA SeedTypes ==
  ASSUME SeedInv
  PROVE  /\ sdStep \in [Handlers -> RunSteps] /\ sdUsers \subseteq Seeded!Emails /\ sdFactors \subseteq Operators
         /\ sdTorn \subseteq Operators /\ sdRows \subseteq Seeded!References /\ sdNotes \in Seq(Seeded!References)
         /\ sdAt \in [Handlers -> Seeded!Emails \cup Seeded!References \cup {Seeded!Nothing}]
         /\ sdTodo \in [Handlers -> SUBSET (Seeded!Emails \cup Seeded!References)]
         /\ sdCreated \in [Handlers -> SUBSET Seeded!References]
         /\ sdMode \in {"development", "production"}
BY DEF SeedInv, Seeded!TypeOK, RunSteps

\* A run that goes on leaves the others where they are.
LEMMA StepOf ==
  ASSUME SeedInv, NEW c \in Handlers, NEW s, Seeded!Goto(c, s)
  PROVE  sdStep'[c] = s /\ \A d \in Handlers : d # c => sdStep'[d] = sdStep[d]
BY SeedTypes DEF Seeded!Goto

\* The next thing to do is one of those left.
LEMMA FollowingFacts == ASSUME NEW c PROVE Seeded!Following(c) \subseteq sdTodo[c]
BY Zenon DEF Seeded!Following

LEMMA RunSeeds ==
  ASSUME SeedInv, NEW c \in Handlers, Seeded!Run(c) PROVE SeedInv'
<1>1. \A d \in Handlers : ~Seeded!Under(d) BY DEF Seeded!Run
<1>2. UNCHANGED <<sdMode, Seeded!database, sdAt, sdTorn>> BY DEF Seeded!Run
<1>3. UNCHANGED <<sdMode, sdUsers, sdFactors, sdRows, sdNotes, sdAt, sdTorn>>
  BY <1>2 DEF Seeded!database
<1>4. PICK s \in {"failed", "look"} :
        /\ Seeded!Goto(c, s)
        /\ s = "look" => /\ sdMode # "production"
                         /\ sdTodo' = [sdTodo EXCEPT ![c] = Seeded!Emails \cup Seeded!References]
                         /\ sdCreated' = [sdCreated EXCEPT ![c] = {}]
        /\ s = "failed" => UNCHANGED <<sdTodo, sdCreated>>
  BY DEF Seeded!Run
<1>5. sdStep'[c] = s /\ \A d \in Handlers : d # c => sdStep'[d] = sdStep[d] BY <1>4, StepOf
<1>6. \A d \in Handlers : d # c => ~Seeded!Under(d)' BY <1>1, <1>5 DEF Seeded!Under
<1>7. s = "failed" => ~Seeded!Under(c)' BY <1>5 DEF Seeded!Under, Seeded!Ended
<1>8. Seeded!TypeOK'
  <2>1. sdStep' \in [Handlers -> RunSteps]
    BY <1>4, SeedTypes DEF Seeded!Goto, RunSteps, Seeded!Ended
  <2>2. sdTodo' \in [Handlers -> SUBSET (Seeded!Emails \cup Seeded!References)]
    BY <1>4, SeedTypes
  <2>3. sdCreated' \in [Handlers -> SUBSET Seeded!References] BY <1>4, SeedTypes
  <2> QED BY <1>3, <2>1, <2>2, <2>3, SeedTypes DEF Seeded!TypeOK, RunSteps
<1>9. Alone' BY <1>3, <1>4, <1>6, <1>7 DEF SeedInv, Alone
<1>10. Filled'
  <2> SUFFICES ASSUME s = "look"
               PROVE  Come(c)' = {} /\ sdStep'[c] = "look"
    BY <1>4, <1>5, <1>6, <1>7 DEF Filled
  <2>1. sdTodo'[c] = Seeded!Emails \cup Seeded!References BY <1>4, SeedTypes
  <2>2. Seeded!Emails' = Seeded!Emails /\ Seeded!References' = Seeded!References
    BY DEF Seeded!Emails, Seeded!References
  <2> QED BY <2>1, <2>2, <1>5 DEF Come
<1>11. Noted'
  <2>1. \A d \in Handlers : sdCreated'[d] = sdCreated[d] \/ sdCreated'[d] = {} BY <1>4, SeedTypes
  <2>2. Seeded!Under(c)' => sdCreated'[c] = {} BY <1>4, <1>7, SeedTypes
  <2> QED BY <1>3, <1>6, <2>1, <2>2 DEF SeedInv, Noted, Seeded!References
<1>12. Enrolled'
  <2>1. \A d \in Handlers : sdStep[d] # "factor" BY <1>1 DEF Seeded!Under, Seeded!Ended
  <2> QED BY <1>3, <2>1 DEF SeedInv, Enrolled
<1>13. Seeded!NotedOnce' BY <1>3 DEF SeedInv, Seeded!NotedOnce
<1>14. Seeded!SeedIsWhole'
  <2>1. (\E d \in Handlers : sdStep'[d] = "done") => \E d \in Handlers : sdStep[d] = "done"
    BY <1>4, <1>5
  <2> QED BY <1>3, <2>1 DEF SeedInv, Seeded!SeedIsWhole, Seeded!Emails, Seeded!References
<1> QED BY <1>8, <1>9, <1>10, <1>11, <1>12, <1>13, <1>14 DEF SeedInv

\* What a step of the run under way leaves alone.
LEMMA RunAlone ==
  ASSUME SeedInv, NEW c \in Handlers, Seeded!Under(c)
  PROVE  sdMode # "production" /\ \A d \in Handlers : d # c => ~Seeded!Under(d)
BY DEF SeedInv, Alone

\* A step of a run that inserts nothing and notes nothing.
LEMMA SeededRunGoesOn ==
  ASSUME SeedInv, NEW c \in Handlers, Seeded!Under(c),
         NEW s \in RunSteps \ {"done"}, Seeded!Goto(c, s),
         sdAt' \in [Handlers -> Seeded!Emails \cup Seeded!References \cup {Seeded!Nothing}],
         sdTodo' \in [Handlers -> SUBSET (Seeded!Emails \cup Seeded!References)],
         UNCHANGED <<sdMode, sdUsers, sdFactors, sdRows, sdNotes, sdCreated>>,
         sdTorn \subseteq sdTorn', sdTorn' \subseteq Operators,
         s \notin Seeded!Ended => /\ Come(c)' \cap Seeded!Emails \subseteq sdUsers
                                  /\ Come(c)' \cap Seeded!References \subseteq sdRows
                                  /\ s = "factor" => sdAt'[c] \in Operators
                                  /\ s = "message" => sdTodo'[c] = {},
         sdStep[c] = "message" => s \in Seeded!Ended,
         sdStep[c] = "factor" => sdAt[c] \in sdTorn'
  PROVE  SeedInv'
<1>1. sdStep'[c] = s /\ \A d \in Handlers : d # c => sdStep'[d] = sdStep[d] BY StepOf
<1>2. \A d \in Handlers : d # c => ~Seeded!Under(d)' BY <1>1, RunAlone DEF Seeded!Under
<1>3. sdStep' \in [Handlers -> RunSteps] BY SeedTypes DEF Seeded!Goto
<1>4. Seeded!TypeOK' BY <1>3, SeedTypes DEF Seeded!TypeOK, RunSteps
<1>5. Alone' BY <1>2, RunAlone DEF Alone
<1>6. Filled'
  <2>1. Seeded!Under(c)' => s \notin Seeded!Ended BY <1>1 DEF Seeded!Under
  <2>2. Seeded!Emails' = Seeded!Emails /\ Seeded!References' = Seeded!References
    BY DEF Seeded!Emails, Seeded!References
  <2> QED BY <1>1, <1>2, <2>1, <2>2 DEF Filled
<1>7. Noted'
  <2>1. Seeded!Under(c)' => s \notin Seeded!Ended /\ sdStep[c] # "message"
    BY <1>1 DEF Seeded!Under
  <2> QED BY <1>2, <2>1 DEF SeedInv, Noted, Seeded!References
<1>8. Enrolled'
  <2> SUFFICES ASSUME NEW u \in sdUsers \cap Operators
               PROVE  u \in sdFactors \cup sdTorn' \/ \E d \in Handlers : sdStep'[d] = "factor" /\ sdAt'[d] = u
    BY DEF Enrolled
  <2>1. CASE u \in sdFactors \cup sdTorn BY <2>1
  <2>2. ASSUME NEW d \in Handlers, sdStep[d] = "factor", sdAt[d] = u PROVE u \in sdTorn'
    <3>1. d = c BY <2>2, RunAlone DEF Seeded!Under, Seeded!Ended
    <3> QED BY <2>2, <3>1
  <2> QED BY <2>1, <2>2 DEF SeedInv, Enrolled
<1>9. Seeded!NotedOnce' BY DEF SeedInv, Seeded!NotedOnce, Noted
<1>10. Seeded!SeedIsWhole'
  <2>1. (\E d \in Handlers : sdStep'[d] = "done") => \E d \in Handlers : sdStep[d] = "done"
    BY <1>1
  <2> QED BY <2>1 DEF SeedInv, Seeded!SeedIsWhole, Seeded!Emails, Seeded!References
<1> QED BY <1>4, <1>5, <1>6, <1>7, <1>8, <1>9, <1>10 DEF SeedInv

LEMMA UnderFacts ==
  ASSUME NEW c
  PROVE  sdStep[c] \in {"look", "insert", "factor", "message"} => Seeded!Under(c)
BY DEF Seeded!Under, Seeded!Ended

LEMMA LookSeeds ==
  ASSUME Seeded!SeedAssumption, SeedInv, NEW c \in Handlers, Seeded!Look(c) PROVE SeedInv'
<1>1. sdStep[c] = "look" /\ Seeded!Under(c) /\ UNCHANGED <<sdMode, sdUsers, sdFactors, sdRows, sdNotes, sdCreated, sdTorn>>
  BY UnderFacts DEF Seeded!Look, Seeded!database
<1>2. PICK x \in Seeded!Following(c) :
        /\ sdTodo' = [sdTodo EXCEPT ![c] = @ \ {x}]
        /\ IF x \in Seeded!Unknown THEN Seeded!Goto(c, "insert") /\ sdAt' = [sdAt EXCEPT ![c] = x]
           ELSE UNCHANGED <<sdStep, sdAt>>
  BY DEF Seeded!Look
<1>3. x \in sdTodo[c] /\ x \in Seeded!Emails \cup Seeded!References
  BY <1>2, FollowingFacts, SeedTypes
<1>4. PICK s \in {"insert", "look"} :
        /\ Seeded!Goto(c, s) /\ sdAt' = [sdAt EXCEPT ![c] = IF s = "insert" THEN x ELSE sdAt[c]]
        /\ s = "look" => x \in sdUsers \cup sdRows
  <2>1. CASE x \in Seeded!Unknown BY <1>2, <2>1
  <2>2. CASE x \notin Seeded!Unknown
    <3>1. sdStep' = [sdStep EXCEPT ![c] = "look"] BY <1>1, <1>2, <2>2, SeedTypes
    <3>2. sdAt' = [sdAt EXCEPT ![c] = sdAt[c]] BY <1>2, <2>2, SeedTypes
    <3> QED BY <1>3, <2>2, <3>1, <3>2 DEF Seeded!Goto, Seeded!Unknown
  <2> QED BY <2>1, <2>2
<1>5. sdStep'[c] = s BY <1>4, StepOf
<1>6. sdTodo'[c] = sdTodo[c] \ {x} /\ sdTodo' \in [Handlers -> SUBSET (Seeded!Emails \cup Seeded!References)]
  BY <1>2, SeedTypes
<1>7. sdAt' \in [Handlers -> Seeded!Emails \cup Seeded!References \cup {Seeded!Nothing}] /\ (s = "insert" => sdAt'[c] = x)
  BY <1>3, <1>4, SeedTypes
<1>8. \A y \in Come(c)' : y \in Come(c) \/ (y = x /\ s = "look")
  BY <1>1, <1>5, <1>6, <1>7 DEF Come, Seeded!Emails, Seeded!References
<1>9. Come(c) \cap Seeded!Emails \subseteq sdUsers /\ Come(c) \cap Seeded!References \subseteq sdRows
  BY <1>1 DEF SeedInv, Filled
<1>10. /\ x \in Seeded!Emails => x \notin sdRows
       /\ x \in Seeded!References => x \notin sdUsers
  BY <1>3, SeedTypes DEF Seeded!SeedAssumption, Seeded!Emails, Seeded!References
<1>11. Come(c)' \cap Seeded!Emails \subseteq sdUsers /\ Come(c)' \cap Seeded!References \subseteq sdRows
  BY <1>4, <1>8, <1>9, <1>10
<1>12. s \in RunSteps \ {"done"} /\ s # "factor" /\ s # "message" BY DEF RunSteps
<1> QED BY <1>1, <1>4, <1>6, <1>7, <1>11, <1>12, SeedTypes, SeededRunGoesOn

LEMMA FailureSeeds ==
  ASSUME SeedInv, NEW c \in Handlers, Seeded!RunFails(c) PROVE SeedInv'
<1>1. Seeded!Under(c) /\ Seeded!Goto(c, "failed") /\ UNCHANGED <<sdMode, sdUsers, sdFactors, sdRows, sdNotes, sdAt, sdTodo, sdCreated>>
      /\ sdTorn' = IF sdStep[c] = "factor" THEN sdTorn \cup {sdAt[c]} ELSE sdTorn
  BY DEF Seeded!RunFails, Seeded!database
<1>2. sdStep[c] = "factor" => sdAt[c] \in Operators BY <1>1 DEF SeedInv, Filled
<1>3. "failed" \in RunSteps \ {"done"} /\ "failed" \in Seeded!Ended BY DEF RunSteps, Seeded!Ended
<1> QED BY <1>1, <1>2, <1>3, SeedTypes, SeededRunGoesOn

LEMMA InsertUserSeeds ==
  ASSUME Seeded!SeedAssumption, SeedInv, NEW c \in Handlers, Seeded!InsertUser(c) PROVE SeedInv'
<1> DEFINE s == IF sdAt[c] \in Operators THEN "factor" ELSE "look"
<1>1. /\ sdStep[c] = "insert" /\ Seeded!Under(c) /\ sdAt[c] \in Seeded!Emails \ sdUsers
      /\ sdUsers' = sdUsers \cup {sdAt[c]} /\ Seeded!Goto(c, s)
      /\ UNCHANGED <<sdMode, sdFactors, sdRows, sdNotes, sdAt, sdTodo, sdCreated, sdTorn>>
  BY UnderFacts DEF Seeded!InsertUser
<1>2. s \in {"factor", "look"} /\ (s = "factor" <=> sdAt[c] \in Operators) OBVIOUS
<1> HIDE DEF s
<1>3. sdStep'[c] = s /\ \A d \in Handlers : d # c => sdStep'[d] = sdStep[d] BY <1>1, StepOf
<1>4. sdMode # "production" /\ \A d \in Handlers : d # c => ~Seeded!Under(d) BY <1>1, RunAlone
<1>5. \A d \in Handlers : d # c => ~Seeded!Under(d)' BY <1>3, <1>4 DEF Seeded!Under
<1>6. Seeded!Emails' = Seeded!Emails /\ Seeded!References' = Seeded!References
  BY DEF Seeded!Emails, Seeded!References
<1>7. Seeded!TypeOK'
  <2>1. sdStep' \in [Handlers -> RunSteps] BY <1>1, <1>2, SeedTypes DEF Seeded!Goto, RunSteps
  <2> QED BY <1>1, <1>6, <2>1, SeedTypes DEF Seeded!TypeOK, RunSteps
<1>8. Alone' BY <1>1, <1>4, <1>5 DEF Alone
<1>9. Filled'
  <2>1. Come(c)' \subseteq Come(c) \cup {sdAt[c]} BY <1>1, <1>3, <1>6 DEF Come
  <2>2. Come(c) \cap Seeded!Emails \subseteq sdUsers /\ Come(c) \cap Seeded!References \subseteq sdRows
    BY <1>1 DEF SeedInv, Filled
  <2>3. sdAt[c] \notin Seeded!References
    BY <1>1 DEF Seeded!SeedAssumption, Seeded!Emails, Seeded!References
  <2> QED BY <1>1, <1>2, <1>3, <1>5, <1>6, <2>1, <2>2, <2>3 DEF Filled
<1>10. Noted' BY <1>1, <1>5, <1>6 DEF SeedInv, Noted
<1>11. Enrolled'
  <2> SUFFICES ASSUME NEW u \in sdUsers' \cap Operators
               PROVE  u \in sdFactors \cup sdTorn \/ \E d \in Handlers : sdStep'[d] = "factor" /\ sdAt[d] = u
    BY <1>1 DEF Enrolled
  <2>1. CASE u = sdAt[c] BY <1>2, <1>3, <2>1
  <2>2. CASE u # sdAt[c]
    <3>1. u \in sdUsers BY <1>1, <2>2
    <3>2. \A d \in Handlers : sdStep[d] # "factor" BY <1>1, <1>4, UnderFacts
    <3> QED BY <3>1, <3>2 DEF SeedInv, Enrolled
  <2> QED BY <2>1, <2>2
<1>12. Seeded!NotedOnce' BY <1>1 DEF SeedInv, Seeded!NotedOnce
<1>13. Seeded!SeedIsWhole'
  <2>1. (\E d \in Handlers : sdStep'[d] = "done") => \E d \in Handlers : sdStep[d] = "done"
    BY <1>2, <1>3
  <2>2. ~\E d \in Handlers : sdStep[d] = "done" BY <1>1 DEF SeedInv, Seeded!SeedIsWhole
  <2> QED BY <1>1, <1>4, <2>1, <2>2 DEF Seeded!SeedIsWhole
<1> QED BY <1>7, <1>8, <1>9, <1>10, <1>11, <1>12, <1>13 DEF SeedInv

LEMMA InsertFactorSeeds ==
  ASSUME SeedInv, NEW c \in Handlers, Seeded!InsertFactor(c) PROVE SeedInv'
<1>1. /\ sdStep[c] = "factor" /\ Seeded!Under(c) /\ sdFactors' = sdFactors \cup {sdAt[c]} /\ Seeded!Goto(c, "look")
      /\ UNCHANGED <<sdMode, sdUsers, sdRows, sdNotes, sdAt, sdTodo, sdCreated, sdTorn>>
  BY UnderFacts DEF Seeded!InsertFactor
<1>2. sdAt[c] \in Operators BY <1>1 DEF SeedInv, Filled
<1>3. sdStep'[c] = "look" /\ \A d \in Handlers : d # c => sdStep'[d] = sdStep[d] BY <1>1, StepOf
<1>4. sdMode # "production" /\ \A d \in Handlers : d # c => ~Seeded!Under(d) BY <1>1, RunAlone
<1>5. \A d \in Handlers : d # c => ~Seeded!Under(d)' BY <1>3, <1>4 DEF Seeded!Under
<1>6. Seeded!Emails' = Seeded!Emails /\ Seeded!References' = Seeded!References
  BY DEF Seeded!Emails, Seeded!References
<1>7. Seeded!TypeOK'
  <2>1. sdStep' \in [Handlers -> RunSteps] BY <1>1, SeedTypes DEF Seeded!Goto, RunSteps
  <2> QED BY <1>1, <1>2, <1>6, <2>1, SeedTypes DEF Seeded!TypeOK, RunSteps
<1>8. Alone' BY <1>1, <1>4, <1>5 DEF Alone
<1>9. Filled'
  <2>1. Come(c)' \subseteq Come(c) BY <1>1, <1>3, <1>6 DEF Come
  <2>2. Come(c) \cap Seeded!Emails \subseteq sdUsers /\ Come(c) \cap Seeded!References \subseteq sdRows
    BY <1>1 DEF SeedInv, Filled
  <2> QED BY <1>1, <1>3, <1>5, <1>6, <2>1, <2>2 DEF Filled
<1>10. Noted' BY <1>1, <1>5, <1>6 DEF SeedInv, Noted
<1>11. Enrolled'
  <2> SUFFICES ASSUME NEW u \in sdUsers \cap Operators PROVE u \in sdFactors' \cup sdTorn
    BY <1>1 DEF Enrolled
  <2>1. \A d \in Handlers : sdStep[d] = "factor" => d = c BY <1>4, UnderFacts
  <2> QED BY <1>1, <2>1 DEF SeedInv, Enrolled
<1>12. Seeded!NotedOnce' BY <1>1 DEF SeedInv, Seeded!NotedOnce
<1>13. Seeded!SeedIsWhole'
  <2>1. (\E d \in Handlers : sdStep'[d] = "done") => \E d \in Handlers : sdStep[d] = "done"
    BY <1>3
  <2> QED BY <1>1, <1>4, <1>6, <2>1 DEF SeedInv, Seeded!SeedIsWhole
<1> QED BY <1>7, <1>8, <1>9, <1>10, <1>11, <1>12, <1>13 DEF SeedInv

LEMMA InsertRowSeeds ==
  ASSUME Seeded!SeedAssumption, SeedInv, NEW c \in Handlers, Seeded!InsertRow(c) PROVE SeedInv'
<1>1. /\ sdStep[c] = "insert" /\ Seeded!Under(c) /\ sdAt[c] \in Seeded!References \ sdRows
      /\ sdRows' = sdRows \cup {sdAt[c]} /\ sdCreated' = [sdCreated EXCEPT ![c] = @ \cup {sdAt[c]}]
      /\ Seeded!Goto(c, "look") /\ UNCHANGED <<sdMode, sdUsers, sdFactors, sdNotes, sdAt, sdTodo, sdTorn>>
  BY UnderFacts DEF Seeded!InsertRow
<1>2. /\ sdCreated'[c] = sdCreated[c] \cup {sdAt[c]}
      /\ \A d \in Handlers : d # c => sdCreated'[d] = sdCreated[d]
      /\ sdCreated' \in [Handlers -> SUBSET Seeded!References]
  BY <1>1, SeedTypes
<1>3. sdStep'[c] = "look" /\ \A d \in Handlers : d # c => sdStep'[d] = sdStep[d] BY <1>1, StepOf
<1>4. sdMode # "production" /\ \A d \in Handlers : d # c => ~Seeded!Under(d) BY <1>1, RunAlone
<1>5. \A d \in Handlers : d # c => ~Seeded!Under(d)' BY <1>3, <1>4 DEF Seeded!Under
<1>6. Seeded!Emails' = Seeded!Emails /\ Seeded!References' = Seeded!References
  BY DEF Seeded!Emails, Seeded!References
<1>7. Seeded!TypeOK'
  <2>1. sdStep' \in [Handlers -> RunSteps] BY <1>1, SeedTypes DEF Seeded!Goto, RunSteps
  <2> QED BY <1>1, <1>2, <1>6, <2>1, SeedTypes DEF Seeded!TypeOK, RunSteps
<1>8. Alone' BY <1>1, <1>4, <1>5 DEF Alone
<1>9. Filled'
  <2>1. Come(c)' \subseteq Come(c) \cup {sdAt[c]} BY <1>1, <1>3, <1>6 DEF Come
  <2>2. Come(c) \cap Seeded!Emails \subseteq sdUsers /\ Come(c) \cap Seeded!References \subseteq sdRows
    BY <1>1 DEF SeedInv, Filled
  <2>3. sdAt[c] \notin Seeded!Emails
    BY <1>1 DEF Seeded!SeedAssumption, Seeded!Emails, Seeded!References
  <2> QED BY <1>1, <1>3, <1>5, <1>6, <2>1, <2>2, <2>3 DEF Filled
<1>10. Noted'
  <2>1. ~(Seeded!References \subseteq sdRows) BY <1>1
  <2>2. \A i \in DOMAIN sdNotes : sdNotes[i] \in sdRows /\ sdNotes[i] \notin Requests /\ sdNotes[i] \notin Messages
    BY <2>1 DEF SeedInv, Noted
  <2>3. \A d \in Handlers : sdCreated[d] \subseteq sdRows BY DEF SeedInv, Noted
  <2>4. \A d \in Handlers : sdCreated'[d] \subseteq sdRows' BY <1>1, <1>2, <2>3
  <2> QED BY <1>1, <2>2, <2>4 DEF Noted
<1>11. Enrolled'
  <2>1. \A d \in Handlers : sdStep[d] # "factor" BY <1>1, <1>4, UnderFacts
  <2> QED BY <1>1, <2>1 DEF SeedInv, Enrolled
<1>12. Seeded!NotedOnce' BY <1>1 DEF SeedInv, Seeded!NotedOnce
<1>13. Seeded!SeedIsWhole'
  <2>1. (\E d \in Handlers : sdStep'[d] = "done") => \E d \in Handlers : sdStep[d] = "done"
    BY <1>3
  <2>2. ~\E d \in Handlers : sdStep[d] = "done" BY <1>1 DEF SeedInv, Seeded!SeedIsWhole
  <2> QED BY <1>1, <1>4, <2>1, <2>2 DEF Seeded!SeedIsWhole
<1> QED BY <1>7, <1>8, <1>9, <1>10, <1>11, <1>12, <1>13 DEF SeedInv

\* All rows are there when a run leaves a note.
LEMMA AllThere ==
  ASSUME SeedInv, NEW c \in Handlers, Seeded!Under(c), sdStep[c] # "insert", sdTodo[c] = {}
  PROVE  sdUsers = Seeded!Emails /\ sdRows = Seeded!References
<1>1. Come(c) = Seeded!Emails \cup Seeded!References BY DEF Come
<1>2. Come(c) \cap Seeded!Emails \subseteq sdUsers /\ Come(c) \cap Seeded!References \subseteq sdRows
  BY DEF SeedInv, Filled
<1> QED BY <1>1, <1>2, SeedTypes

\* Requests first, and messages after them: each with its note, in one transaction.
LEMMA AnnotateSeeds ==
  ASSUME Seeded!SeedAssumption, SeedInv, NEW c \in Handlers,
         NEW kind, NEW from, NEW next,
         (kind = Requests /\ from = "look" /\ next = "message")
           \/ (kind = Messages /\ from = "message" /\ next = "done"),
         Seeded!Annotate(c, kind, from, next)
  PROVE  SeedInv'
<1>1. /\ sdStep[c] = from /\ Seeded!Under(c) /\ sdTodo[c] = {} /\ Seeded!Goto(c, next)
      /\ UNCHANGED <<sdMode, sdUsers, sdFactors, sdRows, sdAt, sdTodo, sdCreated, sdTorn>>
      /\ IF sdCreated[c] \cap kind = {} THEN UNCHANGED sdNotes
         ELSE \E r \in sdCreated[c] \cap kind : sdNotes' = Append(sdNotes, r)
  BY UnderFacts DEF Seeded!Annotate
<1>2. sdUsers = Seeded!Emails /\ sdRows = Seeded!References BY <1>1, AllThere
<1>3. sdStep'[c] = next /\ \A d \in Handlers : d # c => sdStep'[d] = sdStep[d] BY <1>1, StepOf
<1>4. sdMode # "production" /\ \A d \in Handlers : d # c => ~Seeded!Under(d) BY <1>1, RunAlone
<1>5. \A d \in Handlers : d # c => ~Seeded!Under(d)' BY <1>3, <1>4 DEF Seeded!Under
<1>6. Seeded!Emails' = Seeded!Emails /\ Seeded!References' = Seeded!References
  BY DEF Seeded!Emails, Seeded!References
<1>7. /\ sdNotes' \in Seq(Seeded!References)
      /\ \/ sdNotes' = sdNotes /\ sdCreated[c] \cap kind = {}
         \/ /\ ~\E i \in DOMAIN sdNotes : sdNotes[i] \in kind
            /\ \E r \in sdCreated[c] \cap kind : sdNotes' = Append(sdNotes, r)
  <2>1. sdNotes \in Seq(Seeded!References) /\ sdCreated[c] \subseteq Seeded!References
    BY SeedTypes
  <2>2. CASE sdCreated[c] \cap kind = {} BY <1>1, <2>1, <2>2
  <2>3. CASE sdCreated[c] \cap kind # {}
    <3>1. ~\E i \in DOMAIN sdNotes : sdNotes[i] \in kind
      BY <1>1, <2>3 DEF SeedInv, Noted
    <3>2. PICK r \in sdCreated[c] \cap kind : sdNotes' = Append(sdNotes, r) BY <1>1, <2>3
    <3>3. sdNotes' \in Seq(Seeded!References) BY <2>1, <3>2
    <3> QED BY <3>1, <3>2, <3>3
  <2> QED BY <2>2, <2>3
<1>8. Seeded!TypeOK'
  <2>1. sdStep' \in [Handlers -> RunSteps]
    BY <1>1, SeedTypes DEF Seeded!Goto, RunSteps, Seeded!Ended
  <2> QED BY <1>1, <1>6, <1>7, <2>1, SeedTypes DEF Seeded!TypeOK, RunSteps
<1>9. Alone' BY <1>1, <1>4, <1>5 DEF Alone
<1>10. Filled' BY <1>1, <1>2, <1>3, <1>5, <1>6 DEF Filled
<1>11. \A i \in DOMAIN sdNotes' : sdNotes'[i] \in sdRows BY <1>2, <1>7
<1>12. Noted'
  <2>1. \A d \in Handlers : sdCreated'[d] \subseteq sdRows' BY <1>1 DEF SeedInv, Noted
  <2>2. ASSUME \E i \in DOMAIN sdNotes' : sdNotes'[i] \in Requests
        PROVE  Seeded!Under(c)' => sdStep'[c] = "message" \/ sdCreated[c] \cap Requests = {}
    <3>1. CASE next = "message" BY <1>3, <3>1
    <3>2. CASE next = "done" BY <1>3, <3>2 DEF Seeded!Under, Seeded!Ended
    <3> QED BY <3>1, <3>2
  <2>3. ASSUME \E i \in DOMAIN sdNotes' : sdNotes'[i] \in Messages
        PROVE  Seeded!Under(c)' => sdCreated[c] \cap Messages = {}
    <3>1. CASE kind = Messages BY <1>3, <3>1 DEF Seeded!Under, Seeded!Ended, Seeded!SeedAssumption
    <3>2. CASE kind = Requests /\ kind # Messages
      <4>1. PICK i \in DOMAIN sdNotes' : sdNotes'[i] \in Messages BY <2>3
      <4>2. \E j \in DOMAIN sdNotes : sdNotes[j] \in Messages
        <5>1. CASE sdNotes' = sdNotes BY <4>1, <5>1
        <5>2. CASE \E r \in sdCreated[c] \cap kind : sdNotes' = Append(sdNotes, r)
          <6>1. PICK r \in sdCreated[c] \cap kind : sdNotes' = Append(sdNotes, r) BY <5>2
          <6>2. r \notin Messages BY <3>2, <6>1 DEF Seeded!SeedAssumption
          <6>3. sdNotes \in Seq(Seeded!References) BY SeedTypes
          <6>4. i # Len(sdNotes) + 1 BY <4>1, <6>1, <6>2, <6>3
          <6>5. i \in DOMAIN sdNotes /\ sdNotes'[i] = sdNotes[i] BY <4>1, <6>1, <6>3, <6>4
          <6> QED BY <4>1, <6>5
        <5> QED BY <1>7, <5>1, <5>2
      <4> QED BY <1>1, <4>2 DEF SeedInv, Noted
    <3> QED BY <3>1, <3>2
  <2> QED BY <1>1, <1>2, <1>5, <1>6, <1>11, <2>1, <2>2, <2>3 DEF Noted
<1>13. Enrolled'
  <2>1. \A d \in Handlers : sdStep[d] # "factor" BY <1>1, <1>4, UnderFacts
  <2> QED BY <1>1, <2>1 DEF SeedInv, Enrolled
<1>14. Seeded!NotedOnce'
  <2>1. CASE sdNotes' = sdNotes BY <1>1, <2>1 DEF SeedInv, Seeded!NotedOnce
  <2>2. CASE /\ ~\E i \in DOMAIN sdNotes : sdNotes[i] \in kind
             /\ \E r \in sdCreated[c] \cap kind : sdNotes' = Append(sdNotes, r)
    <3>1. PICK r \in sdCreated[c] \cap kind : sdNotes' = Append(sdNotes, r) BY <2>2
    <3>2. sdNotes \in Seq(Seeded!References) BY SeedTypes
    <3>3. DOMAIN sdNotes' = DOMAIN sdNotes \cup {Len(sdNotes) + 1} /\ sdNotes'[Len(sdNotes) + 1] = r
          /\ \A i \in DOMAIN sdNotes : sdNotes'[i] = sdNotes[i]
      BY <3>1, <3>2
    <3>4. ASSUME NEW k \in {Requests, Messages}, NEW i \in DOMAIN sdNotes', NEW j \in DOMAIN sdNotes',
                 {sdNotes'[i], sdNotes'[j]} \subseteq k
          PROVE  i = j
      <4>1. CASE i \in DOMAIN sdNotes /\ j \in DOMAIN sdNotes
        BY <3>3, <3>4, <4>1 DEF SeedInv, Seeded!NotedOnce
      <4>2. CASE i = Len(sdNotes) + 1 /\ j = Len(sdNotes) + 1 BY <4>2
      <4>3. CASE i = Len(sdNotes) + 1 /\ j \in DOMAIN sdNotes
        <5>1. k # kind BY <2>2, <3>3, <3>4, <4>3
        <5>2. k \cap kind = {} BY <5>1 DEF Seeded!SeedAssumption
        <5> QED BY <3>1, <3>3, <3>4, <4>3, <5>2
      <4>4. CASE j = Len(sdNotes) + 1 /\ i \in DOMAIN sdNotes
        <5>1. k # kind BY <2>2, <3>3, <3>4, <4>4
        <5>2. k \cap kind = {} BY <5>1 DEF Seeded!SeedAssumption
        <5> QED BY <3>1, <3>3, <3>4, <4>4, <5>2
      <4> QED BY <3>3, <4>1, <4>2, <4>3, <4>4
    <3> QED BY <1>1, <1>11, <3>4 DEF Seeded!NotedOnce
  <2> QED BY <1>7, <2>1, <2>2
<1>15. Seeded!SeedIsWhole'
  <2>1. \A u \in Operators : u \in sdFactors \cup sdTorn
    <3>1. \A d \in Handlers : sdStep[d] # "factor" BY <1>1, <1>4, UnderFacts
    <3> QED BY <1>2, <3>1 DEF SeedInv, Enrolled, Seeded!Emails
  <2> QED BY <1>1, <1>2, <1>4, <1>6, <2>1 DEF Seeded!SeedIsWhole
<1> QED BY <1>8, <1>9, <1>10, <1>12, <1>13, <1>14, <1>15 DEF SeedInv

\* Every step keeps the invariant.
LEMMA SeedStepHolds ==
  ASSUME Seeded!SeedAssumption, SeedInv, [Seeded!Next]_(Seeded!vars) PROVE SeedInv'
<1>1. CASE UNCHANGED Seeded!vars
  <2>1. UNCHANGED <<sdMode, sdUsers, sdFactors, sdRows, sdNotes, sdStep, sdAt, sdTodo, sdCreated, sdTorn>>
    BY <1>1 DEF Seeded!vars, Seeded!database
  <2>2. Seeded!TypeOK' /\ Alone'
    BY <2>1 DEF SeedInv, Seeded!TypeOK, Alone, Seeded!Under, Seeded!Emails, Seeded!References
  <2>3. Filled' /\ Noted'
    BY <2>1 DEF SeedInv, Filled, Noted, Seeded!Under, Come, Seeded!Emails, Seeded!References
  <2>4. Enrolled' /\ Seeded!NotedOnce' /\ Seeded!SeedIsWhole'
    BY <2>1
    DEF SeedInv, Enrolled, Seeded!NotedOnce, Seeded!SeedIsWhole, Seeded!Emails,
        Seeded!References
  <2> QED BY <2>2, <2>3, <2>4 DEF SeedInv
<1>2. ASSUME NEW c \in Handlers, Seeded!RunStep(c) PROVE SeedInv'
  <2>1. CASE Seeded!Annotate(c, Requests, "look", "message") BY <2>1, AnnotateSeeds
  <2>2. CASE Seeded!Annotate(c, Messages, "message", "done") BY <2>2, AnnotateSeeds
  <2> QED BY <1>2, <2>1, <2>2, RunSeeds, LookSeeds, InsertUserSeeds, InsertFactorSeeds,
             InsertRowSeeds, FailureSeeds DEF Seeded!RunStep
<1> QED BY <1>1, <1>2 DEF Seeded!Next

-----------------------------------------------------------------------------
(* The variables a server reads (Environment).                             *)

\* What a server did when it started is what its variables say.
DeploymentInv ==
  /\ Deployment!TypeOK /\ enEnv = [v \in Deployment!Variables |-> enEnv[v]]
  /\ enProcess = "up" => "fails" \notin Deployment!ServerEnv
  /\ enProcess = "refused" => "fails" \in Deployment!ServerEnv

LEMMA DatabaseSettings ==
  ASSUME NEW v, v \in {"DATABASE_URL", "TEST_DATABASE_URL"}
  PROVE  {"local", "remote"} \subseteq Deployment!Settings(v)
<1>1. /\ v \notin Deployment!SecretNames \cup {"TURNSTILE_SECRET_KEY"}
      /\ v # "UPLOAD_STORAGE_DRIVER"
  BY DEF Deployment!SecretNames
<1>2. Deployment!Settings(v) = {"absent", "blank", "malformed"} \cup {"local", "remote"}
  BY <1>1, Zenon DEF Deployment!Settings
<1> QED BY <1>2

LEMMA MeantIsASetting == \A v \in Deployment!Variables : Deployment!Meant(v) \in Deployment!Settings(v)
<1> SUFFICES ASSUME NEW v \in Deployment!Variables
  PROVE Deployment!Meant(v) \in Deployment!Settings(v)
  OBVIOUS
<1>1. CASE v = "DATABASE_URL"
  <2>1. Deployment!Meant(v) \in {"local", "remote"} BY <1>1, Zenon DEF Deployment!Meant
  <2>2. v \in {"DATABASE_URL", "TEST_DATABASE_URL"} BY <1>1
  <2> QED BY <2>1, <2>2, DatabaseSettings
<1>2. CASE v = "TEST_DATABASE_URL"
  <2>1. Deployment!Meant(v) = "local" BY <1>2, Zenon DEF Deployment!Meant
  <2>2. v \in {"DATABASE_URL", "TEST_DATABASE_URL"} BY <1>2
  <2> QED BY <2>1, <2>2, DatabaseSettings
<1>3. CASE v \notin {"DATABASE_URL", "TEST_DATABASE_URL"}
  <2>1. Deployment!Meant(v) = "good" BY <1>3, Zenon DEF Deployment!Meant
  <2>2. "good" \in Deployment!Settings(v) BY <1>3, Zenon DEF Deployment!Settings
  <2> QED BY <2>1, <2>2
<1> QED BY <1>1, <1>2, <1>3

\* What the accessors return depends on the variables alone.
LEMMA AccessorsReadTheEnvironment ==
  ASSUME UNCHANGED <<enEnv, enMode>> PROVE Deployment!ServerEnv' = Deployment!ServerEnv
<1>1. enEnv' = enEnv /\ enMode' = enMode OBVIOUS
<1>2. Deployment!RequireDatabaseUrl' = Deployment!RequireDatabaseUrl
  BY <1>1, Zenon
  DEF Deployment!RequireDatabaseUrl, Deployment!TestDatabaseUrl, Deployment!RuntimeProduction,
      Deployment!Missing
<1>3. Deployment!GetAppOrigin' = Deployment!GetAppOrigin
  BY <1>1, Zenon DEF Deployment!GetAppOrigin, Deployment!RuntimeProduction, Deployment!Missing
<1>4. Deployment!GetTurnstileSecret' = Deployment!GetTurnstileSecret
  BY <1>1 DEF Deployment!GetTurnstileSecret, Deployment!RuntimeProduction, Deployment!Missing
<1>5. Deployment!GetRedisConfig' = Deployment!GetRedisConfig BY <1>1 DEF Deployment!GetRedisConfig
<1>6. Deployment!GetPrivateStorageConfig' = Deployment!GetPrivateStorageConfig
  BY <1>1
  DEF Deployment!GetPrivateStorageConfig, Deployment!OnDisk, Deployment!RuntimeProduction,
      Deployment!Missing
<1>7. Deployment!GetSmtpConfig' = Deployment!GetSmtpConfig
  BY <1>1 DEF Deployment!GetSmtpConfig, Deployment!RuntimeProduction, Deployment!Missing
<1>8. \A v \in Deployment!SecretNames : Deployment!ReadSecret(v)' = Deployment!ReadSecret(v)
  BY <1>1 DEF Deployment!ReadSecret, Deployment!RuntimeProduction, Deployment!Missing
<1>9. {Deployment!ReadSecret(v) : v \in Deployment!SecretNames}' = {Deployment!ReadSecret(v) : v \in Deployment!SecretNames}
  BY <1>8
<1> QED BY <1>2, <1>3, <1>4, <1>5, <1>6, <1>7, <1>9 DEF Deployment!ServerEnv

LEMMA DeploymentInit == Deployment!Init => DeploymentInv
<1> SUFFICES ASSUME Deployment!Init PROVE DeploymentInv
  OBVIOUS
<1>1. enEnv = [v \in Deployment!Variables |-> Deployment!Meant(v)] /\ enMode \in Deployment!Modes /\ enProcess = "off"
  BY DEF Deployment!Init
<1>2. \A v \in Deployment!Variables : enEnv[v] = Deployment!Meant(v) BY <1>1, Zenon
<1>3. \A v \in Deployment!Variables : enEnv[v] \in Deployment!Settings(v) BY <1>2, MeantIsASetting
<1>4. enEnv = [v \in Deployment!Variables |-> enEnv[v]] BY <1>1, <1>2, Zenon
<1> QED BY <1>1, <1>3, <1>4, Zenon DEF DeploymentInv, Deployment!TypeOK

\* Every step keeps the invariant.
LEMMA DeploymentStepHolds == ASSUME DeploymentInv, [Deployment!Next]_(Deployment!vars)
  PROVE DeploymentInv'
<1>1. CASE Deployment!Start
  <2>1. UNCHANGED <<enEnv, enMode>> /\ enProcess' = IF "fails" \in Deployment!ServerEnv THEN "refused" ELSE "up"
    BY <1>1 DEF Deployment!Start
  <2>2. Deployment!ServerEnv' = Deployment!ServerEnv BY <2>1, AccessorsReadTheEnvironment
  <2> QED BY <2>1, <2>2 DEF DeploymentInv, Deployment!TypeOK
<1>2. CASE Deployment!Stop
  <2>1. UNCHANGED <<enEnv, enMode>> /\ enProcess' = "off" BY <1>2 DEF Deployment!Stop
  <2> QED BY <2>1 DEF DeploymentInv, Deployment!TypeOK
<1>3. ASSUME NEW v \in Deployment!Variables, Deployment!Configure(v) PROVE DeploymentInv'
  <2>1. PICK s \in Deployment!Settings(v) : enEnv' = [enEnv EXCEPT ![v] = s]
    BY <1>3 DEF Deployment!Configure
  <2>2. enProcess' = "off" /\ enMode' = enMode BY <1>3 DEF Deployment!Configure
  <2>3. enEnv = [x \in Deployment!Variables |-> enEnv[x]] /\ \A x \in Deployment!Variables : enEnv[x] \in Deployment!Settings(x)
    BY DEF DeploymentInv, Deployment!TypeOK
  <2>4. DOMAIN enEnv = Deployment!Variables BY <2>3
  <2>5. enEnv' = [x \in Deployment!Variables |-> IF x = v THEN s ELSE enEnv[x]] BY <2>1, <2>4
  <2>6. \A x \in Deployment!Variables : enEnv'[x] = IF x = v THEN s ELSE enEnv[x] BY <2>5
  <2>7. \A x \in Deployment!Variables : enEnv'[x] \in Deployment!Settings(x) BY <2>1, <2>3, <2>6
  <2>8. enEnv' = [x \in Deployment!Variables |-> enEnv'[x]] BY <2>5
  <2>9. \A x : Deployment!Settings(x)' = Deployment!Settings(x) BY DEF Deployment!Settings
  <2> QED BY <2>2, <2>7, <2>8, <2>9 DEF DeploymentInv, Deployment!TypeOK
<1>4. CASE UNCHANGED Deployment!vars
  <2>1. UNCHANGED <<enEnv, enMode, enProcess>> BY <1>4 DEF Deployment!vars
  <2>2. Deployment!ServerEnv' = Deployment!ServerEnv BY <2>1, AccessorsReadTheEnvironment
  <2> QED BY <2>1, <2>2 DEF DeploymentInv, Deployment!TypeOK
<1> QED BY <1>1, <1>2, <1>3, <1>4 DEF Deployment!Next

\* What the invariant is for.
LEMMA DeploymentSafe ==
  ASSUME DeploymentInv
    PROVE Deployment!NothingIsFoundLate /\ Deployment!ProductionIsProtected /\ Deployment!CheckTellsStart
<1>1. Deployment!NothingIsFoundLate
  <2> SUFFICES ASSUME enProcess = "up", NEW s \in Deployment!Services \ {"submission"}
    PROVE "fails" \notin Deployment!Reads(s)
    BY DEF Deployment!NothingIsFoundLate
  <2>1. "fails" \notin Deployment!ServerEnv BY DEF DeploymentInv
  <2>2. /\ Deployment!RequireDatabaseUrl # "fails" /\ Deployment!GetAppOrigin # "fails" /\ Deployment!GetTurnstileSecret # "fails"
        /\ Deployment!GetRedisConfig # "fails" /\ Deployment!GetPrivateStorageConfig # "fails" /\ Deployment!GetSmtpConfig # "fails"
        /\ Deployment!ReadSecret("IP_HASH_SALT") # "fails" /\ Deployment!ReadSecret("TWO_FACTOR_ENCRYPTION_KEY") # "fails"
    BY <2>1 DEF Deployment!ServerEnv, Deployment!SecretNames
  <2>3. CASE s = "any"
    <3>1. Deployment!Reads(s) = {Deployment!GetAppOrigin, Deployment!ReadSecret("IP_HASH_SALT"), Deployment!GetRedisConfig}
      BY <2>3, Zenon DEF Deployment!Reads
    <3> QED BY <2>2, <3>1
  <2>4. CASE s = "database"
    <3>1. Deployment!Reads(s) = {Deployment!RequireDatabaseUrl}
      BY <2>4, Zenon DEF Deployment!Reads
    <3> QED BY <2>2, <3>1
  <2>5. CASE s = "guest"
    <3>1. Deployment!Reads(s) = {Deployment!GetTurnstileSecret}
      BY <2>5, Zenon DEF Deployment!Reads
    <3> QED BY <2>2, <3>1
  <2>6. CASE s = "files"
    <3>1. Deployment!Reads(s) = {Deployment!GetPrivateStorageConfig}
      BY <2>6, Zenon DEF Deployment!Reads
    <3> QED BY <2>2, <3>1
  <2>7. CASE s = "mail"
    <3>1. Deployment!Reads(s) = {Deployment!GetSmtpConfig} BY <2>7, Zenon DEF Deployment!Reads
    <3> QED BY <2>2, <3>1
  <2>8. CASE s = "secret"
    <3>1. Deployment!Reads(s) = {Deployment!ReadSecret("TWO_FACTOR_ENCRYPTION_KEY")}
      BY <2>8, Zenon DEF Deployment!Reads
    <3> QED BY <2>2, <3>1
  <2> QED BY <2>3, <2>4, <2>5, <2>6, <2>7, <2>8 DEF Deployment!Services
<1>2. Deployment!ProductionIsProtected
  <2> SUFFICES ASSUME enProcess = "up", enMode = "production"
               PROVE  /\ \A v \in Deployment!SecretNames : enEnv[v] \in {"good", "malformed"}
                      /\ enEnv["TURNSTILE_SECRET_KEY"] \in {"good", "malformed"}
                      /\ enEnv["DATABASE_URL"] = "remote" /\ enEnv["UPLOAD_STORAGE_DRIVER"] = "good"
    BY DEF Deployment!ProductionIsProtected
  <2>1. "fails" \notin Deployment!ServerEnv /\ \A v \in Deployment!Variables : enEnv[v] \in Deployment!Settings(v)
    BY DEF DeploymentInv, Deployment!TypeOK
  <2>2. Deployment!RuntimeProduction BY DEF Deployment!RuntimeProduction
  <2>3. Deployment!RequireDatabaseUrl # "fails" /\ Deployment!GetTurnstileSecret # "fails" /\ Deployment!GetPrivateStorageConfig # "fails"
        /\ \A v \in Deployment!SecretNames : Deployment!ReadSecret(v) # "fails"
    BY <2>1 DEF Deployment!ServerEnv
  <2>4. ASSUME NEW v \in Deployment!SecretNames \cup {"TURNSTILE_SECRET_KEY"}
        PROVE  enEnv[v] \in {"absent", "blank", "malformed", "weak", "good"}
    <3>1. /\ v \notin {"DATABASE_URL", "TEST_DATABASE_URL"} /\ v # "UPLOAD_STORAGE_DRIVER"
          /\ v \in Deployment!Variables /\ v \in Deployment!SecretNames \cup {"TURNSTILE_SECRET_KEY"}
      BY DEF Deployment!SecretNames, Deployment!Variables
    <3>2. Deployment!Settings(v) = {"absent", "blank", "malformed"} \cup {"weak", "good"}
      BY <3>1, Zenon DEF Deployment!Settings
    <3> QED BY <2>1, <3>1, <3>2
  <2>5. \A v \in Deployment!SecretNames : enEnv[v] \in {"good", "malformed"}
    BY <2>2, <2>3, <2>4 DEF Deployment!ReadSecret, Deployment!Missing
  <2>6. enEnv["TURNSTILE_SECRET_KEY"] \in {"good", "malformed"}
    BY <2>2, <2>3, <2>4 DEF Deployment!GetTurnstileSecret, Deployment!Missing
  <2>7. enEnv["DATABASE_URL"] = "remote"
    <3>1. CASE enEnv["DATABASE_URL"] = "malformed"
      BY <3>1, <2>3, Zenon DEF Deployment!RequireDatabaseUrl
    <3>2. CASE enEnv["DATABASE_URL"] \notin {"malformed", "remote"}
      BY <3>2, <2>2, <2>3, Zenon DEF Deployment!RequireDatabaseUrl
    <3> QED BY <3>1, <3>2
  <2>8. enEnv["UPLOAD_STORAGE_DRIVER"] \in {"absent", "blank", "malformed", "local", "good"}
    <3> DEFINE v == "UPLOAD_STORAGE_DRIVER"
    <3>0. /\ v = "UPLOAD_STORAGE_DRIVER" /\ v \notin {"DATABASE_URL", "TEST_DATABASE_URL"}
          /\ v \notin Deployment!SecretNames \cup {"TURNSTILE_SECRET_KEY"}
      BY DEF Deployment!SecretNames
    <3> HIDE DEF v
    <3>1. Deployment!Settings(v) = {"absent", "blank", "malformed"} \cup {"local", "good"}
      BY <3>0, Zenon DEF Deployment!Settings
    <3>2. v \in Deployment!Variables BY <3>0 DEF Deployment!Variables
    <3>3. enEnv[v] \in Deployment!Settings(v) BY <2>1, <3>2
    <3> QED BY <3>0, <3>1, <3>3
  <2>9. enEnv["UPLOAD_STORAGE_DRIVER"] = "good"
    BY <2>2, <2>3, <2>8
    DEF Deployment!GetPrivateStorageConfig, Deployment!OnDisk, Deployment!Missing
  <2> QED BY <2>5, <2>6, <2>7, <2>9
<1>3. Deployment!CheckTellsStart
  BY DEF Deployment!CheckTellsStart, Deployment!CheckedEnv, DeploymentInv
<1> QED BY <1>1, <1>2, <1>3

-----------------------------------------------------------------------------
(* Changes of address (AddressChanges).  A call that is about to move an   *)
(* account holds a live link of that account, read in the transaction that *)
(* moves it.                                                               *)

\* What a call has read.
Reads == [user : Accounts \cup {Nobody}, to : Moves!Known, links : SUBSET Links]
\* A row of the links.
MovesRows == [state : {"none", "live", "expired", "confirmed"}, user : Accounts \cup {Nobody}, to : Moves!Known]

\* A call about to move an account holds the link of that move; a call that has asked
\* is of an account.
MovesReading ==
  \A c \in Handlers :
    /\ adStep[c] # "idle" => adRead[c].user \in Accounts
    /\ adStep[c] = "move" =>
         \E l \in Links : /\ adRead[c].links = {l}
                          /\ adLink[l].user = adRead[c].user /\ adLink[l].to = adRead[c].to

\* A row is locked by one transaction, and waits for it.
Locks ==
  /\ \A c, d \in Handlers : c # d => adRead[c].links \cap adRead[d].links = {}
  /\ \A c \in Handlers : \A l \in adRead[c].links : adLink[l].state \in {"live", "expired"}

\* No two accounts are at one address.
Unique == \A u, v \in Accounts : adAddress[u] # Nobody /\ adAddress[u] = adAddress[v] => u = v

\* An account is at its first address or at the one of a link it confirmed.
Proved(u) ==
  \/ adOwned[u] = {adAddress[u]}
  \/ \E l \in Links : adLink[l] = [state |-> "confirmed", user |-> u, to |-> adAddress[u]]

\* Together, inductive.
MovesInv == Moves!TypeOK /\ MovesReading /\ Locks /\ Unique
            /\ \A u \in Accounts : adAddress[u] # Nobody => Proved(u)

\* A call that goes on leaves the others where they are.
LEMMA GotoFacts ==
  ASSUME Moves!TypeOK, NEW c \in Handlers, NEW at, NEW known, Moves!Goto(c, at, known)
  PROVE  \A d \in Handlers : IF d = c THEN adStep'[d] = at /\ adRead'[d] = known
                             ELSE adStep'[d] = adStep[d] /\ adRead'[d] = adRead[d]
BY DEF Moves!Goto, Moves!TypeOK

LEMMA GotoTypes ==
  ASSUME Moves!TypeOK, NEW c \in Handlers,
         NEW at \in {"idle", "look", "supersede", "insert", "move"}, NEW known \in Reads,
         Moves!Goto(c, at, known)
  PROVE  /\ adStep' \in [Handlers -> {"idle", "look", "supersede", "insert", "move"}]
         /\ adRead' \in [Handlers -> Reads]
BY DEF Moves!Goto, Moves!TypeOK, Reads

LEMMA RestFacts == Moves!Rest \in Reads /\ Moves!Rest.links = {}
BY DEF Moves!Rest, Reads, Moves!Known

\* A call that goes on without a row, or with rows nobody holds, while no row changes.
LEMMA CallsGoOn ==
  ASSUME MovesInv, NEW c \in Handlers,
         NEW at \in {"idle", "look", "supersede", "insert", "move"}, NEW known \in Reads,
         Moves!Goto(c, at, known), UNCHANGED <<Moves!accounts, adLink, adOwned>>,
         adSession' \in [Sessions -> Accounts \cup {Nobody}],
         at # "idle" => known.user \in Accounts,
         \A l \in known.links : adLink[l].state \in {"live", "expired"}
                                /\ \A d \in Handlers \ {c} : l \notin adRead[d].links,
         at = "move" => \E l \in Links : /\ known.links = {l}
                                         /\ adLink[l].user = known.user /\ adLink[l].to = known.to
  PROVE  MovesInv'
<1>1. Moves!TypeOK /\ MovesReading /\ Locks BY DEF MovesInv
<1>2. \A d \in Handlers : IF d = c THEN adStep'[d] = at /\ adRead'[d] = known
                          ELSE adStep'[d] = adStep[d] /\ adRead'[d] = adRead[d]
  BY <1>1, GotoFacts
<1>3. Moves!TypeOK' BY <1>1, GotoTypes DEF Moves!TypeOK, Reads, Moves!accounts
<1>4. MovesReading' BY <1>1, <1>2 DEF MovesReading
<1>5. Locks'
  <2>1. ASSUME NEW d \in Handlers, NEW e \in Handlers, d # e
    PROVE adRead'[d].links \cap adRead'[e].links = {}
    <3>1. CASE d = c
      BY <1>1, <1>2, <2>1, <3>1 DEF Locks
    <3>2. CASE e = c
      BY <1>1, <1>2, <2>1, <3>2 DEF Locks
    <3>3. CASE d # c /\ e # c
      BY <1>1, <1>2, <2>1, <3>3 DEF Locks
    <3> QED BY <3>1, <3>2, <3>3
  <2>2. ASSUME NEW d \in Handlers, NEW l \in adRead'[d].links
    PROVE adLink'[l].state \in {"live", "expired"}
    BY <1>1, <1>2, <2>2 DEF Locks
  <2> QED BY <2>1, <2>2 DEF Locks
<1>6. Unique' /\ \A u \in Accounts : adAddress'[u] # Nobody => Proved(u)'
  BY DEF MovesInv, Unique, Proved, Moves!accounts
<1> QED BY <1>3, <1>4, <1>5, <1>6 DEF MovesInv

\* A call that returns without a change.
LEMMA ReturnSettles ==
  ASSUME MovesInv, NEW c \in Handlers, Moves!Return(c), UNCHANGED <<Moves!accounts, adSession, adLink, adOwned>>
  PROVE  MovesInv'
<1>1. adSession' \in [Sessions -> Accounts \cup {Nobody}] BY DEF MovesInv, Moves!TypeOK
<1> QED BY <1>1, RestFacts, CallsGoOn DEF Moves!Return

LEMMA ReadsOfCall ==
  ASSUME MovesInv, NEW c \in Handlers
  PROVE  adRead[c] \in Reads /\ adRead[c].links \subseteq Links
BY DEF MovesInv, Moves!TypeOK, Reads

\* The request of a client.
LEMMA RequestSettles ==
  ASSUME MovesInv, NEW c \in Handlers,
         \/ \E s \in Sessions, a \in Addresses : Moves!Ask(c, s, a)
         \/ Moves!LookUp(c) \/ Moves!SupersedeLinks(c)
  PROVE  MovesInv'
<1>0. adSession \in [Sessions -> Accounts \cup {Nobody}] /\ MovesReading /\ Locks
  BY DEF MovesInv, Moves!TypeOK
<1>1. CASE \E s \in Sessions, a \in Addresses : Moves!Ask(c, s, a)
  <2>1. PICK s \in Sessions, a \in Addresses : Moves!Ask(c, s, a) BY <1>1
  <2> DEFINE known == [Moves!Rest EXCEPT !.user = adSession[s], !.to = a]
  <2>2. adSession[s] \in Accounts BY <1>0, <2>1 DEF Moves!Ask
  <2>3. known \in Reads /\ known.user = adSession[s] /\ known.links = {}
    BY <2>2, RestFacts DEF Moves!Rest, Reads, Moves!Known
  <2>4. Moves!Goto(c, "look", known) /\ UNCHANGED <<Moves!accounts, adSession, adLink, adOwned>>
    BY <2>1 DEF Moves!Ask
  <2> HIDE DEF known
  <2> QED BY <1>0, <2>2, <2>3, <2>4, CallsGoOn
<1>2. CASE Moves!LookUp(c)
  <2>1. CASE Moves!Return(c) BY <1>2, <2>1, ReturnSettles DEF Moves!LookUp
  <2>2. CASE ~Moves!Return(c)
    <3>1. Moves!Goto(c, "supersede", adRead[c]) /\ UNCHANGED <<Moves!accounts, adSession, adLink, adOwned>>
      BY <1>2, <2>2 DEF Moves!LookUp
    <3>2. adRead[c].user \in Accounts BY <1>0, <1>2 DEF Moves!LookUp, MovesReading
    <3>3. \A l \in adRead[c].links : adLink[l].state \in {"live", "expired"}
                                     /\ \A d \in Handlers \ {c} : l \notin adRead[d].links
      BY <1>0 DEF Locks
    <3> QED BY <1>0, <3>1, <3>2, <3>3, ReadsOfCall, CallsGoOn
  <2> QED BY <2>1, <2>2
<1>3. CASE Moves!SupersedeLinks(c)
  <2> DEFINE live == {l \in Links : adLink[l].user = adRead[c].user /\ adLink[l].state = "live"}
             known == [adRead[c] EXCEPT !.links = live]
  <2>1. Moves!Goto(c, "insert", known) /\ UNCHANGED <<Moves!accounts, adSession, adLink, adOwned>>
        /\ \A l \in live : ~Moves!Locked(l)
    BY <1>3 DEF Moves!SupersedeLinks
  <2>2. known \in Reads /\ known.user = adRead[c].user /\ known.links = live
    BY ReadsOfCall DEF Reads
  <2>3. \A l \in live : adLink[l].state \in {"live", "expired"}
                        /\ \A d \in Handlers \ {c} : l \notin adRead[d].links
    BY <2>1 DEF Moves!Locked
  <2>4. adRead[c].user \in Accounts BY <1>0, <1>3 DEF Moves!SupersedeLinks, MovesReading
  <2> HIDE DEF live, known
  <2> QED BY <1>0, <2>1, <2>2, <2>3, <2>4, CallsGoOn
<1> QED BY <1>1, <1>2, <1>3

\* The new row is one nobody held, and those it supersedes were held by its call.
LEMMA InsertSettles ==
  ASSUME MovesInv, NEW c \in Handlers, Moves!InsertLink(c)
  PROVE  MovesInv'
<1>1. PICK l \in Links :
        /\ adLink[l] = Moves!Unused
        /\ adLink' = [k \in Links |->
             IF k = l THEN [state |-> "live", user |-> adRead[c].user, to |-> adRead[c].to]
             ELSE IF k \in adRead[c].links THEN [adLink[k] EXCEPT !.state = "expired"] ELSE adLink[k]]
  BY DEF Moves!InsertLink
<1>2. Moves!TypeOK /\ MovesReading /\ Locks BY DEF MovesInv
<1>3. /\ Moves!Goto(c, "idle", Moves!Rest) /\ adStep[c] = "insert"
      /\ UNCHANGED <<Moves!accounts, adSession, adOwned>>
  BY DEF Moves!InsertLink, Moves!Return
<1>4. \A d \in Handlers : IF d = c THEN adStep'[d] = "idle" /\ adRead'[d] = Moves!Rest
                          ELSE adStep'[d] = adStep[d] /\ adRead'[d] = adRead[d]
  BY <1>2, <1>3, GotoFacts
<1>5. adRead[c].user \in Accounts /\ adRead[c].to \in Moves!Known
  BY <1>2, <1>3, ReadsOfCall DEF MovesReading, Reads
<1>6. adLink \in [Links -> MovesRows] BY <1>2 DEF Moves!TypeOK, MovesRows
<1>7. /\ \A k \in Links : k # l => /\ adLink'[k].user = adLink[k].user /\ adLink'[k].to = adLink[k].to
                                   /\ k \notin adRead[c].links => adLink'[k] = adLink[k]
                                   /\ k \in adRead[c].links => adLink'[k].state = "expired"
      /\ adLink[l].state = "none"
  BY <1>1, <1>6 DEF MovesRows, Moves!Unused
<1>8. \A d \in Handlers : l \notin adRead[d].links BY <1>2, <1>7 DEF Locks
<1>9. Moves!TypeOK'
  <2>1. adLink' \in [Links -> MovesRows] BY <1>1, <1>5, <1>6 DEF MovesRows
  <2> QED
    BY <1>2, <1>3, <2>1, GotoTypes, RestFacts DEF Moves!TypeOK, MovesRows, Reads, Moves!accounts
<1>10. MovesReading' BY <1>2, <1>4, <1>7, <1>8 DEF MovesReading
<1>11. Locks'
  <2>1. ASSUME NEW d \in Handlers, NEW e \in Handlers, d # e
    PROVE adRead'[d].links \cap adRead'[e].links = {}
    BY <1>2, <1>4, <2>1, RestFacts DEF Locks
  <2>2. ASSUME NEW d \in Handlers, NEW k \in adRead'[d].links
    PROVE adLink'[k].state \in {"live", "expired"}
    <3>1. d # c /\ k \in adRead[d].links BY <1>4, <2>2, RestFacts
    <3>2. k \in Links /\ k # l BY <1>8, <3>1, ReadsOfCall
    <3> QED BY <1>2, <1>7, <3>1, <3>2 DEF Locks
  <2> QED BY <2>1, <2>2 DEF Locks
<1>12. \A k \in Links : adLink[k].state = "confirmed" => adLink'[k] = adLink[k]
  BY <1>2, <1>7 DEF Locks
<1>13. Unique' /\ \A u \in Accounts : adAddress'[u] # Nobody => Proved(u)'
  BY <1>3, <1>12 DEF MovesInv, Unique, Proved, Moves!accounts
<1> QED BY <1>9, <1>10, <1>11, <1>13 DEF MovesInv

\* The click: the link is held by the call that moves the account.
LEMMA SpendSettles ==
  ASSUME MovesInv, NEW c \in Handlers, NEW l \in Links, Moves!SpendLink(c, l)
  PROVE  MovesInv'
<1> DEFINE known == [user |-> adLink[l].user, to |-> adLink[l].to, links |-> {l}]
<1>1. /\ Moves!Goto(c, "move", known) /\ UNCHANGED <<Moves!accounts, adSession, adLink, adOwned>>
      /\ adLink[l].user \in adActive /\ adLink[l].state = "live" /\ ~Moves!Locked(l)
  BY DEF Moves!SpendLink
<1>2. /\ adActive \subseteq Accounts /\ adLink \in [Links -> MovesRows]
      /\ adSession \in [Sessions -> Accounts \cup {Nobody}]
  BY DEF MovesInv, Moves!TypeOK, MovesRows
<1>3. known \in Reads /\ known.user \in Accounts /\ known.links = {l}
      /\ known.user = adLink[l].user /\ known.to = adLink[l].to
  BY <1>1, <1>2 DEF Reads, MovesRows
<1> HIDE DEF known
<1>4. \A k \in known.links : adLink[k].state \in {"live", "expired"}
                             /\ \A d \in Handlers \ {c} : k \notin adRead[d].links
  BY <1>1, <1>3 DEF Moves!Locked
<1> QED BY <1>1, <1>2, <1>3, <1>4, CallsGoOn

\* The account moves: the address is free and the link was live in the same transaction.
LEMMA MoveSettles ==
  ASSUME MovesInv, NEW c \in Handlers, Moves!MoveAccount(c)
  PROVE  MovesInv'
<1>1. Moves!TypeOK /\ MovesReading /\ Locks BY DEF MovesInv
<1>2. PICK l \in Links : adRead[c].links = {l} /\ adLink[l].user = adRead[c].user /\ adLink[l].to = adRead[c].to
  BY <1>1 DEF Moves!MoveAccount, MovesReading
<1>3. PICK u \in Accounts, a \in Moves!Known : u = adRead[c].user /\ a = adRead[c].to
  BY <1>1, ReadsOfCall DEF Moves!MoveAccount, MovesReading, Reads
<1>4. /\ Moves!Goto(c, "idle", Moves!Rest) /\ Moves!Holder(a) \subseteq {u}
      /\ adAddress' = [adAddress EXCEPT ![u] = a] /\ UNCHANGED adActive
      /\ adLink' = [k \in Links |-> IF k = l THEN [adLink[k] EXCEPT !.state = "confirmed"] ELSE adLink[k]]
      /\ adSession' = [s \in Sessions |-> IF adSession[s] = u THEN Nobody ELSE adSession[s]]
      /\ adOwned' = [adOwned EXCEPT ![u] = @ \cup {a}]
  BY <1>2, <1>3 DEF Moves!MoveAccount, Moves!Return
<1>5. \A d \in Handlers : IF d = c THEN adStep'[d] = "idle" /\ adRead'[d] = Moves!Rest
                          ELSE adStep'[d] = adStep[d] /\ adRead'[d] = adRead[d]
  BY <1>1, <1>4, GotoFacts
<1>6. /\ adLink \in [Links -> MovesRows] /\ adAddress \in [Accounts -> Moves!Known]
      /\ adSession \in [Sessions -> Accounts \cup {Nobody}] /\ adOwned \in [Accounts -> SUBSET Moves!Known]
  BY <1>1 DEF Moves!TypeOK, MovesRows
<1>7. /\ \A k \in Links : /\ adLink'[k].user = adLink[k].user /\ adLink'[k].to = adLink[k].to
                          /\ k # l => adLink'[k] = adLink[k]
      /\ adLink'[l] = [state |-> "confirmed", user |-> u, to |-> a]
  BY <1>2, <1>3, <1>4, <1>6 DEF MovesRows
<1>8. Moves!TypeOK'
  <2>1. adLink' \in [Links -> MovesRows] BY <1>4, <1>6 DEF MovesRows
  <2>2. adAddress' \in [Accounts -> Moves!Known] /\ adOwned' \in [Accounts -> SUBSET Moves!Known]
        /\ adSession' \in [Sessions -> Accounts \cup {Nobody}]
    BY <1>4, <1>6
  <2> QED BY <1>1, <1>4, <2>1, <2>2, GotoTypes, RestFacts DEF Moves!TypeOK, MovesRows, Reads
<1>9. MovesReading' BY <1>1, <1>5, <1>7 DEF MovesReading
<1>10. Locks'
  <2>1. ASSUME NEW d \in Handlers, NEW e \in Handlers, d # e
    PROVE adRead'[d].links \cap adRead'[e].links = {}
    BY <1>1, <1>5, <2>1, RestFacts DEF Locks
  <2>2. ASSUME NEW d \in Handlers, NEW k \in adRead'[d].links
    PROVE adLink'[k].state \in {"live", "expired"}
    <3>1. d # c /\ k \in adRead[d].links BY <1>5, <2>2, RestFacts
    <3>2. k \in Links /\ k # l BY <1>1, <1>2, <3>1, ReadsOfCall DEF Locks
    <3> QED BY <1>1, <1>7, <3>1, <3>2 DEF Locks
  <2> QED BY <2>1, <2>2 DEF Locks
<1>11. Unique' BY <1>4, <1>6 DEF MovesInv, Unique, Moves!Holder
<1>12. ASSUME NEW v \in Accounts, adAddress'[v] # Nobody PROVE Proved(v)'
  <2>1. CASE v = u BY <1>4, <1>6, <1>7, <2>1 DEF Proved
  <2>2. CASE v # u
    <3>1. adAddress'[v] = adAddress[v] /\ adOwned'[v] = adOwned[v] BY <1>4, <1>6, <2>2
    <3>2. \A k \in Links : adLink[k] = [state |-> "confirmed", user |-> v, to |-> adAddress[v]] => k # l
      BY <1>2, <1>3, <2>2
    <3> QED BY <1>7, <1>12, <3>1, <3>2 DEF MovesInv, Proved
  <2> QED BY <2>1, <2>2
<1> QED BY <1>8, <1>9, <1>10, <1>11, <1>12 DEF MovesInv

\* Registrations, the office, logins and time leave calls alone.
LEMMA OthersSettle ==
  ASSUME MovesInv,
         \/ \E u \in Accounts : Moves!OfficeDecides(u) \/ \E a \in Addresses : Moves!Register(u, a)
         \/ \E s \in Sessions, u \in Accounts : Moves!Login(s, u)
         \/ \E l \in Links : Moves!Expire(l)
  PROVE  MovesInv'
<1>1. Moves!TypeOK /\ MovesReading /\ Locks BY DEF MovesInv
<1>2. ASSUME NEW u \in Accounts, NEW a \in Addresses, Moves!Register(u, a) PROVE MovesInv'
  <2>1. /\ adAddress' = [adAddress EXCEPT ![u] = a] /\ adOwned' = [adOwned EXCEPT ![u] = {a}]
        /\ adActive' = adActive \cup {u} /\ Moves!Holder(a) = {}
        /\ UNCHANGED <<adSession, adLink, adStep, adRead>>
    BY <1>2 DEF Moves!Register, Moves!calls
  <2>2. Moves!TypeOK' BY <1>1, <2>1 DEF Moves!TypeOK, Moves!Known
  <2>3. MovesReading' /\ Locks' BY <1>1, <2>1 DEF MovesReading, Locks
  <2>4. Unique' BY <1>1, <2>1 DEF MovesInv, Unique, Moves!Holder, Moves!TypeOK
  <2>5. \A v \in Accounts : adAddress'[v] # Nobody => Proved(v)'
    BY <1>1, <2>1 DEF MovesInv, Proved, Moves!TypeOK
  <2> QED BY <2>2, <2>3, <2>4, <2>5 DEF MovesInv
<1>3. ASSUME UNCHANGED <<adAddress, adLink, adStep, adRead, adOwned>>,
             adActive' \subseteq Accounts, adSession' \in [Sessions -> Accounts \cup {Nobody}]
      PROVE  MovesInv'
  <2>1. Moves!TypeOK' BY <1>1, <1>3 DEF Moves!TypeOK
  <2>2. MovesReading' /\ Locks' BY <1>1, <1>3 DEF MovesReading, Locks
  <2> QED BY <1>3, <2>1, <2>2 DEF MovesInv, Unique, Proved
<1>4. ASSUME NEW u \in Accounts, Moves!OfficeDecides(u) PROVE MovesInv'
  BY <1>1, <1>3, <1>4 DEF Moves!OfficeDecides, Moves!TypeOK, Moves!calls
<1>5. ASSUME NEW s \in Sessions, NEW u \in Accounts, Moves!Login(s, u) PROVE MovesInv'
  BY <1>1, <1>3, <1>5 DEF Moves!Login, Moves!TypeOK, Moves!calls, Moves!accounts
<1>6. ASSUME NEW l \in Links, Moves!Expire(l) PROVE MovesInv'
  <2>1. /\ adLink' = [adLink EXCEPT ![l].state = "expired"] /\ adLink[l].state = "live"
        /\ UNCHANGED <<adAddress, adActive, adSession, adStep, adRead, adOwned>>
    BY <1>6 DEF Moves!Expire, Moves!accounts, Moves!calls
  <2>2. adLink \in [Links -> MovesRows] BY <1>1 DEF Moves!TypeOK, MovesRows
  <2>3. /\ adLink' \in [Links -> MovesRows]
        /\ \A k \in Links : /\ adLink'[k].user = adLink[k].user /\ adLink'[k].to = adLink[k].to
                            /\ adLink'[k].state = IF k = l THEN "expired" ELSE adLink[k].state
                            /\ adLink[k].state = "confirmed" => adLink'[k] = adLink[k]
    BY <2>1, <2>2 DEF MovesRows
  <2>4. Moves!TypeOK' BY <1>1, <2>1, <2>3 DEF Moves!TypeOK, MovesRows
  <2>5. MovesReading' BY <1>1, <2>1, <2>3 DEF MovesReading
  <2>6. Locks'
    <3>1. \A d \in Handlers : adRead[d].links \subseteq Links BY ReadsOfCall
    <3> QED BY <1>1, <2>1, <2>3, <3>1 DEF Locks
  <2>7. Unique' BY <2>1 DEF MovesInv, Unique
  <2>8. \A v \in Accounts : adAddress'[v] # Nobody => Proved(v)'
    BY <2>1, <2>3 DEF MovesInv, Proved
  <2> QED BY <2>4, <2>5, <2>6, <2>7, <2>8 DEF MovesInv
<1> QED BY <1>2, <1>4, <1>5, <1>6

LEMMA MovesInit == Moves!Init => MovesInv
<1> SUFFICES ASSUME Moves!Init PROVE MovesInv
  OBVIOUS
<1>1. Moves!TypeOK BY DEF Moves!Init, Moves!TypeOK, Moves!Known, Moves!Unused, Moves!Rest
<1>2. MovesReading /\ Locks BY DEF Moves!Init, MovesReading, Locks, Moves!Rest
<1>3. \A u \in Accounts : adAddress[u] = Nobody BY DEF Moves!Init
<1> QED BY <1>1, <1>2, <1>3 DEF MovesInv, Unique

\* Every step keeps the invariant.
LEMMA MovesStep ==
  ASSUME MovesInv, [Moves!Next]_(Moves!vars)
  PROVE  MovesInv'
<1>1. CASE UNCHANGED Moves!vars
  <2>1. UNCHANGED <<adAddress, adActive, adSession, adLink, adStep, adRead, adOwned>>
    BY <1>1 DEF Moves!vars, Moves!accounts, Moves!calls
  <2>2. Moves!TypeOK' /\ MovesReading' /\ Locks'
    BY <2>1 DEF MovesInv, Moves!TypeOK, MovesReading, Locks
  <2> QED BY <2>1, <2>2 DEF MovesInv, Unique, Proved
<1>2. ASSUME NEW c \in Handlers, Moves!InsertRefused(c) \/ Moves!CallDies(c) PROVE MovesInv'
  BY <1>2, ReturnSettles DEF Moves!InsertRefused, Moves!CallDies
<1> QED
  BY <1>1, <1>2, OthersSettle, RequestSettles, InsertSettles, SpendSettles, MoveSettles
  DEF Moves!Next


\* What the invariant is for.
LEMMA MovesSafe == MovesInv => Moves!TypeOK /\ Moves!AddressesAreProved
BY DEF MovesInv, Unique, Proved, Moves!AddressesAreProved

-----------------------------------------------------------------------------
(* Decisions on a quote (QuoteDecisions).                                  *)

\* A handler that has judged an acceptance did so while the quote was valid.
JudgedInTime ==
  \A c \in Handlers : qdHandlers[c].step = "decide" /\ qdHandlers[c].decision = "accept"
    => qdHandlers[c].at <= ValidUntil

\* What has been answered is what the quote shows.
Shown ==
  /\ qdDecided = CASE qdStatus = "accepted" -> <<"accept">>
                   [] qdStatus = "refused" -> <<"refuse">>
                   [] OTHER -> <<>>
  /\ IF qdStatus = "accepted" THEN qdSignedAt \in 0..MaxTime /\ qdSignedAt <= ValidUntil
     ELSE qdSignedAt = Nobody

\* Together, inductive.
DecisionInv == Decided!TypeOK /\ JudgedInTime /\ Shown

LEMMA DecisionInit == ASSUME Decided!DecisionAssumption PROVE Decided!Init => DecisionInv
<1> SUFFICES ASSUME Decided!Init PROVE DecisionInv
  OBVIOUS
<1>1. Decided!Idle \in Decided!Handler
  BY DEF Decided!Idle, Decided!Handler, Decided!Decisions, Decided!QuoteStates,
      Decided!DecisionAssumption
<1>2. qdDecided \in Seq(Decided!Decisions) BY DEF Decided!Init
<1>3. Decided!TypeOK
  BY <1>1, <1>2 DEF Decided!Init, Decided!TypeOK, Decided!QuoteStates, Decided!DecisionAssumption
<1>4. JudgedInTime BY DEF Decided!Init, JudgedInTime, Decided!Idle
<1>5. Shown BY DEF Decided!Init, Shown
<1> QED BY <1>3, <1>4, <1>5 DEF DecisionInv

\* A handler goes on while the quote stays as it is.
LEMMA HandlerGoesOn ==
  ASSUME Decided!DecisionAssumption, DecisionInv, NEW c \in Handlers, NEW h \in Decided!Handler,
         qdHandlers' = [qdHandlers EXCEPT ![c] = h],
         h.step = "decide" /\ h.decision = "accept" => h.at <= ValidUntil,
         UNCHANGED <<qdStatus, qdSignedAt, qdNow, qdDecided>>
  PROVE  DecisionInv'
<1>1. Decided!TypeOK' BY DEF DecisionInv, Decided!TypeOK
<1>2. JudgedInTime' BY DEF DecisionInv, Decided!TypeOK, JudgedInTime
<1>3. Shown' BY DEF DecisionInv, Shown
<1> QED BY <1>1, <1>2, <1>3 DEF DecisionInv

\* Every step keeps the invariant.
LEMMA DecisionStepHolds == ASSUME Decided!DecisionAssumption, DecisionInv, [Decided!Next]_(Decided!vars)
  PROVE DecisionInv'
<1>1. Decided!TypeOK /\ JudgedInTime /\ Shown BY DEF DecisionInv
<1>2. ASSUME NEW c \in Handlers PROVE qdHandlers[c] \in Decided!Handler BY <1>1 DEF Decided!TypeOK
<1>3. Decided!Idle \in Decided!Handler /\ Decided!Idle.step = "idle"
  BY DEF Decided!Idle, Decided!Handler, Decided!Decisions, Decided!QuoteStates,
      Decided!DecisionAssumption
<1>4. ASSUME NEW c \in Handlers, Decided!Ask(c) PROVE DecisionInv'
  <2>1. PICK u \in Signers, d \in Decided!Decisions :
          qdHandlers' = [qdHandlers EXCEPT ![c] = [Decided!Idle EXCEPT !.step = "find", !.user = u, !.decision = d]]
    BY <1>4 DEF Decided!Ask
  <2> DEFINE h == [Decided!Idle EXCEPT !.step = "find", !.user = u, !.decision = d]
  <2>3. h \in Decided!Handler /\ h.step = "find" BY <1>3 DEF Decided!Idle, Decided!Handler
  <2>4. UNCHANGED <<qdStatus, qdSignedAt, qdNow, qdDecided>> BY <1>4 DEF Decided!Ask
  <2> HIDE DEF h
  <2> QED BY <2>1, <2>3, <2>4, HandlerGoesOn DEF h
<1>5. ASSUME NEW c \in Handlers, Decided!FindQuote(c) PROVE DecisionInv'
  <2> DEFINE h == [qdHandlers[c] EXCEPT !.step = "judge", !.read = qdStatus]
  <2>1. UNCHANGED <<qdStatus, qdSignedAt, qdNow, qdDecided>> BY <1>5 DEF Decided!FindQuote
  <2>2. h \in Decided!Handler /\ h.step = "judge"
    BY <1>1, <1>2 DEF Decided!Handler, Decided!TypeOK
  <2>3. CASE qdHandlers' = [qdHandlers EXCEPT ![c].step = "judge", ![c].read = qdStatus]
    <3>1. qdHandlers' = [qdHandlers EXCEPT ![c] = h]
      BY <2>3, <1>1 DEF Decided!TypeOK, Decided!Handler
    <3> HIDE DEF h
    <3> QED BY <3>1, <2>1, <2>2, HandlerGoesOn
  <2>4. CASE Decided!Return(c) BY <2>1, <2>4, <1>3, HandlerGoesOn DEF Decided!Return
  <2> QED BY <1>5, <2>3, <2>4 DEF Decided!FindQuote
<1>6. ASSUME NEW c \in Handlers, Decided!Judge(c) PROVE DecisionInv'
  <2> DEFINE h == [qdHandlers[c] EXCEPT !.step = "decide", !.at = qdNow]
  <2>1. UNCHANGED <<qdStatus, qdSignedAt, qdNow, qdDecided>> BY <1>6 DEF Decided!Judge
  <2>2. h \in Decided!Handler BY <1>1, <1>2 DEF Decided!Handler, Decided!TypeOK
  <2>3. CASE Decided!Judged(qdHandlers[c]) /\ qdHandlers' = [qdHandlers EXCEPT ![c].step = "decide", ![c].at = qdNow]
    <3>1. qdHandlers' = [qdHandlers EXCEPT ![c] = h]
      BY <2>3, <1>1 DEF Decided!TypeOK, Decided!Handler
    <3>2. h.decision = "accept" => h.at <= ValidUntil
      BY <2>3, <1>2 DEF Decided!Judged, Decided!IsQuoteAcceptable, Decided!Handler
    <3> HIDE DEF h
    <3> QED BY <3>1, <3>2, <2>1, <2>2, HandlerGoesOn
  <2>4. CASE Decided!Return(c) BY <2>1, <2>4, <1>3, HandlerGoesOn DEF Decided!Return
  <2> QED BY <1>6, <2>3, <2>4 DEF Decided!Judge
<1>7. ASSUME NEW c \in Handlers, Decided!Decide(c) PROVE DecisionInv'
  <2>1. qdHandlers[c].step = "decide" /\ qdNow' = qdNow /\ qdHandlers' = [qdHandlers EXCEPT ![c] = Decided!Idle]
    BY <1>7 DEF Decided!Decide, Decided!Return
  <2>2. CASE ~Decided!Decidable
    <3>1. UNCHANGED <<qdStatus, qdSignedAt, qdNow, qdDecided>> BY <1>7, <2>2 DEF Decided!Decide
    <3> QED BY <3>1, <2>1, <1>3, HandlerGoesOn
  <2>3. CASE Decided!Decidable
    <3>1. /\ qdStatus = "sent" /\ qdStatus' = Decided!TargetStatus[qdHandlers[c].decision]
          /\ qdSignedAt' = IF qdHandlers[c].decision = "accept" THEN qdHandlers[c].at ELSE qdSignedAt
          /\ qdDecided' = Append(qdDecided, qdHandlers[c].decision)
      BY <1>7, <2>3 DEF Decided!Decide, Decided!Decidable
    <3>2. qdDecided = <<>> /\ qdSignedAt = Nobody BY <1>1, <3>1 DEF Shown
    <3>3. qdHandlers[c].decision \in {"accept", "refuse"} /\ qdHandlers[c].at \in 0..MaxTime
      BY <1>2 DEF Decided!Handler, Decided!Decisions
    <3>4. qdDecided' = <<qdHandlers[c].decision>> BY <3>1, <3>2
    <3>5. /\ qdHandlers[c].decision = "accept" => qdStatus' = "accepted" /\ qdHandlers[c].at <= ValidUntil
          /\ qdHandlers[c].decision = "refuse" => qdStatus' = "refused"
      BY <1>1, <2>1, <3>1 DEF Decided!TargetStatus, JudgedInTime
    <3>6. Shown' BY <3>1, <3>2, <3>3, <3>4, <3>5 DEF Shown
    <3>7. qdDecided' \in Seq(Decided!Decisions) BY <3>3, <3>4 DEF Decided!Decisions
    <3>8. qdSignedAt' \in 0..MaxTime \cup {Nobody} /\ qdStatus' \in Decided!QuoteStates
      BY <3>1, <3>2, <3>3, <3>5 DEF Decided!QuoteStates
    <3>9. qdHandlers' \in [Handlers -> Decided!Handler] BY <1>1, <1>3, <2>1 DEF Decided!TypeOK
    <3>10. Decided!TypeOK' BY <1>1, <2>1, <3>7, <3>8, <3>9 DEF Decided!TypeOK
    <3>11. JudgedInTime' BY <1>1, <1>3, <2>1 DEF JudgedInTime, Decided!TypeOK
    <3> QED BY <3>6, <3>10, <3>11 DEF DecisionInv
  <2> QED BY <2>2, <2>3
<1>8. CASE Decided!OfficeMoves
  <2>1. PICK to \in {"sent", "expired"} : to \in Decided!QuoteTransitions[qdStatus] /\ qdStatus' = to
    BY <1>8 DEF Decided!OfficeMoves, Decided!CanTransitionQuote
  <2>2. UNCHANGED <<qdSignedAt, qdNow, qdHandlers, qdDecided>> BY <1>8 DEF Decided!OfficeMoves
  <2>3. qdStatus \notin {"accepted", "refused"} BY <2>1 DEF Decided!QuoteTransitions
  <2>4. Shown' BY <1>1, <2>1, <2>2, <2>3 DEF Shown
  <2>5. Decided!TypeOK' /\ JudgedInTime'
    BY <1>1, <2>1, <2>2 DEF Decided!TypeOK, Decided!QuoteStates, JudgedInTime
  <2> QED BY <2>4, <2>5 DEF DecisionInv
<1>9. CASE Decided!Tick
  <2>1. Decided!TypeOK' BY <1>1, <1>9 DEF Decided!Tick, Decided!TypeOK, Decided!DecisionAssumption
  <2>2. JudgedInTime' /\ Shown' BY <1>1, <1>9 DEF Decided!Tick, JudgedInTime, Shown
  <2> QED BY <2>1, <2>2 DEF DecisionInv
<1>10. CASE UNCHANGED Decided!vars
  BY <1>1, <1>10 DEF Decided!vars, DecisionInv, Decided!TypeOK, JudgedInTime, Shown
<1> QED BY <1>4, <1>5, <1>6, <1>7, <1>8, <1>9, <1>10 DEF Decided!Next

\* What the invariant is for.
LEMMA DecisionSafe == ASSUME Decided!DecisionAssumption, DecisionInv PROVE Decided!DecidedOnce
<1>1. Decided!TypeOK /\ Shown BY DEF DecisionInv
<1>2. Nobody \notin 0..MaxTime BY DEF Decided!DecisionAssumption
<1>3. CASE qdStatus = "accepted"
  <2>1. qdDecided = <<"accept">> /\ qdSignedAt \in 0..MaxTime /\ qdSignedAt <= ValidUntil
    BY <1>1, <1>3 DEF Shown
  <2> QED BY <2>1, <1>2, <1>3 DEF Decided!DecidedOnce
<1>4. CASE qdStatus = "refused"
  <2>1. qdDecided = <<"refuse">> /\ qdSignedAt = Nobody BY <1>1, <1>4 DEF Shown
  <2> QED BY <2>1, <1>4 DEF Decided!DecidedOnce
<1>5. CASE qdStatus \notin {"accepted", "refused"}
  <2>1. qdDecided = <<>> /\ qdSignedAt = Nobody BY <1>1, <1>5 DEF Shown
  <2> QED BY <2>1, <1>5 DEF Decided!DecidedOnce
<1> QED BY <1>3, <1>4, <1>5

-----------------------------------------------------------------------------
(* Totals and their breakdown by VAT rate (Money): any number of lines.    *)

\* The property is inductive with the types.
MoneyInv == Sums!TypeOK /\ Sums!TotalsAddUp

\* A rounded hundredth is within half a unit of the exact one.
LEMMA Rounded ==
  ASSUME NEW n \in Nat
  PROVE  /\ Sums!RoundedRatio(n, 100) \in Nat
         /\ 100 * Sums!RoundedRatio(n, 100) - n <= 50 /\ n - 100 * Sums!RoundedRatio(n, 100) <= 50
BY DEF Sums!RoundedRatio

\* A line that is taken: its amounts, and how far its VAT is from the rate of its base.
LEMMA LineIsSane ==
  ASSUME Sums!MoneyAssumption, NEW line \in Sums!Line, Sums!IsSane(line)
  PROVE  LET totals == Sums!LineTotals(line) IN
         /\ line.rate \in Sums!AllowedVatRates
         /\ totals.ht \in Nat /\ totals.vat \in Nat
         /\ 100 * totals.vat - totals.ht * line.rate <= 50
         /\ totals.ht * line.rate - 100 * totals.vat <= 50
<1>1. line.price \in Nat /\ line.qty \in Nat /\ line.rate \in Sums!AllowedVatRates
  <2>1. line.price \in Int /\ line.qty \in Int BY DEF Sums!Line, Sums!MoneyAssumption
  <2>2. line.price >= 0 /\ line.qty >= 0 /\ line.rate \in Sums!AllowedVatRates BY DEF Sums!IsSane
  <2> QED BY <2>1, <2>2
<1>2. line.price * line.qty \in Nat BY <1>1
<1> DEFINE ht == Sums!RoundedRatio(line.price * line.qty, 100)
           vat == Sums!RoundedRatio(ht * line.rate, 100)
<1>3. ht \in Nat BY <1>2, Rounded
<1>4. Sums!LineTotals(line).ht = ht /\ Sums!LineTotals(line).vat = vat BY DEF Sums!LineTotals
<1> HIDE DEF ht
<1>5. ht * line.rate \in Nat BY <1>1, <1>3 DEF Sums!AllowedVatRates
<1>6. vat \in Nat /\ 100 * vat - ht * line.rate <= 50 /\ ht * line.rate - 100 * vat <= 50
  BY <1>5, Rounded
<1> HIDE DEF vat
<1> QED BY <1>1, <1>3, <1>4, <1>6

LEMMA MoneyInit == ASSUME Sums!MoneyAssumption PROVE Sums!Init => MoneyInv
<1> SUFFICES ASSUME Sums!Init PROVE MoneyInv
  OBVIOUS
<1>1. moByRate = [rate \in Sums!AllowedVatRates |-> [base |-> 0, vat |-> 0]] /\ moAmountHt = 0 /\ moVatAmount = 0 /\ moLines = 0
  BY DEF Sums!Init
<1>2. Sums!TypeOK BY <1>1 DEF Sums!Init, Sums!TypeOK, Sums!Bucket, Sums!MoneyAssumption
<1>3. \A rate \in Sums!AllowedVatRates : moByRate[rate].base = 0 /\ moByRate[rate].vat = 0 BY <1>1
<1>4. Sums!TotalsAddUp BY <1>1, <1>3 DEF Sums!TotalsAddUp, Sums!Magnitude, Sums!AllowedVatRates
<1> QED BY <1>2, <1>4 DEF MoneyInv

\* A line adds the same amounts to the total and to the part of its rate.
LEMMA AddLineStep == ASSUME Sums!MoneyAssumption, MoneyInv, Sums!AddLine PROVE MoneyInv'
<1>1. PICK line \in Sums!Line :
        LET totals == Sums!LineTotals(line) IN
        /\ Sums!IsSane(line)
        /\ moAmountHt' = moAmountHt + totals.ht /\ moVatAmount' = moVatAmount + totals.vat
        /\ moByRate' = [moByRate EXCEPT ![line.rate] = [base |-> @.base + totals.ht, vat |-> @.vat + totals.vat]]
  BY DEF Sums!AddLine
<1>2. PICK ht, vat, rate : ht = Sums!LineTotals(line).ht /\ vat = Sums!LineTotals(line).vat /\ rate = line.rate
  OBVIOUS
<1>3. /\ rate \in Sums!AllowedVatRates /\ ht \in Nat /\ vat \in Nat
      /\ 100 * vat - ht * rate <= 50 /\ ht * rate - 100 * vat <= 50
  BY <1>1, <1>2, LineIsSane
<1>4. /\ moLines' = moLines + 1 /\ moLines < MaxLines /\ moState' = moState BY DEF Sums!AddLine
<1>5. /\ moLines \in Nat /\ moAmountHt \in Nat /\ moVatAmount \in Nat /\ MaxLines \in Nat
      /\ moByRate \in [Sums!AllowedVatRates -> Sums!Bucket] /\ moLines \in 0..MaxLines
  BY DEF MoneyInv, Sums!TypeOK, Sums!MoneyAssumption
<1>6. \A r \in Sums!AllowedVatRates : moByRate[r].base \in Nat /\ moByRate[r].vat \in Nat
  BY <1>5 DEF Sums!Bucket
<1>7. PICK old, new : old = moByRate[rate] /\ new = [base |-> old.base + ht, vat |-> old.vat + vat] OBVIOUS
<1>8. moByRate' = [moByRate EXCEPT ![rate] = new] BY <1>1, <1>2, <1>7
<1>9. new \in Sums!Bucket /\ new.base = moByRate[rate].base + ht /\ new.vat = moByRate[rate].vat + vat
  BY <1>3, <1>6, <1>7 DEF Sums!Bucket
<1>10. /\ moByRate' \in [Sums!AllowedVatRates -> Sums!Bucket]
       /\ moByRate'[rate].base = moByRate[rate].base + ht /\ moByRate'[rate].vat = moByRate[rate].vat + vat
       /\ \A r \in Sums!AllowedVatRates \ {rate} : moByRate'[r] = moByRate[r]
  BY <1>3, <1>5, <1>8, <1>9
<1>11. moAmountHt' = moAmountHt + ht /\ moVatAmount' = moVatAmount + vat BY <1>1, <1>2
<1>12. Sums!TypeOK' BY <1>3, <1>4, <1>5, <1>10, <1>11 DEF MoneyInv, Sums!TypeOK
<1>13. /\ moByRate[0].base + moByRate[6].base + moByRate[12].base + moByRate[21].base = moAmountHt
       /\ moByRate[0].vat + moByRate[6].vat + moByRate[12].vat + moByRate[21].vat = moVatAmount
  BY DEF MoneyInv, Sums!TotalsAddUp
<1>14. /\ moByRate'[0].base + moByRate'[6].base + moByRate'[12].base + moByRate'[21].base = moAmountHt'
       /\ moByRate'[0].vat + moByRate'[6].vat + moByRate'[12].vat + moByRate'[21].vat = moVatAmount'
  <2>0. {0, 6, 12, 21} = Sums!AllowedVatRates BY DEF Sums!AllowedVatRates
  <2>1. CASE rate = 0 BY <1>3, <1>6, <1>10, <1>11, <1>13, <2>0, <2>1
  <2>2. CASE rate = 6 BY <1>3, <1>6, <1>10, <1>11, <1>13, <2>0, <2>2
  <2>3. CASE rate = 12 BY <1>3, <1>6, <1>10, <1>11, <1>13, <2>0, <2>3
  <2>4. CASE rate = 21 BY <1>3, <1>6, <1>10, <1>11, <1>13, <2>0, <2>4
  <2> QED BY <1>3, <2>0, <2>1, <2>2, <2>3, <2>4
<1>15. ASSUME NEW r \in Sums!AllowedVatRates
       PROVE  Sums!Magnitude(100 * moByRate'[r].vat - moByRate'[r].base * r) <= 50 * moLines'
  <2>0. r \in Nat BY DEF Sums!AllowedVatRates
  <2>1. PICK b, v \in Nat : b = moByRate[r].base /\ v = moByRate[r].vat BY <1>6
  <2>2. Sums!Magnitude(100 * v - b * r) <= 50 * moLines BY <2>1 DEF MoneyInv, Sums!TotalsAddUp
  <2>3. b * r \in Nat BY <2>0, <2>1
  <2>4. 100 * v - b * r <= 50 * moLines /\ b * r - 100 * v <= 50 * moLines
    BY <1>5, <2>1, <2>2, <2>3 DEF Sums!Magnitude
  <2>5. CASE r = rate
    <3>1. moByRate'[r].base = b + ht /\ moByRate'[r].vat = v + vat BY <1>10, <2>1, <2>5
    <3>2. (b + ht) * r = b * r + ht * r /\ ht * r \in Nat BY <1>3, <2>0, <2>1
    <3>3. 100 * vat - ht * r <= 50 /\ ht * r - 100 * vat <= 50 BY <1>3, <2>5
    <3>4. /\ 100 * (v + vat) - (b + ht) * r <= 50 * (moLines + 1)
          /\ (b + ht) * r - 100 * (v + vat) <= 50 * (moLines + 1)
      BY <1>3, <1>5, <2>1, <2>3, <2>4, <3>2, <3>3
    <3>5. (b + ht) * r \in Nat /\ v + vat \in Nat BY <1>3, <2>0, <2>1
    <3>6. Sums!Magnitude(100 * (v + vat) - (b + ht) * r) <= 50 * (moLines + 1)
      BY <1>5, <3>4, <3>5 DEF Sums!Magnitude
    <3> QED BY <1>4, <3>1, <3>6
  <2>6. CASE r # rate
    <3>1. Sums!Magnitude(100 * v - b * r) <= 50 * (moLines + 1)
      BY <1>5, <2>1, <2>3, <2>4 DEF Sums!Magnitude
    <3>2. moByRate'[r] = moByRate[r] BY <1>10, <2>6
    <3> QED BY <1>4, <2>1, <3>1, <3>2
  <2> QED BY <2>5, <2>6
<1>16. Sums!TotalsAddUp' BY <1>14, <1>15 DEF Sums!TotalsAddUp
<1> QED BY <1>12, <1>16 DEF MoneyInv

\* Every step keeps the invariant.
LEMMA MoneyStep == ASSUME Sums!MoneyAssumption, MoneyInv, [Sums!Next]_(Sums!vars) PROVE MoneyInv'
<1>1. CASE Sums!AddLine BY <1>1, AddLineStep
<1>2. CASE Sums!RefuseLine \/ UNCHANGED Sums!vars
  <2>1. UNCHANGED <<moLines, moAmountHt, moVatAmount, moByRate>> /\ moState' \in {"adding", "refused"}
    BY <1>2 DEF Sums!RefuseLine, Sums!vars, MoneyInv, Sums!TypeOK
  <2> QED BY <2>1 DEF MoneyInv, Sums!TypeOK, Sums!TotalsAddUp
<1> QED BY <1>1, <1>2 DEF Sums!Next

-----------------------------------------------------------------------------
(* Lifetime of a session (SessionLife).  What lags behind in the row is at *)
(* most the time a touch may be skipped, or the time two late requests     *)
(* take.                                                                   *)

\* How far the last use may be ahead of the last one noted.
Note == IF TouchInterval > 2 * MaxDelay THEN TouchInterval ELSE 2 * MaxDelay
\* What a request was told.
Verdicts == [reason : {"accepted", "closed", "expired", "idle-timeout"}, at : Lives!Times, before : Lives!Times]

\* What is noted lags behind what was used, by no more than Note.
Lags(noted, last) == noted <= last /\ last - noted <= Note

\* A request that is under way started a moment ago; the time noted since then is not
\* older than the one it read, or than what a request that overlaps it could note.
UnderWay ==
  \A c \in Handlers : slRequests[c].step # "idle" =>
    LET r == slRequests[c] IN
    /\ r.start <= slNow /\ slNow - r.start <= MaxDelay
    /\ r.step = "touch" => r.start <= r.at /\ r.at <= slNow
    /\ Lags(r.row.lastSeenAt, r.before)
    /\ slLastSeenAt >= r.row.lastSeenAt \/ slLastSeenAt >= r.start - MaxDelay

\* Together, inductive.
LifeInv ==
  /\ Lives!TypeOK /\ slVerdict \in Verdicts
  /\ Lags(slLastSeenAt, slUsed) /\ slUsed <= slNow
  /\ UnderWay
  /\ Lives!TimeoutsHold

\* The constants are numbers.
LEMMA LifeFacts ==
  ASSUME Lives!LifeAssumption
  PROVE  /\ TouchInterval \in Nat /\ MaxAge \in Nat /\ MaxDelay \in Nat /\ Note \in Nat
         /\ Note >= TouchInterval /\ Note >= 2 * MaxDelay
         /\ Lives!Times \subseteq Nat
         /\ \A r \in Roles : IdleTimeout[r] \in Nat /\ AbsoluteTimeout[r] \in Nat
BY DEF Lives!LifeAssumption, Note, Lives!Times

\* Types, variable by variable.
LEMMA LifeTypes ==
  ASSUME Lives!LifeAssumption, LifeInv
  PROVE  /\ slNow \in Lives!Times /\ slCreatedAt \in Lives!Times /\ slLastSeenAt \in Lives!Times /\ slUsed \in Lives!Times
         /\ IdleTimeout[slRole] \in Nat /\ AbsoluteTimeout[slRole] \in Nat
         /\ \A c \in Handlers : slRequests[c] \in Lives!Request
         /\ \A c \in Handlers : /\ slRequests[c].start \in Nat /\ slRequests[c].at \in Nat
                                /\ slRequests[c].before \in Nat /\ slRequests[c].row.lastSeenAt \in Nat
                                /\ slRequests[c].row \in Lives!Row
         /\ slNow \in Nat /\ slCreatedAt \in Nat /\ slLastSeenAt \in Nat /\ slUsed \in Nat
<1>1. /\ slNow \in Lives!Times /\ slCreatedAt \in Lives!Times /\ slLastSeenAt \in Lives!Times /\ slUsed \in Lives!Times /\ slRole \in Roles
      /\ slRequests \in [Handlers -> Lives!Request]
  BY DEF LifeInv, Lives!TypeOK
<1>2. \A c \in Handlers : slRequests[c] \in Lives!Request BY <1>1
<1>3. \A q \in Lives!Request : q.start \in Lives!Times /\ q.at \in Lives!Times /\ q.before \in Lives!Times /\ q.row \in Lives!Row
  BY DEF Lives!Request
<1>4. \A r \in Lives!Row : r.lastSeenAt \in Lives!Times BY DEF Lives!Row
<1> QED BY <1>1, <1>2, <1>3, <1>4, LifeFacts

LEMMA IdleFacts == ASSUME Lives!LifeAssumption
  PROVE Lives!Idle \in Lives!Request /\ Lives!Idle.step = "idle"
BY LifeFacts DEF Lives!Idle, Lives!Request, Lives!Row, Lives!Times

\* The fields of a request that was accepted.
LEMMA Accepting ==
  ASSUME NEW q \in Lives!Request, NEW t \in Lives!Times
  PROVE  [q EXCEPT !.step = "touch", !.at = t]
           = [step |-> "touch", start |-> q.start, at |-> t, row |-> q.row, before |-> q.before]
<1> DEFINE p == [q EXCEPT !.step = "touch"]
<1>1. p = [step |-> "touch", start |-> q.start, at |-> q.at, row |-> q.row, before |-> q.before]
  BY DEF Lives!Request
<1> HIDE DEF p
<1>2. [p EXCEPT !.at = t]
        = [step |-> "touch", start |-> q.start, at |-> t, row |-> q.row, before |-> q.before]
  BY <1>1
<1> QED BY <1>2 DEF p

LEMMA LifeInit == ASSUME Lives!LifeAssumption PROVE Lives!Init => LifeInv
<1> SUFFICES ASSUME Lives!Init PROVE LifeInv
  OBVIOUS
<1>1. 0 \in Lives!Times BY LifeFacts DEF Lives!Times
<1>2. slExpiresAt \in Nat BY LifeFacts DEF Lives!Init
<1>3. slRequests \in [Handlers -> Lives!Request] BY IdleFacts DEF Lives!Init
<1>4. Lives!TypeOK BY <1>1, <1>2, <1>3 DEF Lives!Init, Lives!TypeOK
<1>5. slVerdict \in Verdicts BY <1>1 DEF Lives!Init, Verdicts
<1>6. Lags(slLastSeenAt, slUsed) /\ slUsed <= slNow BY LifeFacts DEF Lives!Init, Lags
<1>7. UnderWay BY IdleFacts DEF Lives!Init, UnderWay
<1>8. Lives!TimeoutsHold BY LifeFacts DEF Lives!Init, Lives!TimeoutsHold
<1> QED BY <1>4, <1>5, <1>6, <1>7, <1>8 DEF LifeInv

\* Frame of the steps that leave the note and the verdict alone.
LEMMA RequestGoesOn ==
  ASSUME Lives!LifeAssumption, LifeInv, NEW c \in Handlers, NEW r \in Lives!Request,
         slRequests' = [slRequests EXCEPT ![c] = r],
         UNCHANGED <<slNow, slRole, slCreatedAt, slExpiresAt, slLastSeenAt, slRevokedAt, slEnabled, slUsed>>,
         slVerdict' \in Verdicts, Lives!TimeoutsHold',
         r.step # "idle" =>
           /\ r.start <= slNow /\ slNow - r.start <= MaxDelay
           /\ r.step = "touch" => r.start <= r.at /\ r.at <= slNow
           /\ Lags(r.row.lastSeenAt, r.before)
           /\ slLastSeenAt >= r.row.lastSeenAt \/ slLastSeenAt >= r.start - MaxDelay
  PROVE  LifeInv'
<1>1. Lives!TypeOK /\ UnderWay /\ Lags(slLastSeenAt, slUsed) /\ slUsed <= slNow BY DEF LifeInv
<1>2. slRequests' \in [Handlers -> Lives!Request] BY <1>1 DEF Lives!TypeOK
<1>3. slVerdict'.reason \in {"accepted", "closed", "expired", "idle-timeout"} BY DEF Verdicts
<1>4. Lives!TypeOK' BY <1>1, <1>2, <1>3 DEF Lives!TypeOK
<1>5. UnderWay'
  <2> SUFFICES ASSUME NEW d \in Handlers, slRequests'[d].step # "idle"
               PROVE  /\ slRequests'[d].start <= slNow /\ slNow - slRequests'[d].start <= MaxDelay
                      /\ slRequests'[d].step = "touch" =>
                           slRequests'[d].start <= slRequests'[d].at /\ slRequests'[d].at <= slNow
                      /\ Lags(slRequests'[d].row.lastSeenAt, slRequests'[d].before)
                      /\ \/ slLastSeenAt >= slRequests'[d].row.lastSeenAt
                         \/ slLastSeenAt >= slRequests'[d].start - MaxDelay
    BY DEF UnderWay
  <2>1. CASE d = c
    <3>1. slRequests'[d] = r BY <2>1, <1>1 DEF Lives!TypeOK
    <3> QED BY <3>1
  <2>2. CASE d # c
    <3>1. slRequests'[d] = slRequests[d] BY <2>2, <1>1 DEF Lives!TypeOK
    <3> QED BY <3>1, <1>1 DEF UnderWay
  <2> QED BY <2>1, <2>2
<1>6. Lags(slLastSeenAt, slUsed)' /\ (slUsed <= slNow)' BY <1>1 DEF Lags
<1> QED BY <1>4, <1>5, <1>6 DEF LifeInv

LEMMA ResolveLives ==
  ASSUME Lives!LifeAssumption, LifeInv, NEW c \in Handlers, Lives!Resolve(c) PROVE LifeInv'
<1>1. Lives!TypeOK /\ Lags(slLastSeenAt, slUsed) /\ slUsed <= slNow /\ Lives!TimeoutsHold /\ slVerdict \in Verdicts
  BY DEF LifeInv
<1>2. UNCHANGED <<slNow, slRole, slCreatedAt, slExpiresAt, slLastSeenAt, slRevokedAt, slEnabled, slUsed>>
  BY DEF Lives!Resolve
<1>3. CASE slRevokedAt = Nobody /\ slEnabled
  <2> DEFINE r == [step |-> "judge", start |-> slNow, at |-> 0, before |-> slUsed,
                   row |-> [expiresAt |-> slExpiresAt, lastSeenAt |-> slLastSeenAt]]
  <2>1. slRequests' = [slRequests EXCEPT ![c] = r] /\ slVerdict' = slVerdict
    BY <1>3 DEF Lives!Resolve
  <2>2. [expiresAt |-> slExpiresAt, lastSeenAt |-> slLastSeenAt] \in Lives!Row
    BY <1>1, LifeTypes DEF Lives!Row, Lives!TypeOK
  <2>3. 0 \in Lives!Times BY LifeFacts DEF Lives!Times
  <2>4. r \in Lives!Request BY <2>2, <2>3, LifeTypes DEF Lives!Request
  <2>5. r.step = "judge" /\ r.start = slNow /\ r.before = slUsed /\ r.row.lastSeenAt = slLastSeenAt
    OBVIOUS
  <2>6. Lives!TimeoutsHold' BY <1>1, <1>2, <2>1 DEF Lives!TimeoutsHold
  <2> HIDE DEF r
  <2>7. r.start <= slNow /\ slNow - r.start <= MaxDelay /\ slLastSeenAt >= r.row.lastSeenAt
    BY <2>5, LifeTypes, LifeFacts
  <2>8. Lags(r.row.lastSeenAt, r.before) BY <1>1, <2>5
  <2>9. slVerdict' \in Verdicts BY <1>1, <2>1
  <2> QED BY <1>2, <2>1, <2>4, <2>5, <2>6, <2>7, <2>8, <2>9, RequestGoesOn
<1>4. CASE ~(slRevokedAt = Nobody /\ slEnabled)
  <2>1. slVerdict' = [reason |-> "closed", at |-> slNow, before |-> slUsed] /\ slRequests' = slRequests
    BY <1>4 DEF Lives!Resolve
  <2>2. slVerdict' \in Verdicts BY <2>1, LifeTypes DEF Verdicts
  <2>3. Lives!TimeoutsHold' BY <2>1 DEF Lives!TimeoutsHold
  <2>4. Lives!TypeOK' BY <1>1, <1>2, <2>1 DEF Lives!TypeOK
  <2>5. UnderWay' BY <1>2, <2>1 DEF LifeInv, UnderWay
  <2>6. Lags(slLastSeenAt, slUsed)' /\ (slUsed <= slNow)' BY <1>1, <1>2 DEF Lags
  <2> QED BY <2>2, <2>3, <2>4, <2>5, <2>6 DEF LifeInv
<1> QED BY <1>3, <1>4

LEMMA JudgeLives ==
  ASSUME Lives!LifeAssumption, LifeInv, NEW c \in Handlers, Lives!Judge(c) PROVE LifeInv'
<1> DEFINE row == slRequests[c].row
           before == slRequests[c].before
           reason == IF Lives!Expired(row) THEN "expired"
                     ELSE IF Lives!IdleTooLong(row) THEN "idle-timeout" ELSE "accepted"
<1>1. /\ slRequests[c].step = "judge"
      /\ slVerdict' = [reason |-> reason, at |-> slNow, before |-> before]
      /\ slRequests' = [slRequests EXCEPT ![c] =
           IF reason = "accepted" THEN [slRequests[c] EXCEPT !.step = "touch", !.at = slNow] ELSE Lives!Idle]
      /\ UNCHANGED <<slNow, slRole, slCreatedAt, slExpiresAt, slLastSeenAt, slRevokedAt, slEnabled, slUsed>>
  <2>1. slRequests \in [Handlers -> Lives!Request] BY DEF LifeInv, Lives!TypeOK
  <2> QED BY <2>1 DEF Lives!Judge
<1>2. /\ slRequests[c].start <= slNow /\ slNow - slRequests[c].start <= MaxDelay
      /\ Lags(row.lastSeenAt, before)
      /\ slLastSeenAt >= row.lastSeenAt \/ slLastSeenAt >= slRequests[c].start - MaxDelay
  BY <1>1 DEF LifeInv, UnderWay
<1>3. slRequests[c] \in Lives!Request /\ row.lastSeenAt \in Nat /\ before \in Nat /\ slNow \in Nat
      /\ slNow \in Lives!Times /\ before \in Lives!Times
  BY LifeTypes DEF Lives!Request
<1>4. reason \in {"accepted", "expired", "idle-timeout"} OBVIOUS
<1>5. slVerdict' \in Verdicts BY <1>1, <1>3, <1>4 DEF Verdicts
<1>6. /\ reason = "accepted" => slNow - row.lastSeenAt <= IdleTimeout[slRole] /\ slNow - slCreatedAt <= AbsoluteTimeout[slRole]
      /\ reason = "idle-timeout" => slNow - row.lastSeenAt > IdleTimeout[slRole]
  <2>1. reason = "accepted" => ~Lives!Expired(row) /\ ~Lives!IdleTooLong(row) OBVIOUS
  <2>2. reason = "idle-timeout" => Lives!IdleTooLong(row) OBVIOUS
  <2> HIDE DEF reason, row
  <2>3. slNow - row.lastSeenAt \in Int /\ slNow - slCreatedAt \in Int BY <1>3, LifeTypes
  <2> QED BY <2>1, <2>2, <2>3, LifeTypes DEF Lives!Expired, Lives!IdleTooLong
<1>7. Lives!TimeoutsHold'
  <2> HIDE DEF reason, row, before
  <2>1. slVerdict'.reason = reason /\ slVerdict'.at = slNow /\ slVerdict'.before = before BY <1>1
  <2>2. row.lastSeenAt <= before /\ before - row.lastSeenAt <= Note BY <1>2 DEF Lags
  <2>3. reason = "accepted" => slNow - before <= IdleTimeout[slRole]
    BY <1>3, <1>6, <2>2, LifeTypes
  <2>4. reason = "idle-timeout" => slNow - before + Note > IdleTimeout[slRole]
    BY <1>3, <1>6, <2>2, LifeTypes, LifeFacts
  <2>5. slRole' = slRole /\ slCreatedAt' = slCreatedAt BY <1>1
  <2> QED BY <1>6, <2>1, <2>3, <2>4, <2>5 DEF Lives!TimeoutsHold, Note
<1>8. CASE reason = "accepted"
  <2> DEFINE r == [step |-> "touch", start |-> slRequests[c].start, at |-> slNow,
                   row |-> slRequests[c].row, before |-> slRequests[c].before]
  <2>1. [slRequests[c] EXCEPT !.step = "touch", !.at = slNow] = r BY <1>3, Accepting
  <2>2. slRequests' = [slRequests EXCEPT ![c] = r] BY <1>1, <1>8, <2>1
  <2>3. r \in Lives!Request BY <1>3 DEF Lives!Request
  <2>4. /\ r.step = "touch" /\ r.at = slNow
        /\ r.start = slRequests[c].start /\ r.row = row /\ r.before = before
    OBVIOUS
  <2> HIDE DEF r, row, before, reason
  <2>5. slNow <= slNow BY <1>3
  <2> QED BY <1>1, <1>2, <1>5, <1>7, <2>2, <2>3, <2>4, <2>5, RequestGoesOn
<1>9. CASE reason # "accepted"
  <2>1. slRequests' = [slRequests EXCEPT ![c] = Lives!Idle] BY <1>1, <1>9
  <2> HIDE DEF row, before, reason
  <2> QED BY <1>1, <1>5, <1>7, <2>1, IdleFacts, RequestGoesOn
<1> QED BY <1>8, <1>9

LEMMA TouchLives ==
  ASSUME Lives!LifeAssumption, LifeInv, NEW c \in Handlers, Lives!Touch(c) PROVE LifeInv'
<1> DEFINE r == slRequests[c]
<1>1. /\ r.step = "touch"
      /\ slLastSeenAt' = IF r.at - r.row.lastSeenAt < TouchInterval THEN slLastSeenAt ELSE r.at
      /\ slUsed' = IF r.at > slUsed THEN r.at ELSE slUsed
      /\ slRequests' = [slRequests EXCEPT ![c] = Lives!Idle]
      /\ UNCHANGED <<slNow, slRole, slCreatedAt, slExpiresAt, slRevokedAt, slEnabled, slVerdict>>
  BY DEF Lives!Touch, Lives!SeenLately
<1>2. Lives!TypeOK /\ UnderWay /\ Lags(slLastSeenAt, slUsed) /\ slUsed <= slNow /\ Lives!TimeoutsHold /\ slVerdict \in Verdicts
  BY DEF LifeInv
<1>3. /\ r.start <= slNow /\ slNow - r.start <= MaxDelay /\ r.start <= r.at /\ r.at <= slNow
      /\ Lags(r.row.lastSeenAt, r.before)
      /\ slLastSeenAt >= r.row.lastSeenAt \/ slLastSeenAt >= r.start - MaxDelay
  BY <1>1, <1>2 DEF UnderWay
<1>4. r.at \in Lives!Times /\ r.at \in Nat /\ r.start \in Nat /\ r.row.lastSeenAt \in Nat
  BY LifeTypes DEF Lives!Request
<1> HIDE DEF r
<1>5. slUsed' <= slNow /\ slLastSeenAt' <= slUsed' /\ slUsed' \in Lives!Times /\ slLastSeenAt' \in Lives!Times
  BY <1>1, <1>2, <1>3, <1>4, LifeTypes DEF Lags
<1>6. slUsed' - slLastSeenAt' <= Note
  <2>1. slLastSeenAt <= slUsed /\ slUsed - slLastSeenAt <= Note BY <1>2 DEF Lags
  <2>2. CASE r.at - r.row.lastSeenAt < TouchInterval
    <3>1. slLastSeenAt' = slLastSeenAt BY <1>1, <2>2
    <3>2. r.at - slLastSeenAt <= Note
      <4>1. CASE slLastSeenAt >= r.row.lastSeenAt
        BY <4>1, <1>4, <2>2, LifeTypes, LifeFacts
      <4>2. CASE slLastSeenAt >= r.start - MaxDelay
        <5>1. r.at - slLastSeenAt <= 2 * MaxDelay
          BY <4>2, <1>3, <1>4, LifeTypes, LifeFacts
        <5> QED BY <5>1, <1>4, LifeTypes, LifeFacts
      <4> QED BY <1>3, <4>1, <4>2
    <3> QED BY <1>1, <2>1, <3>1, <3>2
  <2>3. CASE ~(r.at - r.row.lastSeenAt < TouchInterval)
    <3>1. slLastSeenAt' = r.at BY <1>1, <2>3
    <3>2. slNow - r.at <= MaxDelay BY <1>3, <1>4, LifeTypes, LifeFacts
    <3> QED BY <1>3, <1>4, <1>5, <3>1, <3>2, LifeTypes, LifeFacts
  <2> QED BY <2>2, <2>3
<1>7. slRequests' \in [Handlers -> Lives!Request] BY <1>1, <1>2, IdleFacts DEF Lives!TypeOK
<1>8. Lives!TypeOK' BY <1>1, <1>2, <1>5, <1>7 DEF Lives!TypeOK
<1>9. UnderWay'
  <2> SUFFICES ASSUME NEW d \in Handlers, slRequests'[d].step # "idle"
               PROVE  /\ slRequests'[d].start <= slNow /\ slNow - slRequests'[d].start <= MaxDelay
                      /\ slRequests'[d].step = "touch" =>
                           slRequests'[d].start <= slRequests'[d].at /\ slRequests'[d].at <= slNow
                      /\ Lags(slRequests'[d].row.lastSeenAt, slRequests'[d].before)
                      /\ \/ slLastSeenAt' >= slRequests'[d].row.lastSeenAt
                         \/ slLastSeenAt' >= slRequests'[d].start - MaxDelay
    BY <1>1 DEF UnderWay
  <2>1. d # c BY <1>1, <1>2, IdleFacts DEF Lives!TypeOK
  <2>2. slRequests'[d] = slRequests[d] BY <2>1, <1>1, <1>2 DEF Lives!TypeOK
  <2>3. /\ slRequests[d].start <= slNow /\ slNow - slRequests[d].start <= MaxDelay
        /\ slRequests[d].step = "touch" => slRequests[d].start <= slRequests[d].at /\ slRequests[d].at <= slNow
        /\ Lags(slRequests[d].row.lastSeenAt, slRequests[d].before)
        /\ slLastSeenAt >= slRequests[d].row.lastSeenAt \/ slLastSeenAt >= slRequests[d].start - MaxDelay
    BY <1>2, <2>2 DEF UnderWay
  <2>4. slRequests[d].start \in Nat /\ slRequests[d].row.lastSeenAt \in Nat BY LifeTypes
  <2>5. r.at >= slRequests[d].start - MaxDelay
    BY <1>3, <1>4, <2>3, <2>4, LifeTypes, LifeFacts
  <2>6. slLastSeenAt' = slLastSeenAt \/ slLastSeenAt' = r.at BY <1>1
  <2> QED BY <2>2, <2>3, <2>5, <2>6
<1>10. Lives!TimeoutsHold' BY <1>1, <1>2 DEF Lives!TimeoutsHold
<1>11. Lags(slLastSeenAt, slUsed)' /\ (slUsed <= slNow)' BY <1>1, <1>5, <1>6 DEF Lags
<1> QED BY <1>1, <1>2, <1>8, <1>9, <1>10, <1>11 DEF LifeInv

\* Every step keeps the invariant.
LEMMA LifeStep == ASSUME Lives!LifeAssumption, LifeInv, [Lives!Next]_(Lives!vars) PROVE LifeInv'
<1>1. Lives!TypeOK /\ UnderWay /\ Lags(slLastSeenAt, slUsed) /\ slUsed <= slNow /\ Lives!TimeoutsHold /\ slVerdict \in Verdicts
  BY DEF LifeInv
<1>2. ASSUME UNCHANGED <<slNow, slRole, slCreatedAt, slLastSeenAt, slRequests, slUsed, slVerdict, slExpiresAt>>,
             slRevokedAt' \in Lives!Times \cup {Nobody}, slEnabled' \in BOOLEAN
      PROVE  LifeInv'
  <2>1. Lives!TypeOK' BY <1>1, <1>2 DEF Lives!TypeOK
  <2>2. UnderWay' BY <1>1, <1>2 DEF UnderWay
  <2>3. Lives!TimeoutsHold' BY <1>1, <1>2 DEF Lives!TimeoutsHold
  <2>4. Lags(slLastSeenAt, slUsed)' /\ (slUsed <= slNow)' /\ (slVerdict \in Verdicts)'
    BY <1>1, <1>2 DEF Lags
  <2> QED BY <2>1, <2>2, <2>3, <2>4 DEF LifeInv
<1>3. slRevokedAt \in Lives!Times \cup {Nobody} /\ slEnabled \in BOOLEAN BY <1>1 DEF Lives!TypeOK
<1>4. CASE Lives!Revoke
  <2>1. slRevokedAt' = slNow BY <1>4 DEF Lives!Revoke
  <2> QED BY <1>2, <1>3, <1>4, <2>1, LifeTypes DEF Lives!Revoke
<1>5. CASE Lives!Decide BY <1>2, <1>3, <1>5 DEF Lives!Decide
<1>6. CASE Lives!Tick
  <2>1. UNCHANGED <<slRole, slCreatedAt, slExpiresAt, slLastSeenAt, slRevokedAt, slEnabled, slRequests, slUsed, slVerdict>>
        /\ slNow' = slNow + 1 /\ slNow' \in Lives!Times
    BY <1>6, LifeTypes, LifeFacts DEF Lives!Tick, Lives!Times
  <2>2. Lives!TypeOK' BY <1>1, <2>1 DEF Lives!TypeOK
  <2>3. UnderWay'
    <3> SUFFICES ASSUME NEW c \in Handlers, slRequests[c].step # "idle"
                 PROVE  /\ slRequests[c].start <= slNow' /\ slNow' - slRequests[c].start <= MaxDelay
                        /\ slRequests[c].step = "touch" =>
                             slRequests[c].start <= slRequests[c].at /\ slRequests[c].at <= slNow'
                        /\ Lags(slRequests[c].row.lastSeenAt, slRequests[c].before)
                        /\ \/ slLastSeenAt >= slRequests[c].row.lastSeenAt
                           \/ slLastSeenAt >= slRequests[c].start - MaxDelay
      BY <2>1 DEF UnderWay
    <3>1. slNow' - slRequests[c].start <= MaxDelay BY <1>6 DEF Lives!Tick
    <3> QED BY <1>1, <2>1, <3>1, LifeTypes DEF UnderWay
  <2>4. Lives!TimeoutsHold' BY <1>1, <2>1 DEF Lives!TimeoutsHold
  <2>5. Lags(slLastSeenAt, slUsed)' /\ (slUsed <= slNow)' /\ (slVerdict \in Verdicts)'
    BY <1>1, <2>1, LifeTypes DEF Lags
  <2> QED BY <2>2, <2>3, <2>4, <2>5 DEF LifeInv
<1>7. CASE UNCHANGED Lives!vars BY <1>2, <1>3, <1>7 DEF Lives!vars
<1> QED BY <1>4, <1>5, <1>6, <1>7, ResolveLives, JudgeLives, TouchLives DEF Lives!Next

-----------------------------------------------------------------------------
(* Quotas of requests (RateLimits), for any number of servers and of       *)
(* requests. A request that passes uses up a count of the store, or one of *)
(* the memory of a server: the requests passed in a window are at most the *)
(* counts given out.                                                       *)

\* Sizes of sets, as the module takes them.
LEMMA LimitsSize == \A S : Limits!Cardinality(S) = Cardinality(S)
BY DEF Cardinality, Limits!Cardinality

LEMMA ServersAreFinite == ASSUME Limits!RateAssumption PROVE IsFiniteSet(Servers)
BY DEF Limits!RateAssumption, IsFiniteSet, Limits!IsFiniteSet

\* The requests a memory let through that still has the counter of them.
Tokens(q, w) ==
  {p \in Servers \X (1..MaxRequests) :
     \E x \in rlMemory[p[1]] : x.key = <<q, w>> /\ p[2] <= x.count}

\* The requests the shared store let through.
ByStore(q, w) == IF rlShared[q][w] <= MaxRequests THEN rlShared[q][w] ELSE MaxRequests

\* A window of a quota is over: nothing counts in it any more.
Over(q, w) ==
  /\ w < Limits!WindowOf(rlNow)
  /\ \A c \in Handlers : rlAsking[c] # Limits!Free => <<rlAsking[c].quota, Limits!WindowOf(rlAsking[c].time)>> # <<q, w>>

\* The requests passed are at most the counts given out: by the store, in each of its lives,
\* and by the memory of each server.
Accounted(q, w) ==
  rlPassed[q][w] <= ByStore(q, w) + MaxRequests * rlResets + Cardinality(Tokens(q, w))

\* The quota, once for the store and once for each memory.
Within(q, w) ==
  rlPassed[q][w] <= MaxRequests * (Limits!Memories + IF rlStore = "none" THEN 0 ELSE 1)

\* A request asks the store there is, at a time that has come.
AskingInv ==
  \A c \in Handlers :
    rlAsking[c] # Limits!Free =>
      /\ rlAsking[c].at \in (IF rlStore = "none" THEN {"local"} ELSE IF rlStore = "steady" THEN {"shared"} ELSE {"shared", "local"})
      /\ rlAsking[c].instance \in Servers /\ rlAsking[c].quota \in Quotas
      /\ rlAsking[c].time \in 0..MaxTime /\ rlAsking[c].time <= rlNow

\* A record of a memory.
Record == [key : Quotas \X Limits!Windows, count : Nat \ {0}, resetAt : Window..(MaxTime + Window)]

\* A memory has one record at most for a key, of the window it was made in.
MemoryInv ==
  /\ rlMemory \in [Servers -> SUBSET Record]
  /\ \A i \in Servers :
       /\ \A x \in rlMemory[i] : \E t \in 0..MaxTime : x.resetAt = t + Window /\ Limits!WindowOf(t) = x.key[2]
       /\ \A x, y \in rlMemory[i] : x.key = y.key => x = y

\* Without a store nothing is counted there; a store that never fails leaves the memories empty.
StoreInv ==
  /\ rlStore = "none" => \A q \in Quotas, w \in Limits!Windows : rlShared[q][w] = 0
  /\ rlStore = "steady" => rlResets = 0 /\ \A i \in Servers : rlMemory[i] = {}

\* Together, inductive.  A window that is over keeps its quota; the current one keeps its account.
LimitsInv ==
  /\ Limits!TypeOK /\ AskingInv /\ MemoryInv /\ StoreInv
  /\ \A q \in Quotas, w \in Limits!Windows : (Over(q, w) /\ Within(q, w)) \/ Accounted(q, w)

-----------------------------------------------------------------------------

\* Windows follow one another, each as long as the others.
LEMMA WindowsOfTimes ==
  ASSUME Limits!RateAssumption
  PROVE  /\ \A t \in 0..MaxTime : Limits!WindowOf(t) \in Limits!Windows
         /\ \A s, t \in Nat : s + Window <= t => Limits!WindowOf(s) < Limits!WindowOf(t)
         /\ \A s, t \in Nat : s <= t => Limits!WindowOf(s) <= Limits!WindowOf(t)
         /\ \A t \in Nat : Limits!WindowOf(t) \in Nat
<1>0. Window \in Nat /\ Window > 0 /\ MaxTime \in Nat BY DEF Limits!RateAssumption
<1>1. ASSUME NEW t \in Nat PROVE /\ t \div Window \in Nat
                                 /\ Window * (t \div Window) <= t /\ t < Window * (t \div Window) + Window
  BY <1>0
<1>2. ASSUME NEW a \in Nat, NEW b \in Nat, NEW s \in Nat, NEW t \in Nat, s <= t,
             Window * a <= s, t < Window * b + Window
      PROVE  a <= b
  <2>1. CASE a >= b + 1
    <3>1. PICK d \in Nat : a = b + 1 + d BY <2>1
    <3>2. Window * a = Window * b + Window + Window * d BY <1>0, <3>1
    <3>3. Window * d >= 0 BY <1>0
    <3> QED BY <1>0, <1>2, <3>2, <3>3
  <2> QED BY <2>1
<1>3. \A s, t \in Nat : s <= t => s \div Window <= t \div Window
  BY <1>1, <1>2
<1>4. ASSUME NEW s \in Nat, NEW t \in Nat, s + Window <= t PROVE s \div Window < t \div Window
  <2>1. Window * ((s \div Window) + 1) <= s + Window BY <1>0, <1>1
  <2>2. (s \div Window) + 1 <= t \div Window
    BY <1>0, <1>1, <1>2, <1>4, <2>1
  <2> QED BY <1>1, <2>2
<1> QED BY <1>0, <1>1, <1>3, <1>4 DEF Limits!WindowOf, Limits!Windows

\* What the sizes of sets of tokens say of one another.
LEMMA Counting ==
  ASSUME NEW S, NEW T, NEW P, NEW m \in Nat, IsFiniteSet(S), IsFiniteSet(T),
         IsFiniteSet(P), Cardinality(P) <= m
  PROVE  /\ Cardinality(S) \in Nat /\ Cardinality(T) \in Nat
         /\ S \subseteq T => Cardinality(S) <= Cardinality(T)
         /\ S \ P \subseteq T => Cardinality(S) <= Cardinality(T) + m
         /\ \A e \in T : e \notin S /\ S \subseteq T => Cardinality(S) + 1 <= Cardinality(T)
         /\ \A e \in T : S \ P \subseteq T \ {e} => Cardinality(S) + 1 <= Cardinality(T) + m
<1>1. Cardinality(S) \in Nat /\ Cardinality(T) \in Nat /\ Cardinality(P) \in Nat
      /\ Cardinality(S \cap P) \in Nat
  BY FS_CardinalityType, FS_Intersection
<1>2. Cardinality(S \cap P) <= Cardinality(P) BY FS_Intersection
<1>3. IsFiniteSet(S \ P) /\ Cardinality(S \ P) = Cardinality(S) - Cardinality(S \cap P)
  BY FS_Difference
<1>4. S \subseteq T => Cardinality(S) <= Cardinality(T) BY FS_Subset
<1>5. S \ P \subseteq T => Cardinality(S \ P) <= Cardinality(T) BY FS_Subset
<1>6. ASSUME NEW e \in T
      PROVE  /\ e \notin S /\ S \subseteq T => Cardinality(S) + 1 <= Cardinality(T)
             /\ S \ P \subseteq T \ {e} => Cardinality(S \ P) + 1 <= Cardinality(T)
  <2>1. IsFiniteSet(T \ {e}) /\ Cardinality(T \ {e}) = Cardinality(T) - 1
    BY <1>6, FS_RemoveElement
  <2>2. e \notin S /\ S \subseteq T => Cardinality(S) <= Cardinality(T \ {e})
    <3>1. e \notin S /\ S \subseteq T => S \subseteq T \ {e} OBVIOUS
    <3> QED BY <2>1, <3>1, FS_Subset
  <2>3. S \ P \subseteq T \ {e} => Cardinality(S \ P) <= Cardinality(T \ {e})
    BY <2>1, FS_Subset
  <2>4. \A a, b \in Nat : a <= b - 1 => a + 1 <= b OBVIOUS
  <2>5. Cardinality(S \ P) \in Nat BY <1>3, FS_CardinalityType
  <2> QED BY <1>1, <2>1, <2>2, <2>3, <2>4, <2>5
<1>7. ASSUME NEW s \in Nat, NEW t \in Nat, NEW p \in Nat, NEW r \in Nat, p <= m, r <= p
      PROVE  (s - r <= t => s <= t + m) /\ (s - r + 1 <= t => s + 1 <= t + m)
  BY <1>7
<1> QED BY <1>1, <1>2, <1>3, <1>4, <1>5, <1>6, <1>7

\* A memory gives out at most a quota of counts.
LEMMA TokensAreFinite ==
  ASSUME Limits!RateAssumption, NEW q, NEW w
  PROVE  /\ IsFiniteSet(Tokens(q, w)) /\ IsFiniteSet(Tokens(q, w)')
         /\ Cardinality(Tokens(q, w)) <= Cardinality(Servers) * MaxRequests
         /\ Cardinality(Tokens(q, w)) \in Nat
         /\ \A i \in Servers : /\ IsFiniteSet({i} \X (1..MaxRequests))
                               /\ Cardinality({i} \X (1..MaxRequests)) <= MaxRequests
<1>0. IsFiniteSet(Servers) /\ MaxRequests \in Nat BY ServersAreFinite DEF Limits!RateAssumption
<1>1. IsFiniteSet(1..MaxRequests) /\ Cardinality(1..MaxRequests) = MaxRequests
  BY <1>0, FS_Interval
<1>2. /\ IsFiniteSet(Servers \X (1..MaxRequests))
      /\ Cardinality(Servers \X (1..MaxRequests)) = Cardinality(Servers) * MaxRequests
  BY <1>0, <1>1, FS_Product
<1>3. Tokens(q, w) \subseteq Servers \X (1..MaxRequests)
      /\ Tokens(q, w)' \subseteq Servers \X (1..MaxRequests)
  BY DEF Tokens
<1>4. /\ IsFiniteSet(Tokens(q, w)) /\ IsFiniteSet(Tokens(q, w)')
      /\ Cardinality(Tokens(q, w)) <= Cardinality(Servers \X (1..MaxRequests))
  BY <1>2, <1>3, FS_Subset
<1>5. ASSUME NEW i \in Servers
      PROVE  /\ IsFiniteSet({i} \X (1..MaxRequests))
             /\ Cardinality({i} \X (1..MaxRequests)) <= MaxRequests
  <2>1. IsFiniteSet({i}) /\ Cardinality({i}) = 1 BY FS_Singleton
  <2>2. Cardinality({i} \X (1..MaxRequests)) = 1 * MaxRequests /\ IsFiniteSet({i} \X (1..MaxRequests))
    <3>1. PICK S, T : S = {i} /\ T = 1..MaxRequests OBVIOUS
    <3>2. IsFiniteSet(S) /\ IsFiniteSet(T) /\ Cardinality(S) = 1 /\ Cardinality(T) = MaxRequests
      BY ONLY <1>1, <2>1, <3>1
    <3>3. IsFiniteSet(S \X T) /\ Cardinality(S \X T) = Cardinality(S) * Cardinality(T)
      BY ONLY <3>2, FS_Product
    <3> QED BY ONLY <3>1, <3>2, <3>3
  <2> QED BY <1>0, <2>2
<1> QED BY <1>2, <1>4, <1>5, FS_CardinalityType

\* What is accounted for is within the quota.
LEMMA AccountedIsWithin ==
  ASSUME Limits!RateAssumption, Limits!TypeOK, StoreInv, NEW q \in Quotas, NEW w \in Limits!Windows, Accounted(q, w)
  PROVE  Within(q, w)
<1>0. MaxRequests \in Nat /\ rlResets \in Nat /\ rlShared[q][w] \in Nat /\ rlPassed[q][w] \in Nat
      /\ Cardinality(Servers) \in Nat
  BY FS_CardinalityType, ServersAreFinite, LimitsSize DEF Limits!RateAssumption, Limits!TypeOK
<1>1. Cardinality(Tokens(q, w)) <= Cardinality(Servers) * MaxRequests /\ Cardinality(Tokens(q, w)) \in Nat
  BY TokensAreFinite
<1>2. ASSUME NEW m \in Nat, NEW r \in Nat, NEW n \in Nat
      PROVE  m * (n + r) = m * r + n * m /\ m * (n + r + 1) = m + m * r + n * m /\ m * 1 = m /\ m * 0 = 0
             /\ m * r \in Nat /\ n * m \in Nat
  OBVIOUS
<1>3. ByStore(q, w) \in Nat /\ ByStore(q, w) <= MaxRequests BY <1>0 DEF ByStore
<1>4. rlPassed[q][w] <= ByStore(q, w) + MaxRequests * rlResets + Cardinality(Tokens(q, w))
  BY DEF Accounted
<1>5. CASE rlStore = "steady"
  <2>1. rlResets = 0 /\ \A i \in Servers : rlMemory[i] = {} BY <1>5 DEF StoreInv
  <2>2. Tokens(q, w) = {} BY <2>1 DEF Tokens
  <2>3. Cardinality(Tokens(q, w)) = 0 BY <2>2, FS_EmptySet
  <2>4. rlPassed[q][w] <= MaxRequests BY <1>0, <1>2, <1>3, <1>4, <2>1, <2>3
  <2> QED BY <1>0, <1>2, <1>5, <2>4, LimitsSize DEF Within, Limits!Memories
<1>6. CASE rlStore = "none"
  <2>1. ByStore(q, w) = 0 BY <1>0, <1>6 DEF ByStore, StoreInv
  <2>2. rlPassed[q][w] <= MaxRequests * rlResets + Cardinality(Servers) * MaxRequests
    BY <1>0, <1>1, <1>2, <1>4, <2>1
  <2>3. MaxRequests * (Cardinality(Servers) + rlResets) = MaxRequests * rlResets + Cardinality(Servers) * MaxRequests
    BY <1>0, <1>2
  <2> QED BY <1>0, <1>6, <2>2, <2>3, LimitsSize DEF Within, Limits!Memories
<1>7. CASE rlStore = "flaky"
  <2>1. rlPassed[q][w] <= MaxRequests + MaxRequests * rlResets + Cardinality(Servers) * MaxRequests
    BY <1>0, <1>1, <1>2, <1>3, <1>4
  <2>2. MaxRequests * (Cardinality(Servers) + rlResets + 1) = MaxRequests + MaxRequests * rlResets + Cardinality(Servers) * MaxRequests
    BY <1>0, <1>2
  <2> QED BY <1>0, <1>7, <2>1, <2>2, LimitsSize DEF Within, Limits!Memories
<1> QED BY <1>5, <1>6, <1>7 DEF Limits!TypeOK

LEMMA LimitsInit == ASSUME Limits!RateAssumption PROVE Limits!Init => LimitsInv
<1> SUFFICES ASSUME Limits!Init PROVE LimitsInv
  OBVIOUS
<1>1. Limits!TypeOK BY DEF Limits!Init, Limits!TypeOK, Limits!Free, Limits!RateAssumption
<1>2. AskingInv /\ MemoryInv /\ StoreInv BY DEF Limits!Init, AskingInv, MemoryInv, StoreInv
<1>3. ASSUME NEW q \in Quotas, NEW w \in Limits!Windows PROVE Accounted(q, w)
  <2>1. Tokens(q, w) = {} BY DEF Limits!Init, Tokens
  <2>2. Cardinality(Tokens(q, w)) = 0 BY <2>1, FS_EmptySet
  <2>3. ByStore(q, w) = 0 /\ rlResets = 0 /\ rlPassed[q][w] = 0 /\ MaxRequests \in Nat
    BY DEF Limits!Init, ByStore, Limits!RateAssumption
  <2> QED BY <2>2, <2>3 DEF Accounted
<1> QED BY <1>1, <1>2, <1>3, AccountedIsWithin DEF LimitsInv

-----------------------------------------------------------------------------
(* Steps. *)

LEMMA Stays ==
  ASSUME Limits!RateAssumption, Limits!TypeOK, StoreInv, NEW q \in Quotas, NEW w \in Limits!Windows,
         (Over(q, w) /\ Within(q, w)) \/ Accounted(q, w),
         rlPassed'[q][w] = rlPassed[q][w], NEW more \in Nat, rlResets' = rlResets + more, rlStore' = rlStore
  PROVE  Within(q, w)'
<1>1. Within(q, w) BY AccountedIsWithin
<1>2. MaxRequests \in Nat /\ rlResets \in Nat /\ Cardinality(Servers) \in Nat
      /\ rlPassed[q][w] \in Nat
  BY FS_CardinalityType, ServersAreFinite, LimitsSize DEF Limits!RateAssumption, Limits!TypeOK
<1>3. ASSUME NEW m \in Nat, NEW r \in Nat, NEW n \in Nat, NEW x \in {0, 1}
      PROVE  m * (n + (r + more) + x) = m * (n + r + x) + m * more /\ m * more >= 0 /\ m * (n + r + x) \in Nat
  OBVIOUS
<1>4. CASE rlStore = "steady"
  BY <1>1, <1>2, <1>4, LimitsSize DEF Within, Limits!Memories
<1>5. CASE rlStore # "steady"
  <2> DEFINE x == IF rlStore = "none" THEN 0 ELSE 1
             n == Cardinality(Servers)
  <2>1. rlPassed[q][w] <= MaxRequests * (n + rlResets + x)
    BY <1>1, <1>5, LimitsSize DEF Within, Limits!Memories
  <2>2. x \in {0, 1} /\ n \in Nat BY <1>2
  <2> HIDE DEF x, n
  <2>3. /\ MaxRequests * (n + (rlResets + more) + x) = MaxRequests * (n + rlResets + x) + MaxRequests * more
        /\ MaxRequests * more >= 0 /\ MaxRequests * (n + rlResets + x) \in Nat
        /\ MaxRequests * more \in Nat
    BY <1>2, <1>3, <2>2
  <2>4. rlPassed[q][w] <= MaxRequests * (n + (rlResets + more) + x)
    BY <1>2, <2>1, <2>3
  <2> QED BY <1>5, <2>4, LimitsSize DEF Within, Limits!Memories, x, n
<1> QED BY <1>4, <1>5

\* A window that is over stays so: new requests count in the window of the day.
LEMMA OverStays ==
  ASSUME NEW q \in Quotas, NEW w \in Limits!Windows, Over(q, w), Limits!TypeOK, Limits!RateAssumption,
         rlNow' \in Nat, rlNow' >= rlNow,
         \A c \in Handlers : \/ rlAsking'[c] = Limits!Free
                             \/ rlAsking[c] # Limits!Free /\ rlAsking'[c].quota = rlAsking[c].quota
                                /\ rlAsking'[c].time = rlAsking[c].time
                             \/ rlAsking'[c].time = rlNow
  PROVE  Over(q, w)'
<1>1. rlNow \in Nat /\ w \in Nat
  BY WindowsOfTimes DEF Limits!TypeOK, Limits!RateAssumption, Limits!Windows
<1>2. Limits!WindowOf(rlNow) \in Nat BY <1>1, WindowsOfTimes
<1>3. PICK n \in Nat : n = rlNow' /\ rlNow <= n OBVIOUS
<1>4. Limits!WindowOf(rlNow) <= Limits!WindowOf(n) /\ Limits!WindowOf(n) \in Nat
  BY <1>1, <1>3, WindowsOfTimes
<1>5. w < Limits!WindowOf(rlNow) BY DEF Over
<1>6. w < Limits!WindowOf(n) BY <1>1, <1>2, <1>4, <1>5
<1>7. w < Limits!WindowOf(rlNow)' BY <1>3, <1>6
<1>8. ASSUME NEW c \in Handlers, rlAsking'[c] # Limits!Free
      PROVE  <<rlAsking'[c].quota, Limits!WindowOf(rlAsking'[c].time)>> # <<q, w>>
  <2>1. CASE rlAsking[c] # Limits!Free /\ rlAsking'[c].quota = rlAsking[c].quota /\ rlAsking'[c].time = rlAsking[c].time
    BY <2>1 DEF Over
  <2>2. CASE rlAsking'[c].time = rlNow
    BY <1>1, <1>2, <1>5, <2>2
  <2> QED BY <1>8, <2>1, <2>2
<1> QED BY <1>7, <1>8 DEF Over

\* Steps that only concern who is asking, and when.
LEMMA CountersStand ==
  ASSUME Limits!RateAssumption, LimitsInv, UNCHANGED <<rlStore, rlShared, rlMemory, rlPassed, rlResets>>,
         rlNow' \in Nat, rlNow' >= rlNow,
         \A c \in Handlers : \/ rlAsking'[c] = Limits!Free
                             \/ rlAsking[c] # Limits!Free /\ rlAsking'[c].quota = rlAsking[c].quota
                                /\ rlAsking'[c].time = rlAsking[c].time
                             \/ rlAsking'[c].time = rlNow,
         Limits!TypeOK', AskingInv'
  PROVE  LimitsInv'
<1>1. MemoryInv' /\ StoreInv' BY DEF LimitsInv, MemoryInv, StoreInv
<1>2. ASSUME NEW q \in Quotas, NEW w \in Limits!Windows
  PROVE ((Over(q, w) /\ Within(q, w)) \/ Accounted(q, w))'
  <2>1. CASE Over(q, w) /\ Within(q, w)
    BY <2>1, OverStays DEF LimitsInv, Within, Limits!Memories
  <2>2. CASE Accounted(q, w)
    BY <2>2 DEF Accounted, ByStore, Tokens
  <2> QED BY <2>1, <2>2 DEF LimitsInv
<1> QED BY <1>1, <1>2 DEF LimitsInv

LEMMA TickStep == ASSUME Limits!RateAssumption, LimitsInv, Limits!Tick PROVE LimitsInv'
<1>1. rlNow' = rlNow + 1 /\ rlNow < MaxTime /\ UNCHANGED <<rlStore, rlShared, rlMemory, rlAsking, rlPassed, rlAsked, rlResets>>
  BY DEF Limits!Tick, Limits!counters, Limits!counts
<1>2. rlNow \in Nat /\ MaxTime \in Nat BY DEF LimitsInv, Limits!TypeOK, Limits!RateAssumption
<1>3. rlNow' \in 0..MaxTime /\ rlNow' >= rlNow BY <1>1, <1>2
<1>4. Limits!TypeOK' BY <1>1, <1>3 DEF LimitsInv, Limits!TypeOK
<1>5. AskingInv'
  <2>1. ASSUME NEW c \in Handlers, rlAsking[c] # Limits!Free PROVE rlAsking[c].time <= rlNow'
    <3>1. rlAsking[c].time \in Nat /\ rlAsking[c].time <= rlNow
      BY <1>2, <2>1 DEF LimitsInv, AskingInv
    <3> QED BY <1>1, <1>2, <3>1
  <2> QED BY <1>1, <2>1 DEF LimitsInv, AskingInv
<1>6. \A c \in Handlers : rlAsking'[c] = Limits!Free \/ (rlAsking[c] # Limits!Free /\ rlAsking'[c].quota = rlAsking[c].quota
                                                         /\ rlAsking'[c].time = rlAsking[c].time)
  BY <1>1
<1> QED BY <1>1, <1>3, <1>4, <1>5, <1>6, CountersStand

LEMMA AskStep ==
  ASSUME Limits!RateAssumption, LimitsInv, NEW c \in Handlers, NEW i \in Servers, NEW q \in Quotas, Limits!Ask(c, i, q)
  PROVE  LimitsInv'
<1> DEFINE a == [at |-> IF rlStore = "none" THEN "local" ELSE "shared",
                 instance |-> i, quota |-> q, time |-> rlNow]
<1>1. /\ rlAsked' = rlAsked + 1 /\ rlAsked < MaxAsked /\ rlAsking[c] = Limits!Free
      /\ rlAsking' = [rlAsking EXCEPT ![c] = a]
      /\ UNCHANGED <<rlStore, rlNow, rlShared, rlMemory, rlPassed, rlResets>>
  BY DEF Limits!Ask, Limits!counters
<1>2. rlNow \in 0..MaxTime /\ rlNow \in Nat BY DEF LimitsInv, Limits!TypeOK, Limits!RateAssumption
<1>3. /\ a.at = (IF rlStore = "none" THEN "local" ELSE "shared")
      /\ a.instance = i /\ a.quota = q /\ a.time = rlNow
      /\ a \in [at : {"idle", "shared", "local"}, instance : Servers \cup {Nobody},
                quota : Quotas \cup {Nobody}, time : 0..MaxTime]
  BY <1>2
<1> HIDE DEF a
<1>4. rlAsked' \in 0..MaxAsked BY <1>1 DEF LimitsInv, Limits!TypeOK, Limits!RateAssumption
<1>5. rlAsking' \in [Handlers -> [at : {"idle", "shared", "local"}, instance : Servers \cup {Nobody},
                  quota : Quotas \cup {Nobody}, time : 0..MaxTime]]
      /\ \A d \in Handlers : rlAsking'[d] = IF d = c THEN a ELSE rlAsking[d]
  BY <1>1, <1>3 DEF LimitsInv, Limits!TypeOK
<1>6. Limits!TypeOK' BY <1>1, <1>4, <1>5 DEF LimitsInv, Limits!TypeOK
<1>7. AskingInv' BY <1>1, <1>2, <1>3, <1>5 DEF LimitsInv, AskingInv
<1>8. \A d \in Handlers : \/ rlAsking'[d] = Limits!Free
                          \/ rlAsking[d] # Limits!Free /\ rlAsking'[d].quota = rlAsking[d].quota
                             /\ rlAsking'[d].time = rlAsking[d].time
                          \/ rlAsking'[d].time = rlNow
  BY <1>3, <1>5
<1>9. rlNow' \in Nat /\ rlNow' >= rlNow BY <1>1, <1>2
<1> QED BY <1>1, <1>6, <1>7, <1>8, <1>9, CountersStand

\* A counter of a row that is incremented, or is not.
LEMMA Incremented ==
  ASSUME NEW S, NEW f \in [S -> Nat], NEW w, NEW d \in Nat
  PROVE  /\ [f EXCEPT ![w] = f[w] + d] \in [S -> Nat]
         /\ \A v \in S : [f EXCEPT ![w] = f[w] + d][v] = f[v] + IF v = w THEN d ELSE 0
<1> DEFINE g == [f EXCEPT ![w] = f[w] + d]
<1>1. \A v \in S : g[v] = IF v = w THEN f[w] + d ELSE f[v] OBVIOUS
<1>2. \A v \in S : f[v] \in Nat OBVIOUS
<1>3. g = [v \in S |-> g[v]] OBVIOUS
<1> HIDE DEF g
<1>4. \A v \in S : g[v] = f[v] + IF v = w THEN d ELSE 0 BY <1>1, <1>2
<1>5. \A v \in S : g[v] \in Nat BY <1>1, <1>2
<1>6. g \in [S -> Nat] BY <1>3, <1>5
<1> QED BY <1>4, <1>6 DEF g

\* A call that is through.
LEMMA Decides ==
  ASSUME Limits!RateAssumption, LimitsInv, NEW c \in Handlers, rlAsking[c] # Limits!Free, NEW n \in Nat, Limits!Decide(c, n), UNCHANGED <<rlStore, rlNow>>
  PROVE  LET q == rlAsking[c].quota
             w == Limits!WindowOf(rlAsking[c].time)
         IN /\ rlAsking' \in [Handlers -> [at : {"idle", "shared", "local"}, instance : Servers \cup {Nobody},
                quota : Quotas \cup {Nobody}, time : 0..MaxTime]]
            /\ AskingInv'
            /\ \A d \in Handlers : rlAsking'[d] = Limits!Free \/ rlAsking'[d] = rlAsking[d]
            /\ rlPassed' \in [Quotas -> [Limits!Windows -> Nat]]
            /\ \A p \in Quotas, v \in Limits!Windows :
                 rlPassed'[p][v] = rlPassed[p][v] + IF p = q /\ v = w /\ n <= MaxRequests THEN 1 ELSE 0
<1> DEFINE q == rlAsking[c].quota
           w == Limits!WindowOf(rlAsking[c].time)
           add == IF n <= MaxRequests THEN 1 ELSE 0
<1>1. /\ rlAsking \in [Handlers -> [at : {"idle", "shared", "local"}, instance : Servers \cup {Nobody},
                  quota : Quotas \cup {Nobody}, time : 0..MaxTime]]
      /\ rlPassed \in [Quotas -> [Limits!Windows -> Nat]] /\ AskingInv
  BY DEF LimitsInv, Limits!TypeOK
<1>2. rlAsking' = [rlAsking EXCEPT ![c] = Limits!Free] BY DEF Limits!Decide
<1>3. rlAsking'[c] = Limits!Free /\ \A d \in Handlers \ {c} : rlAsking'[d] = rlAsking[d]
  BY <1>1, <1>2
<1>4. rlAsking' \in [Handlers -> [at : {"idle", "shared", "local"}, instance : Servers \cup {Nobody},
                  quota : Quotas \cup {Nobody}, time : 0..MaxTime]]
      /\ \A d \in Handlers : rlAsking'[d] = Limits!Free \/ rlAsking'[d] = rlAsking[d]
  <2>1. Limits!Free \in [at : {"idle", "shared", "local"}, instance : Servers \cup {Nobody},
                       quota : Quotas \cup {Nobody}, time : 0..MaxTime]
    <3>2. 0 \in 0..MaxTime BY DEF Limits!RateAssumption
    <3> QED BY <3>2 DEF Limits!Free
  <2> QED BY <1>1, <1>2, <2>1
<1>5. AskingInv' BY <1>1, <1>3 DEF AskingInv
<1>6. rlPassed' = [rlPassed EXCEPT ![q][w] = IF Limits!Allowed(n) THEN @ + 1 ELSE @]
  BY DEF Limits!Decide
<1> DEFINE row == [rlPassed[q] EXCEPT ![w] = IF Limits!Allowed(n) THEN @ + 1 ELSE @]
<1>7. rlPassed' = [rlPassed EXCEPT ![q] = row] BY <1>6, Zenon
<1>8. q \in Quotas BY DEF LimitsInv, AskingInv
<1>9. /\ row \in [Limits!Windows -> Nat]
      /\ \A v \in Limits!Windows : row[v] = rlPassed[q][v] + IF v = w /\ n <= MaxRequests THEN 1 ELSE 0
  <2> DEFINE f == rlPassed[q]
             d == IF n <= MaxRequests THEN 1 ELSE 0
  <2>1. f \in [Limits!Windows -> Nat] /\ w \in Limits!Windows
    BY <1>1, <1>8, WindowsOfTimes DEF AskingInv
  <2>2. row = [f EXCEPT ![w] = f[w] + d]
    <3>1. f[w] \in Nat BY <2>1
    <3>2. (IF Limits!Allowed(n) THEN f[w] + 1 ELSE f[w]) = f[w] + d BY <3>1 DEF Limits!Allowed
    <3>3. row = [f EXCEPT ![w] = IF Limits!Allowed(n) THEN f[w] + 1 ELSE f[w]] OBVIOUS
    <3> HIDE DEF f, row, w, d
    <3> QED BY <3>2, <3>3
  <2>3. d \in Nat OBVIOUS
  <2> HIDE DEF f, row, w, d
  <2>4. /\ row \in [Limits!Windows -> Nat]
        /\ \A v \in Limits!Windows : row[v] = f[v] + IF v = w THEN d ELSE 0
    BY <2>1, <2>2, <2>3, Incremented
  <2> QED BY <2>4 DEF f, d
<1> HIDE DEF row
<1>10. /\ rlPassed' \in [Quotas -> [Limits!Windows -> Nat]]
       /\ rlPassed'[q] = row /\ \A p \in Quotas \ {q} : rlPassed'[p] = rlPassed[p]
  BY <1>1, <1>7, <1>8, <1>9
<1>11. \A p \in Quotas, v \in Limits!Windows :
                 rlPassed'[p][v] = rlPassed[p][v] + IF p = q /\ v = w /\ n <= MaxRequests THEN 1 ELSE 0
  <2> SUFFICES ASSUME NEW p \in Quotas, NEW v \in Limits!Windows
               PROVE rlPassed'[p][v] = rlPassed[p][v] + IF p = q /\ v = w /\ n <= MaxRequests THEN 1 ELSE 0
    OBVIOUS
  <2>1. CASE p = q BY <1>9, <1>10, <2>1
  <2>2. CASE p # q
    <3>1. rlPassed'[p][v] = rlPassed[p][v] /\ rlPassed[p][v] \in Nat BY <1>1, <1>10, <2>2
    <3> QED BY <2>2, <3>1
  <2> QED BY <2>1, <2>2
<1> QED BY <1>4, <1>5, <1>10, <1>11

\* One more for one key of the store.
LEMMA Increments ==
  ASSUME LimitsInv, NEW c \in Handlers, rlAsking[c] # Limits!Free, Limits!Increment(c)
  PROVE  LET q == rlAsking[c].quota
             w == Limits!WindowOf(rlAsking[c].time)
         IN /\ rlShared' \in [Quotas -> [Limits!Windows -> Nat]]
            /\ \A p \in Quotas, v \in Limits!Windows :
                 rlShared'[p][v] = rlShared[p][v] + IF p = q /\ v = w THEN 1 ELSE 0
<1> DEFINE q == rlAsking[c].quota
           w == Limits!WindowOf(rlAsking[c].time)
           row == [rlShared[q] EXCEPT ![w] = @ + 1]
<1>1. rlShared \in [Quotas -> [Limits!Windows -> Nat]] BY DEF LimitsInv, Limits!TypeOK
<1>2. rlShared' = [rlShared EXCEPT ![q] = row] BY Zenon DEF Limits!Increment
<1>3. q \in Quotas BY DEF LimitsInv, AskingInv
<1>4. /\ row \in [Limits!Windows -> Nat]
      /\ \A v \in Limits!Windows : row[v] = rlShared[q][v] + IF v = w THEN 1 ELSE 0
  <2>1. PICK f \in [Limits!Windows -> Nat], u \in {w}, d \in Nat : f = rlShared[q] /\ d = 1
    BY <1>1, <1>3
  <2>2. /\ [f EXCEPT ![u] = f[u] + d] \in [Limits!Windows -> Nat]
        /\ \A v \in Limits!Windows : [f EXCEPT ![u] = f[u] + d][v] = f[v] + IF v = u THEN d ELSE 0
    BY Incremented
  <2>3. row = [f EXCEPT ![u] = f[u] + d] BY <2>1
  <2> HIDE DEF row
  <2> QED BY <2>1, <2>2, <2>3
<1> HIDE DEF row
<1>5. /\ rlShared' \in [Quotas -> [Limits!Windows -> Nat]]
      /\ rlShared'[q] = row /\ \A p \in Quotas \ {q} : rlShared'[p] = rlShared[p]
  BY <1>1, <1>2, <1>3, <1>4
<1>6. \A p \in Quotas, v \in Limits!Windows :
         rlShared'[p][v] = rlShared[p][v] + IF p = q /\ v = w THEN 1 ELSE 0
  <2> SUFFICES ASSUME NEW p \in Quotas, NEW v \in Limits!Windows
               PROVE rlShared'[p][v] = rlShared[p][v] + IF p = q /\ v = w THEN 1 ELSE 0
    OBVIOUS
  <2>1. CASE p = q BY <1>4, <1>5, <2>1
  <2>2. CASE p # q
    <3>1. rlShared'[p][v] = rlShared[p][v] /\ rlShared[p][v] \in Nat BY <1>1, <1>5, <2>2
    <3> QED BY <2>2, <3>1
  <2> QED BY <2>1, <2>2
<1> QED BY <1>5, <1>6

\* Who counts in a window: it is not over.
LEMMA CountingIsNotOver ==
  ASSUME Limits!RateAssumption, LimitsInv, NEW c \in Handlers, rlAsking[c] # Limits!Free
  PROVE  LET q == rlAsking[c].quota
             w == Limits!WindowOf(rlAsking[c].time)
         IN /\ q \in Quotas /\ w \in Limits!Windows /\ ~Over(q, w) /\ Accounted(q, w)
            /\ rlAsking[c].instance \in Servers /\ rlAsking[c].time \in 0..MaxTime
            /\ rlAsking[c].time <= rlNow
BY WindowsOfTimes DEF LimitsInv, AskingInv, Over

LEMMA CountSharedStep ==
  ASSUME Limits!RateAssumption, LimitsInv, NEW c \in Handlers, Limits!CountShared(c)
  PROVE  LimitsInv'
<1>a. PICK q, w : q = rlAsking[c].quota /\ w = Limits!WindowOf(rlAsking[c].time) OBVIOUS
<1>b. PICK n : n = rlShared[q][w] + 1 OBVIOUS
<1>1. /\ rlAsking[c].at = "shared" /\ Limits!Increment(c) /\ Limits!Decide(c, n)
      /\ UNCHANGED <<rlStore, rlNow, rlMemory, rlAsked, rlResets>>
  BY <1>a, <1>b DEF Limits!CountShared
<1>2. rlAsking[c] # Limits!Free BY <1>1 DEF Limits!Free
<1>3. /\ q \in Quotas /\ w \in Limits!Windows /\ Accounted(q, w)
      /\ rlShared \in [Quotas -> [Limits!Windows -> Nat]] /\ rlPassed \in [Quotas -> [Limits!Windows -> Nat]]
  BY <1>a, <1>2, CountingIsNotOver DEF LimitsInv, Limits!TypeOK
<1>4. rlShared[q][w] \in Nat /\ n \in Nat BY <1>b, <1>3
<1>5. /\ rlAsking' \in [Handlers -> [at : {"idle", "shared", "local"}, instance : Servers \cup {Nobody},
                  quota : Quotas \cup {Nobody}, time : 0..MaxTime]]
      /\ AskingInv'
      /\ \A d \in Handlers : rlAsking'[d] = Limits!Free \/ rlAsking'[d] = rlAsking[d]
      /\ rlPassed' \in [Quotas -> [Limits!Windows -> Nat]]
      /\ \A p \in Quotas, v \in Limits!Windows :
           rlPassed'[p][v] = rlPassed[p][v] + IF p = q /\ v = w /\ n <= MaxRequests THEN 1 ELSE 0
  BY <1>a, <1>1, <1>2, <1>4, Decides
<1>6. /\ rlShared' \in [Quotas -> [Limits!Windows -> Nat]]
      /\ \A p \in Quotas, v \in Limits!Windows :
           rlShared'[p][v] = rlShared[p][v] + IF p = q /\ v = w THEN 1 ELSE 0
  BY <1>a, <1>1, <1>2, Increments
<1>7. Limits!TypeOK' BY <1>1, <1>5, <1>6 DEF LimitsInv, Limits!TypeOK
<1>8. MemoryInv' BY <1>1 DEF LimitsInv, MemoryInv
<1>9. rlStore # "none" BY <1>1, <1>2 DEF LimitsInv, AskingInv
<1>10. StoreInv' BY <1>1, <1>9 DEF LimitsInv, StoreInv
<1>11. MaxRequests \in Nat /\ rlResets \in Nat
  BY DEF Limits!RateAssumption, LimitsInv, Limits!TypeOK
<1>12. ASSUME NEW p \in Quotas, NEW v \in Limits!Windows, ~(p = q /\ v = w)
       PROVE  ((Over(p, v) /\ Within(p, v)) \/ Accounted(p, v))'
  <2>1. rlShared[p][v] \in Nat /\ rlPassed[p][v] \in Nat BY <1>3
  <2>2. rlShared'[p][v] = rlShared[p][v] /\ rlPassed'[p][v] = rlPassed[p][v]
    BY <1>5, <1>6, <1>12, <2>1
  <2>3. CASE Over(p, v) /\ Within(p, v)
    <3>1. rlNow' \in Nat /\ rlNow' >= rlNow
      BY <1>1 DEF LimitsInv, Limits!TypeOK, Limits!RateAssumption
    <3>2. \A d \in Handlers : rlAsking'[d] = Limits!Free \/ (rlAsking[d] # Limits!Free /\ rlAsking'[d].quota = rlAsking[d].quota
                                                             /\ rlAsking'[d].time = rlAsking[d].time)
      BY <1>5
    <3>3. Over(p, v)' BY <2>3, <3>1, <3>2, OverStays DEF LimitsInv
    <3> QED BY <1>1, <2>2, <2>3, <3>3, LimitsSize DEF Within, Limits!Memories
  <2>4. CASE Accounted(p, v)
    BY <1>1, <2>2, <2>4 DEF Accounted, ByStore, Tokens
  <2> QED BY <2>3, <2>4 DEF LimitsInv
<1>13. Accounted(q, w)'
  <2>1. /\ rlPassed[q][w] \in Nat /\ rlShared'[q][w] = n
        /\ rlPassed'[q][w] = rlPassed[q][w] + IF n <= MaxRequests THEN 1 ELSE 0
    BY <1>b, <1>3, <1>5, <1>6
  <2>2. Tokens(q, w)' = Tokens(q, w) /\ rlResets' = rlResets BY <1>1 DEF Tokens
  <2>3. rlPassed[q][w] <= ByStore(q, w) + MaxRequests * rlResets + Cardinality(Tokens(q, w))
    BY <1>3 DEF Accounted
  <2>4. ByStore(q, w)' = IF n <= MaxRequests THEN n ELSE MaxRequests BY <2>1 DEF ByStore
  <2>5. ByStore(q, w) = IF n - 1 <= MaxRequests THEN n - 1 ELSE MaxRequests
    BY <1>b, <1>4 DEF ByStore
  <2>6. Cardinality(Tokens(q, w)) \in Nat /\ MaxRequests * rlResets \in Nat
    BY <1>11, TokensAreFinite
  <2>7. ASSUME NEW k \in Nat, NEW x \in Nat, NEW y \in Nat, NEW m \in Nat, NEW t \in Nat,
               k <= (IF m - 1 <= MaxRequests THEN m - 1 ELSE MaxRequests) + x + y
        PROVE  k + (IF m <= MaxRequests THEN 1 ELSE 0) <= (IF m <= MaxRequests THEN m ELSE MaxRequests) + x + y
    BY <1>11, <2>7
  <2>8. rlPassed[q][w] + (IF n <= MaxRequests THEN 1 ELSE 0) <=
          (IF n <= MaxRequests THEN n ELSE MaxRequests) + MaxRequests * rlResets + Cardinality(Tokens(q, w))
    BY <1>4, <2>1, <2>3, <2>5, <2>6, <2>7
  <2> QED BY <2>1, <2>2, <2>4, <2>8 DEF Accounted
<1> QED BY <1>5, <1>7, <1>8, <1>10, <1>12, <1>13 DEF LimitsInv

LEMMA SharedFailsStep ==
  ASSUME Limits!RateAssumption, LimitsInv, NEW c \in Handlers, Limits!SharedFails(c)
  PROVE  LimitsInv'
<1>1. /\ rlAsking[c].at = "shared" /\ rlStore = "flaky" /\ (Limits!Increment(c) \/ rlShared' = rlShared)
      /\ rlAsking' = [rlAsking EXCEPT ![c].at = "local"]
      /\ UNCHANGED <<rlStore, rlNow, rlMemory, rlPassed, rlAsked, rlResets>>
  BY DEF Limits!SharedFails, Limits!counts
<1>2. rlAsking[c] # Limits!Free BY <1>1 DEF Limits!Free
<1> DEFINE a == [rlAsking[c] EXCEPT !.at = "local"]
<1>3. rlAsking' = [rlAsking EXCEPT ![c] = a] BY <1>1, Zenon
<1>4. rlAsking \in [Handlers -> [at : {"idle", "shared", "local"}, instance : Servers \cup {Nobody},
                  quota : Quotas \cup {Nobody}, time : 0..MaxTime]]
      /\ rlShared \in [Quotas -> [Limits!Windows -> Nat]] /\ rlPassed \in [Quotas -> [Limits!Windows -> Nat]]
  BY DEF LimitsInv, Limits!TypeOK
<1>5. /\ a \in [at : {"idle", "shared", "local"}, instance : Servers \cup {Nobody},
                quota : Quotas \cup {Nobody}, time : 0..MaxTime]
      /\ a.at = "local" /\ a.instance = rlAsking[c].instance /\ a.quota = rlAsking[c].quota
      /\ a.time = rlAsking[c].time
  BY <1>4
<1> HIDE DEF a
<1>6. /\ rlAsking' \in [Handlers -> [at : {"idle", "shared", "local"}, instance : Servers \cup {Nobody},
                  quota : Quotas \cup {Nobody}, time : 0..MaxTime]]
      /\ rlAsking'[c] = a /\ \A d \in Handlers \ {c} : rlAsking'[d] = rlAsking[d]
  BY <1>3, <1>4, <1>5
<1>7. AskingInv' BY <1>1, <1>2, <1>5, <1>6 DEF LimitsInv, AskingInv
<1>8. /\ rlShared' \in [Quotas -> [Limits!Windows -> Nat]]
      /\ \A p \in Quotas, v \in Limits!Windows : rlShared'[p][v] >= rlShared[p][v]
  <2>1. CASE Limits!Increment(c)
    <3>1. /\ rlShared' \in [Quotas -> [Limits!Windows -> Nat]]
          /\ \A p \in Quotas, v \in Limits!Windows :
               rlShared'[p][v] = rlShared[p][v] + IF p = rlAsking[c].quota /\ v = Limits!WindowOf(rlAsking[c].time) THEN 1 ELSE 0
      BY <1>2, <2>1, Increments
    <3>2. \A p \in Quotas, v \in Limits!Windows : rlShared[p][v] \in Nat BY <1>4
    <3> QED BY <3>1, <3>2
  <2>2. CASE rlShared' = rlShared
    <3>2. \A p \in Quotas, v \in Limits!Windows : rlShared[p][v] \in Nat BY <1>4
    <3> QED BY <1>4, <2>2, <3>2
  <2> QED BY <1>1, <2>1, <2>2
<1>9. Limits!TypeOK' BY <1>1, <1>6, <1>8 DEF LimitsInv, Limits!TypeOK
<1>10. MemoryInv' /\ StoreInv' BY <1>1 DEF LimitsInv, MemoryInv, StoreInv
<1>11. MaxRequests \in Nat /\ rlResets \in Nat
  BY DEF Limits!RateAssumption, LimitsInv, Limits!TypeOK
<1>12. ASSUME NEW p \in Quotas, NEW v \in Limits!Windows
       PROVE  ((Over(p, v) /\ Within(p, v)) \/ Accounted(p, v))'
  <2>1. CASE Over(p, v) /\ Within(p, v)
    <3>1. rlNow' \in Nat /\ rlNow' >= rlNow
      BY <1>1 DEF LimitsInv, Limits!TypeOK, Limits!RateAssumption
    <3>2. \A d \in Handlers : rlAsking'[d] = Limits!Free \/ rlAsking'[d].time = rlNow
             \/ (rlAsking[d] # Limits!Free /\ rlAsking'[d].quota = rlAsking[d].quota
                                                            /\ rlAsking'[d].time = rlAsking[d].time)
      BY <1>2, <1>5, <1>6
    <3>3. Over(p, v)' BY <2>1, <3>1, <3>2, OverStays DEF LimitsInv
    <3> QED BY <1>1, <2>1, <3>3, LimitsSize DEF Within, Limits!Memories
  <2>2. CASE Accounted(p, v)
    <3>1. Tokens(p, v)' = Tokens(p, v) /\ rlResets' = rlResets /\ rlPassed' = rlPassed
      BY <1>1 DEF Tokens
    <3>2. rlShared[p][v] \in Nat /\ rlShared'[p][v] \in Nat /\ rlShared'[p][v] >= rlShared[p][v]
      BY <1>4, <1>8
    <3>3. ByStore(p, v)' >= ByStore(p, v) /\ ByStore(p, v)' \in Nat /\ ByStore(p, v) \in Nat
      BY <1>11, <3>2 DEF ByStore
    <3>4. Cardinality(Tokens(p, v)) \in Nat /\ MaxRequests * rlResets \in Nat /\ rlPassed[p][v] \in Nat
      BY <1>4, <1>11, TokensAreFinite
    <3>5. ASSUME NEW k \in Nat, NEW x \in Nat, NEW y \in Nat, NEW b \in Nat, NEW d \in Nat,
                 k <= b + x + y, d >= b
          PROVE  k <= d + x + y
      BY <3>5
    <3>6. rlPassed[p][v] <= ByStore(p, v)' + MaxRequests * rlResets + Cardinality(Tokens(p, v))
      BY <2>2, <3>3, <3>4, <3>5 DEF Accounted
    <3> QED BY <3>1, <3>6 DEF Accounted
  <2> QED BY <2>1, <2>2 DEF LimitsInv
<1> QED BY <1>7, <1>9, <1>10, <1>12 DEF LimitsInv

-----------------------------------------------------------------------------
(* A memory counts. *)

\* The records that are left once the memory is swept, and the one of the request.
LocalCount(c, entries, record) ==
  LET a == rlAsking[c]
      key == <<a.quota, Limits!WindowOf(a.time)>>
  IN
  /\ entries \subseteq rlMemory[a.instance]
  /\ rlMemory' = [rlMemory EXCEPT ![a.instance] = {x \in entries : x.key # key} \cup {record}]
  /\ record \in Record /\ record.key = key
  /\ \E t \in 0..MaxTime : record.resetAt = t + Window /\ Limits!WindowOf(t) = key[2]
  /\ \/ \E x \in entries : x.key = key /\ record.count = x.count + 1
     \/ record.count = 1 /\ \A x \in entries : x.key # key
  /\ rlResets' \in {rlResets, rlResets + 1}
  /\ (\E x \in rlMemory[a.instance] \ entries : Limits!Matters(x, c)) => rlResets' = rlResets + 1
  /\ Limits!Decide(c, record.count)

\* A record of the window a call counts in still counts.
LEMMA OwnRecordCounts ==
  ASSUME Limits!RateAssumption, LimitsInv, NEW c \in Handlers, rlAsking[c] # Limits!Free,
         NEW x \in rlMemory[rlAsking[c].instance],
         x.key = <<rlAsking[c].quota, Limits!WindowOf(rlAsking[c].time)>>
  PROVE  x.resetAt > rlAsking[c].time
<1>1. rlAsking[c].instance \in Servers /\ rlAsking[c].time \in 0..MaxTime BY CountingIsNotOver
<1>2. PICK t \in 0..MaxTime : x.resetAt = t + Window /\ Limits!WindowOf(t) = x.key[2]
  BY <1>1 DEF LimitsInv, MemoryInv
<1>3. PICK s \in Nat : s = rlAsking[c].time BY <1>1 DEF Limits!RateAssumption
<1>4. Limits!WindowOf(t) = Limits!WindowOf(s) BY <1>2, <1>3
<1>5. t \in Nat /\ Window \in Nat BY DEF Limits!RateAssumption
<1>6. ~(t + Window <= s)
  <2>1. Limits!WindowOf(t) \in Nat BY <1>5, WindowsOfTimes
  <2> QED BY <1>3, <1>4, <1>5, <2>1, WindowsOfTimes
<1> QED BY <1>2, <1>3, <1>5, <1>6

\* A sweep only takes records away.
LEMMA SweptIsPart == \A entries, t : Limits!Swept(entries, t) \subseteq entries
BY DEF Limits!Swept

\* What a count in memory does, whatever record it finds.
LEMMA CountsLocally ==
  ASSUME Limits!RateAssumption, LimitsInv, NEW c \in Handlers, Limits!CountLocal(c)
  PROVE  /\ rlAsking[c].at = "local" /\ rlAsking[c] # Limits!Free
         /\ UNCHANGED <<rlStore, rlNow, rlShared, rlAsked>>
         /\ \E entries, record : LocalCount(c, entries, record)
<1> DEFINE a == rlAsking[c]
           key == <<a.quota, Limits!WindowOf(a.time)>>
           entries == Limits!Swept(rlMemory[a.instance], a.time)
           mine == {x \in entries : x.key = key}
           live == {x \in mine : x.resetAt > a.time}
           old == CHOOSE x \in live : TRUE
           record == IF live = {} THEN [key |-> key, count |-> 1, resetAt |-> a.time + Window]
                     ELSE [old EXCEPT !.count = @ + 1]
<1>1. /\ a.at = "local"
      /\ rlMemory' = [rlMemory EXCEPT ![a.instance] = (entries \ mine) \cup {record}]
      /\ rlResets' = IF \E x \in rlMemory[a.instance] \ entries : Limits!Matters(x, c) THEN rlResets + 1 ELSE rlResets
      /\ Limits!Decide(c, record.count)
      /\ UNCHANGED <<rlStore, rlNow, rlShared, rlAsked>>
  BY Zenon DEF Limits!CountLocal
<1>2. rlAsking[c] # Limits!Free
  <2>1. rlAsking[c].at = "local" BY <1>1
  <2> QED BY ONLY <2>1 DEF Limits!Free
<1>3. /\ a.instance \in Servers /\ a.time \in 0..MaxTime /\ a.quota \in Quotas
      /\ Limits!WindowOf(a.time) \in Limits!Windows
  BY <1>2, CountingIsNotOver
<1>4. entries \subseteq rlMemory[a.instance] BY SweptIsPart
<1>5. entries \subseteq Record BY <1>3, <1>4 DEF LimitsInv, Limits!TypeOK, Record
<1> HIDE DEF entries
<1>6. live = mine BY <1>2, <1>4, OwnRecordCounts
<1> HIDE DEF live
<1>7. entries \ mine = {x \in entries : x.key # key} OBVIOUS
<1>8. /\ record \in Record /\ record.key = key
      /\ \E t \in 0..MaxTime : record.resetAt = t + Window /\ Limits!WindowOf(t) = key[2]
      /\ \/ \E x \in entries : x.key = key /\ record.count = x.count + 1
         \/ record.count = 1 /\ \A x \in entries : x.key # key
  <2>1. CASE mine = {}
    <3>1. record = [key |-> key, count |-> 1, resetAt |-> a.time + Window] BY <1>6, <2>1
    <3>2. key \in Quotas \X Limits!Windows /\ key[2] = Limits!WindowOf(a.time) BY <1>3
    <3>3. a.time + Window \in Window..(MaxTime + Window) BY <1>3 DEF Limits!RateAssumption
    <3>4. \A x \in entries : x.key # key BY <2>1
    <3> HIDE DEF record, key
    <3>5. record \in Record /\ record.key = key /\ record.count = 1 /\ record.resetAt = a.time + Window
      BY <3>1, <3>2, <3>3 DEF Record
    <3> QED BY <1>3, <3>2, <3>4, <3>5
  <2>2. CASE mine # {}
    <3>1. record = [old EXCEPT !.count = @ + 1] BY <1>6, <2>2
    <3>2. old \in mine BY <1>6, <2>2
    <3> HIDE DEF record, old
    <3>3. old \in entries /\ old \in Record /\ old.key = key BY <1>5, <3>2
    <3>4. record \in Record /\ record.key = old.key /\ record.count = old.count + 1
          /\ record.resetAt = old.resetAt
      BY <3>1, <3>3 DEF Record
    <3>5. \E t \in 0..MaxTime : old.resetAt = t + Window /\ Limits!WindowOf(t) = old.key[2]
      BY <1>3, <1>4, <3>3 DEF LimitsInv, MemoryInv
    <3> QED BY <3>3, <3>4, <3>5
  <2> QED BY <2>1, <2>2
<1> HIDE DEF mine, record
<1>9. LocalCount(c, entries, record)
  BY <1>1, <1>4, <1>7, <1>8 DEF LocalCount
<1> QED BY <1>1, <1>2, <1>9

\* What is accounted for, once tokens and memories have come and gone.
LEMMA Balance ==
  ASSUME NEW p \in Nat, NEW b \in Nat, NEW m \in Nat, NEW r \in Nat, NEW s \in Nat, NEW t \in Nat,
         p <= b + m * r + s
  PROVE  /\ s <= t => p <= b + m * r + t /\ p <= b + m * (r + 1) + t
         /\ s <= t + m => p <= b + m * (r + 1) + t
         /\ s + 1 <= t => p + 1 <= b + m * r + t /\ p + 1 <= b + m * (r + 1) + t
         /\ s + 1 <= t + m => p + 1 <= b + m * (r + 1) + t
<1>1. m * (r + 1) = m * r + m /\ m * r \in Nat OBVIOUS
<1>2. PICK x \in Nat : x = m * r BY <1>1
<1>3. p <= b + x + s BY <1>2
<1> QED BY <1>1, <1>2, <1>3

LEMMA CountLocalStep ==
  ASSUME Limits!RateAssumption, LimitsInv, NEW c \in Handlers, Limits!CountLocal(c)
  PROVE  LimitsInv'
<1>1. PICK entries, record : LocalCount(c, entries, record) BY CountsLocally
<1>2. rlAsking[c].at = "local" /\ rlAsking[c] # Limits!Free /\ UNCHANGED <<rlStore, rlNow, rlShared, rlAsked>>
  BY CountsLocally
<1>3. PICK i, q, w, t : /\ i = rlAsking[c].instance /\ q = rlAsking[c].quota /\ t = rlAsking[c].time
                        /\ w = Limits!WindowOf(rlAsking[c].time)
  OBVIOUS
<1>4. /\ i \in Servers /\ q \in Quotas /\ w \in Limits!Windows /\ t \in 0..MaxTime /\ t <= rlNow
      /\ Accounted(q, w)
  BY <1>2, <1>3, CountingIsNotOver
<1>5. /\ entries \subseteq rlMemory[i]
      /\ rlMemory' = [rlMemory EXCEPT ![i] = {x \in entries : x.key # <<q, w>>} \cup {record}]
      /\ record \in Record /\ record.key = <<q, w>>
      /\ \E u \in 0..MaxTime : record.resetAt = u + Window /\ Limits!WindowOf(u) = w
      /\ \/ \E x \in entries : x.key = <<q, w>> /\ record.count = x.count + 1
         \/ record.count = 1 /\ \A x \in entries : x.key # <<q, w>>
      /\ rlResets' \in {rlResets, rlResets + 1}
      /\ (\E x \in rlMemory[i] \ entries : Limits!Matters(x, c)) => rlResets' = rlResets + 1
      /\ Limits!Decide(c, record.count)
  BY <1>1, <1>3 DEF LocalCount
<1>6. PICK after : after = {x \in entries : x.key # <<q, w>>} \cup {record} OBVIOUS
<1>7. /\ rlMemory'[i] = after /\ \A j \in Servers \ {i} : rlMemory'[j] = rlMemory[j]
      /\ rlMemory' \in [Servers -> SUBSET Record]
  <2>1. rlMemory \in [Servers -> SUBSET Record] BY DEF LimitsInv, MemoryInv
  <2>2. after \in SUBSET Record BY <1>4, <1>5, <1>6, <2>1
  <2> QED BY <1>4, <1>5, <1>6, <2>1, <2>2
<1>8. record.count \in Nat /\ record.count >= 1 BY <1>5 DEF Record
<1>9. /\ rlAsking' \in [Handlers -> [at : {"idle", "shared", "local"}, instance : Servers \cup {Nobody},
                  quota : Quotas \cup {Nobody}, time : 0..MaxTime]]
      /\ AskingInv'
      /\ \A d \in Handlers : rlAsking'[d] = Limits!Free \/ rlAsking'[d] = rlAsking[d]
      /\ rlPassed' \in [Quotas -> [Limits!Windows -> Nat]]
      /\ \A p \in Quotas, v \in Limits!Windows :
           rlPassed'[p][v] = rlPassed[p][v] + IF p = q /\ v = w /\ record.count <= MaxRequests THEN 1 ELSE 0
  BY <1>2, <1>3, <1>5, <1>8, Decides
<1>10. rlResets \in Nat /\ rlResets' \in Nat /\ MaxRequests \in Nat /\ MaxRequests >= 1
  BY <1>5 DEF LimitsInv, Limits!TypeOK, Limits!RateAssumption
<1>11. Limits!TypeOK' BY <1>2, <1>7, <1>9, <1>10 DEF LimitsInv, Limits!TypeOK, Record
<1>12. MemoryInv'
  <2>1. \A x \in rlMemory[i] : \E u \in 0..MaxTime : x.resetAt = u + Window /\ Limits!WindowOf(u) = x.key[2]
    BY <1>4 DEF LimitsInv, MemoryInv
  <2>2. \A x \in after : \E u \in 0..MaxTime : x.resetAt = u + Window /\ Limits!WindowOf(u) = x.key[2]
    BY <1>5, <1>6, <2>1
  <2>3. \A x, y \in after : x.key = y.key => x = y
    BY <1>4, <1>5, <1>6 DEF LimitsInv, MemoryInv
  <2>4. ASSUME NEW j \in Servers
        PROVE  /\ \A x \in rlMemory'[j] : \E u \in 0..MaxTime : x.resetAt = u + Window /\ Limits!WindowOf(u) = x.key[2]
               /\ \A x, y \in rlMemory'[j] : x.key = y.key => x = y
    <3>1. CASE j = i BY <1>7, <2>2, <2>3, <3>1
    <3>2. CASE j # i BY <1>7, <3>2 DEF LimitsInv, MemoryInv
    <3> QED BY <3>1, <3>2
  <2> QED BY <1>7, <2>4 DEF MemoryInv
<1>13. rlStore # "steady" /\ StoreInv'
  <2>1. rlStore # "steady" BY <1>2 DEF LimitsInv, AskingInv
  <2> QED BY <1>2, <2>1 DEF LimitsInv, StoreInv
<1>14. ASSUME NEW p \in Quotas, NEW v \in Limits!Windows
       PROVE  /\ Tokens(p, v) \subseteq Servers \X (1..MaxRequests)
              /\ \A j \in Servers, k \in 1..MaxRequests :
                   /\ <<j, k>> \in Tokens(p, v) <=> \E x \in rlMemory[j] : x.key = <<p, v>> /\ k <= x.count
                   /\ <<j, k>> \in Tokens(p, v)' <=> \E x \in rlMemory'[j] : x.key = <<p, v>> /\ k <= x.count
  BY DEF Tokens
<1>15. PICK part : part = {i} \X (1..MaxRequests) OBVIOUS
<1>16. \A j \in Servers, k \in 1..MaxRequests : <<j, k>> \in part <=> j = i BY <1>15
<1>17. IsFiniteSet(part) /\ Cardinality(part) <= MaxRequests BY <1>4, <1>15, TokensAreFinite
<1>18. ASSUME NEW p \in Quotas, NEW v \in Limits!Windows
       PROVE  Tokens(p, v) \ part \subseteq Tokens(p, v)'
  <2>1. ASSUME NEW e \in Tokens(p, v), e \notin part PROVE e \in Tokens(p, v)'
    <3>1. PICK j \in Servers, k \in 1..MaxRequests : e = <<j, k>> BY <1>14, <2>1
    <3>2. j # i BY <1>16, <2>1, <3>1
    <3>3. \E x \in rlMemory'[j] : x.key = <<p, v>> /\ k <= x.count
      BY <1>7, <1>14, <2>1, <3>1, <3>2
    <3> QED BY <1>14, <3>1, <3>3
  <2> QED BY <2>1
<1>19. ASSUME NEW p \in Quotas, NEW v \in Limits!Windows, ~(p = q /\ v = w)
       PROVE  ((Over(p, v) /\ Within(p, v)) \/ Accounted(p, v))'
  <2>0. <<p, v>> # <<q, w>> BY <1>19
  <2>1. rlPassed[p][v] \in Nat /\ rlShared[p][v] \in Nat BY DEF LimitsInv, Limits!TypeOK
  <2>2. rlPassed'[p][v] = rlPassed[p][v] /\ ByStore(p, v)' = ByStore(p, v) /\ ByStore(p, v) \in Nat
    BY <1>2, <1>9, <1>10, <1>19, <2>1 DEF ByStore
  <2>3. ASSUME Over(p, v) PROVE (Over(p, v) /\ Within(p, v))'
    <3>1. rlNow' \in Nat /\ rlNow' >= rlNow
      BY <1>2 DEF LimitsInv, Limits!TypeOK, Limits!RateAssumption
    <3>2. \A d \in Handlers : rlAsking'[d] = Limits!Free \/ rlAsking'[d].time = rlNow
             \/ (rlAsking[d] # Limits!Free /\ rlAsking'[d].quota = rlAsking[d].quota
                                                            /\ rlAsking'[d].time = rlAsking[d].time)
      BY <1>9
    <3>3. Over(p, v)' BY <2>3, <3>1, <3>2, OverStays DEF LimitsInv
    <3>4. PICK more \in {0, 1} : rlResets' = rlResets + more BY <1>5, <1>10
    <3>5. more \in Nat BY <3>4
    <3>6. (Over(p, v) /\ Within(p, v)) \/ Accounted(p, v) BY DEF LimitsInv
    <3>7. Within(p, v)' BY <1>2, <2>2, <3>4, <3>5, <3>6, Stays DEF LimitsInv
    <3> QED BY <3>3, <3>7
  <2>4. ASSUME Accounted(p, v), ~Over(p, v) PROVE Accounted(p, v)'
    <3>1. PICK before, since : before = Tokens(p, v) /\ since = Tokens(p, v)' OBVIOUS
    <3>2. IsFiniteSet(before) /\ IsFiniteSet(since) BY <3>1, TokensAreFinite
    <3>3. /\ Cardinality(before) \in Nat /\ Cardinality(since) \in Nat
          /\ before \subseteq since => Cardinality(before) <= Cardinality(since)
          /\ before \ part \subseteq since => Cardinality(before) <= Cardinality(since) + MaxRequests
      BY <1>10, <1>17, <3>2, Counting
    <3>4. rlPassed[p][v] <= ByStore(p, v) + MaxRequests * rlResets + Cardinality(before)
      BY <2>4, <3>1 DEF Accounted
    <3>5. CASE \A x \in rlMemory[i] : x.key = <<p, v>> => x \in entries
      <4>1. \A x \in rlMemory[i] : x.key = <<p, v>> => x \in rlMemory'[i]
        BY <1>6, <1>7, <2>0, <3>5
      <4>2. ASSUME NEW e \in Tokens(p, v) PROVE e \in Tokens(p, v)'
        <5>1. PICK j \in Servers, k \in 1..MaxRequests : e = <<j, k>> BY <1>14, <4>2
        <5>2. \E x \in rlMemory'[j] : x.key = <<p, v>> /\ k <= x.count
          <6>1. PICK x \in rlMemory[j] : x.key = <<p, v>> /\ k <= x.count BY <1>14, <4>2, <5>1
          <6>2. CASE j = i BY <4>1, <6>1, <6>2
          <6>3. CASE j # i BY <1>7, <6>1, <6>3
          <6> QED BY <6>2, <6>3
        <5> QED BY <1>14, <5>1, <5>2
      <4>3. Cardinality(before) <= Cardinality(since) BY <3>1, <3>3, <4>2
      <4>4. rlPassed[p][v] <= ByStore(p, v) + MaxRequests * rlResets + Cardinality(since)
            /\ rlPassed[p][v] <= ByStore(p, v) + MaxRequests * (rlResets + 1) + Cardinality(since)
        BY <1>10, <2>1, <2>2, <3>3, <3>4, <4>3, Balance
      <4> QED BY <1>5, <2>2, <3>1, <4>4 DEF Accounted
    <3>6. ASSUME NEW x \in rlMemory[i], x.key = <<p, v>>, x \notin entries PROVE Accounted(p, v)'
      <4>1. CASE Limits!Matters(x, c)
        <5>1. rlResets' = rlResets + 1 BY <1>5, <3>6, <4>1
        <5>2. Cardinality(before) <= Cardinality(since) + MaxRequests BY <1>18, <3>1, <3>3
        <5>3. rlPassed[p][v] <= ByStore(p, v) + MaxRequests * (rlResets + 1) + Cardinality(since)
          BY <1>10, <2>1, <2>2, <3>3, <3>4, <5>2, Balance
        <5> QED BY <2>2, <3>1, <5>1, <5>3 DEF Accounted
      <4>2. CASE ~Limits!Matters(x, c)
        <5>1. PICK u \in 0..MaxTime : x.resetAt = u + Window /\ Limits!WindowOf(u) = v
          BY <1>4, <3>6 DEF LimitsInv, MemoryInv
        <5>2. ~(u + Window > t) /\ \A d \in Handlers \ {c} : rlAsking[d] # Limits!Free =>
                 <<rlAsking[d].quota, Limits!WindowOf(rlAsking[d].time)>> # <<p, v>>
          BY <1>3, <3>6, <4>2, <5>1 DEF Limits!Matters
        <5>3. rlNow \in Nat /\ t \in Nat /\ Window \in Nat /\ u \in Nat
          BY <1>4 DEF LimitsInv, Limits!TypeOK, Limits!RateAssumption
        <5>4. u + Window <= rlNow BY <1>4, <5>2, <5>3
        <5>5. v < Limits!WindowOf(rlNow) BY <5>1, <5>3, <5>4, WindowsOfTimes
        <5>6. Over(p, v) BY <1>3, <2>0, <5>2, <5>5 DEF Over
        <5> QED BY <2>4, <5>6
      <4> QED BY <4>1, <4>2
    <3> QED BY <3>5, <3>6
  <2> QED BY <2>3, <2>4 DEF LimitsInv
<1>20. Accounted(q, w)'
  <2>1. rlPassed[q][w] \in Nat /\ rlShared[q][w] \in Nat BY <1>4 DEF LimitsInv, Limits!TypeOK
  <2>2. ByStore(q, w)' = ByStore(q, w) /\ ByStore(q, w) \in Nat
    BY <1>2, <1>10, <2>1 DEF ByStore
  <2>3. rlPassed'[q][w] = rlPassed[q][w] + IF record.count <= MaxRequests THEN 1 ELSE 0
    BY <1>4, <1>9
  <2>4. PICK before, since : before = Tokens(q, w) /\ since = Tokens(q, w)' OBVIOUS
  <2>5. IsFiniteSet(before) /\ IsFiniteSet(since) BY <2>4, TokensAreFinite
  <2>6. /\ Cardinality(before) \in Nat /\ Cardinality(since) \in Nat
        /\ before \subseteq since => Cardinality(before) <= Cardinality(since)
        /\ \A e \in since : e \notin before /\ before \subseteq since => Cardinality(before) + 1 <= Cardinality(since)
        /\ \A e \in since : before \ part \subseteq since \ {e} => Cardinality(before) + 1 <= Cardinality(since) + MaxRequests
    BY <1>10, <1>17, <2>5, Counting
  <2>7. rlPassed[q][w] <= ByStore(q, w) + MaxRequests * rlResets + Cardinality(before)
    BY <1>4, <2>4 DEF Accounted
  <2>8. record \in rlMemory'[i] BY <1>6, <1>7
  <2>9. \A k \in 1..MaxRequests : k <= record.count => <<i, k>> \in since
    BY <1>4, <1>5, <1>14, <2>4, <2>8
  <2>10. before \ part \subseteq since BY <1>4, <1>18, <2>4
  <2>11. /\ Cardinality(before) <= Cardinality(since) =>
              /\ rlPassed[q][w] <= ByStore(q, w) + MaxRequests * rlResets + Cardinality(since)
              /\ rlPassed[q][w] <= ByStore(q, w) + MaxRequests * (rlResets + 1) + Cardinality(since)
         /\ Cardinality(before) + 1 <= Cardinality(since) =>
              /\ rlPassed[q][w] + 1 <= ByStore(q, w) + MaxRequests * rlResets + Cardinality(since)
              /\ rlPassed[q][w] + 1 <= ByStore(q, w) + MaxRequests * (rlResets + 1) + Cardinality(since)
         /\ Cardinality(before) + 1 <= Cardinality(since) + MaxRequests =>
              rlPassed[q][w] + 1 <= ByStore(q, w) + MaxRequests * (rlResets + 1) + Cardinality(since)
    BY <1>10, <2>1, <2>2, <2>6, <2>7, Balance
  <2>12. \A x \in rlMemory[i], k \in 1..MaxRequests :
           x.key = <<q, w>> => (<<i, k>> \in before <=> k <= x.count)
    <3> SUFFICES ASSUME NEW x \in rlMemory[i], NEW k \in 1..MaxRequests, x.key = <<q, w>>
                 PROVE  <<i, k>> \in before <=> k <= x.count
      OBVIOUS
    <3>1. <<i, k>> \in before <=> \E y \in rlMemory[i] : y.key = <<q, w>> /\ k <= y.count
      BY <1>4, <1>14, <2>4
    <3>2. \A y \in rlMemory[i] : y.key = <<q, w>> => y = x BY <1>4 DEF LimitsInv, MemoryInv
    <3> QED BY <3>1, <3>2
  <2>13. CASE \E x \in entries : x.key = <<q, w>> /\ record.count = x.count + 1
    <3>1. PICK x \in entries : x.key = <<q, w>> /\ record.count = x.count + 1 BY <2>13
    <3>2. x \in rlMemory[i] /\ x.count \in Nat BY <1>4, <1>5, <3>1 DEF LimitsInv, Limits!TypeOK
    <3>3. ASSUME NEW e \in before PROVE e \in since
      <4>1. PICK j \in Servers, k \in 1..MaxRequests : e = <<j, k>> BY <1>4, <1>14, <2>4, <3>3
      <4>2. CASE j = i
        <5>1. k <= x.count BY <2>12, <3>1, <3>2, <3>3, <4>1, <4>2
        <5>2. k <= record.count BY <3>1, <3>2, <4>1, <5>1
        <5> QED BY <2>9, <4>1, <4>2, <5>2
      <4>3. CASE j # i BY <1>16, <2>10, <3>3, <4>1, <4>3
      <4> QED BY <4>2, <4>3
    <3>4. CASE record.count <= MaxRequests
      <4>1. record.count \in 1..MaxRequests BY <1>8, <1>10, <3>4
      <4>2. ~(record.count <= x.count) BY <3>1, <3>2
      <4>3. <<i, record.count>> \in since /\ <<i, record.count>> \notin before
        BY <1>8, <2>9, <2>12, <3>1, <3>2, <4>1, <4>2
      <4>4. Cardinality(before) + 1 <= Cardinality(since) BY <2>6, <3>3, <4>3
      <4> QED BY <1>5, <2>2, <2>3, <2>4, <2>11, <3>4, <4>4 DEF Accounted
    <3>5. CASE ~(record.count <= MaxRequests)
      <4>1. Cardinality(before) <= Cardinality(since) BY <2>6, <3>3
      <4>2. rlPassed'[q][w] = rlPassed[q][w] BY <2>1, <2>3, <3>5
      <4> QED BY <1>5, <2>2, <2>4, <2>11, <4>1, <4>2 DEF Accounted
    <3> QED BY <3>4, <3>5
  <2>14. CASE record.count = 1 /\ \A x \in entries : x.key # <<q, w>>
    <3>1. 1 \in 1..MaxRequests BY <1>10
    <3>2. <<i, 1>> \in since BY <1>8, <2>9, <2>14, <3>1
    <3>3. <<i, 1>> \in part BY <1>4, <1>16, <3>1
    <3>4. rlPassed'[q][w] = rlPassed[q][w] + 1 BY <1>10, <2>3, <2>14
    <3>5. CASE \E x \in rlMemory[i] : x.key = <<q, w>>
      <4>1. PICK x \in rlMemory[i] : x.key = <<q, w>> BY <3>5
      <4>2. x \notin entries BY <2>14, <4>1
      <4>3. Limits!Matters(x, c) BY <1>2, <1>3, <4>1, OwnRecordCounts DEF Limits!Matters
      <4>4. rlResets' = rlResets + 1 BY <1>5, <4>2, <4>3
      <4>5. before \ part \subseteq since \ {<<i, 1>>} BY <2>10, <3>3
      <4>6. Cardinality(before) + 1 <= Cardinality(since) + MaxRequests BY <2>6, <3>2, <4>5
      <4> QED BY <2>2, <2>4, <2>11, <3>4, <4>4, <4>6 DEF Accounted
    <3>6. CASE ~\E x \in rlMemory[i] : x.key = <<q, w>>
      <4>1. ASSUME NEW e \in before PROVE e \notin part
        <5>1. PICK j \in Servers, k \in 1..MaxRequests : e = <<j, k>> BY <1>4, <1>14, <2>4, <4>1
        <5>2. <<j, k>> \in Tokens(q, w) BY ONLY <2>4, <4>1, <5>1
        <5>3. \E x \in rlMemory[j] : x.key = <<q, w>> BY ONLY <5>2 DEF Tokens
        <5> QED BY <1>16, <3>6, <5>1, <5>3
      <4>2. before \subseteq since /\ <<i, 1>> \notin before BY <2>10, <3>3, <4>1
      <4>3. Cardinality(before) + 1 <= Cardinality(since) BY <2>6, <3>2, <4>2
      <4> QED BY <1>5, <2>2, <2>4, <2>11, <3>4, <4>3 DEF Accounted
    <3> QED BY <3>5, <3>6
  <2> QED BY <1>5, <2>13, <2>14
<1> QED BY <1>9, <1>11, <1>12, <1>13, <1>19, <1>20 DEF LimitsInv

LEMMA RestartStep ==
  ASSUME Limits!RateAssumption, LimitsInv, NEW i \in Servers, Limits!Restart(i)
  PROVE  LimitsInv'
<1>1. /\ rlResets' = rlResets + 1 /\ rlMemory[i] # {}
      /\ rlMemory' = [rlMemory EXCEPT ![i] = {}]
      /\ rlAsking' = [c \in Handlers |-> IF rlAsking[c].instance = i THEN Limits!Free ELSE rlAsking[c]]
      /\ UNCHANGED <<rlStore, rlNow, rlShared, rlPassed, rlAsked>>
  BY DEF Limits!Restart
<1>2. rlMemory \in [Servers -> SUBSET Record] BY DEF LimitsInv, MemoryInv
<1>3. /\ rlMemory' \in [Servers -> SUBSET Record]
      /\ rlMemory'[i] = {} /\ \A j \in Servers \ {i} : rlMemory'[j] = rlMemory[j]
  BY <1>1, <1>2
<1>4. rlResets \in Nat /\ rlResets' \in Nat /\ MaxRequests \in Nat /\ rlNow \in Nat /\ 0 \in 0..MaxTime
  BY <1>1 DEF LimitsInv, Limits!TypeOK, Limits!RateAssumption
<1>5. \A c \in Handlers : rlAsking'[c] = Limits!Free \/ rlAsking'[c] = rlAsking[c] BY <1>1
<1>6. rlAsking' \in [Handlers -> [at : {"idle", "shared", "local"}, instance : Servers \cup {Nobody},
                  quota : Quotas \cup {Nobody}, time : 0..MaxTime]]
  <2>1. Limits!Free \in [at : {"idle", "shared", "local"}, instance : Servers \cup {Nobody},
                       quota : Quotas \cup {Nobody}, time : 0..MaxTime]
    BY <1>4 DEF Limits!Free
  <2>2. rlAsking \in [Handlers -> [at : {"idle", "shared", "local"}, instance : Servers \cup {Nobody},
                  quota : Quotas \cup {Nobody}, time : 0..MaxTime]]
    BY DEF LimitsInv, Limits!TypeOK
  <2> QED BY <1>1, <2>1, <2>2
<1>7. Limits!TypeOK' BY <1>1, <1>3, <1>4, <1>6 DEF LimitsInv, Limits!TypeOK, Record
<1>8. AskingInv' BY <1>1, <1>5 DEF LimitsInv, AskingInv
<1>9. MemoryInv'
  <2>1. ASSUME NEW j \in Servers
        PROVE  /\ \A x \in rlMemory'[j] : \E t \in 0..MaxTime : x.resetAt = t + Window /\ Limits!WindowOf(t) = x.key[2]
               /\ \A x, y \in rlMemory'[j] : x.key = y.key => x = y
    <3>1. CASE j = i BY <1>3, <3>1
    <3>2. CASE j # i BY <1>3, <3>2 DEF LimitsInv, MemoryInv
    <3> QED BY <3>1, <3>2
  <2> QED BY <1>3, <2>1 DEF MemoryInv
<1>10. StoreInv' BY <1>1 DEF LimitsInv, StoreInv
<1>11. ASSUME NEW p \in Quotas, NEW v \in Limits!Windows
       PROVE  ((Over(p, v) /\ Within(p, v)) \/ Accounted(p, v))'
  <2>1. rlPassed[p][v] \in Nat /\ rlShared[p][v] \in Nat BY DEF LimitsInv, Limits!TypeOK
  <2>2. ByStore(p, v)' = ByStore(p, v) /\ ByStore(p, v) \in Nat BY <1>1, <1>4, <2>1 DEF ByStore
  <2>3. CASE Over(p, v) /\ Within(p, v)
    <3>1. rlNow' \in Nat /\ rlNow' >= rlNow BY <1>1, <1>4
    <3>2. \A d \in Handlers : rlAsking'[d] = Limits!Free \/ rlAsking'[d].time = rlNow
             \/ (rlAsking[d] # Limits!Free /\ rlAsking'[d].quota = rlAsking[d].quota
                                                            /\ rlAsking'[d].time = rlAsking[d].time)
      BY <1>5
    <3>3. Over(p, v)' BY <2>3, <3>1, <3>2, OverStays DEF LimitsInv
    <3>4. PICK more \in Nat : more = 1 OBVIOUS
    <3>5. Within(p, v)' BY <1>1, <2>3, <3>4, Stays DEF LimitsInv
    <3> QED BY <3>3, <3>5
  <2>4. CASE Accounted(p, v)
    <3>1. PICK before, since, part :
            before = Tokens(p, v) /\ since = Tokens(p, v)' /\ part = {i} \X (1..MaxRequests)
      OBVIOUS
    <3>2. IsFiniteSet(before) /\ IsFiniteSet(since) /\ IsFiniteSet(part) /\ Cardinality(part) <= MaxRequests
      BY <3>1, TokensAreFinite
    <3>3. before \ part \subseteq since
      <4>1. ASSUME NEW e \in before, e \notin part PROVE e \in since
        <5>1. PICK j \in Servers, k \in 1..MaxRequests :
                e = <<j, k>> /\ \E x \in rlMemory[j] : x.key = <<p, v>> /\ k <= x.count
          BY <3>1, <4>1 DEF Tokens
        <5>2. j # i BY <3>1, <4>1, <5>1
        <5>3. \E x \in rlMemory'[j] : x.key = <<p, v>> /\ k <= x.count BY <1>3, <5>1, <5>2
        <5> QED BY <3>1, <5>1, <5>3 DEF Tokens
      <4> QED BY <4>1
    <3>4. /\ Cardinality(before) \in Nat /\ Cardinality(since) \in Nat
          /\ Cardinality(before) <= Cardinality(since) + MaxRequests
      BY <1>4, <3>2, <3>3, Counting
    <3>5. rlPassed[p][v] <= ByStore(p, v) + MaxRequests * rlResets + Cardinality(before)
      BY <2>4, <3>1 DEF Accounted
    <3>6. rlPassed[p][v] <= ByStore(p, v) + MaxRequests * (rlResets + 1) + Cardinality(since)
      BY <1>4, <2>1, <2>2, <3>4, <3>5, Balance
    <3> QED BY <1>1, <2>2, <3>1, <3>6 DEF Accounted
  <2> QED BY <2>3, <2>4 DEF LimitsInv
<1> QED BY <1>7, <1>8, <1>9, <1>10, <1>11 DEF LimitsInv

\* Every step keeps the invariant.
LEMMA LimitsStep ==
  ASSUME Limits!RateAssumption, LimitsInv, [Limits!Next]_(Limits!vars)
  PROVE  LimitsInv'
<1>1. CASE UNCHANGED Limits!vars
  <2>1. UNCHANGED <<rlStore, rlNow, rlShared, rlMemory, rlAsking, rlPassed, rlAsked, rlResets>>
    BY <1>1 DEF Limits!vars, Limits!counters, Limits!counts
  <2>2. Limits!TypeOK' BY ONLY LimitsInv, <2>1 DEF LimitsInv, Limits!TypeOK
  <2>3. AskingInv' BY ONLY LimitsInv, <2>1 DEF LimitsInv, AskingInv
  <2>4. MemoryInv' /\ StoreInv' BY ONLY LimitsInv, <2>1 DEF LimitsInv, MemoryInv, StoreInv
  <2>5. ASSUME NEW q \in Quotas, NEW w \in Limits!Windows
        PROVE  ((Over(q, w) /\ Within(q, w)) \/ Accounted(q, w))'
    <3>1. (Over(q, w) /\ Within(q, w)) \/ Accounted(q, w) BY ONLY LimitsInv, <2>5 DEF LimitsInv
    <3>2. Over(q, w)' = Over(q, w) BY ONLY <2>1 DEF Over
    <3>3. Within(q, w)' = Within(q, w) BY ONLY <2>1 DEF Within, Limits!Memories
    <3>4. Tokens(q, w)' = Tokens(q, w) BY ONLY <2>1 DEF Tokens
    <3>5. Accounted(q, w)' = Accounted(q, w) BY ONLY <2>1, <3>4 DEF Accounted, ByStore
    <3> QED BY ONLY <3>1, <3>2, <3>3, <3>5
  <2> QED BY <2>2, <2>3, <2>4, <2>5 DEF LimitsInv
<1>2. CASE Limits!Tick BY <1>2, TickStep
<1>3. CASE \E i \in Servers : Limits!Restart(i) BY <1>3, RestartStep
<1>4. ASSUME NEW c \in Handlers,
             Limits!CountShared(c) \/ Limits!SharedFails(c) \/ Limits!CountLocal(c)
             \/ \E i \in Servers, q \in Quotas : Limits!Ask(c, i, q)
      PROVE  LimitsInv'
  BY <1>4, CountSharedStep, SharedFailsStep, CountLocalStep, AskStep
<1> QED BY <1>1, <1>2, <1>3, <1>4 DEF Limits!Next

\* What the invariant is for.
LEMMA LimitsSafe == ASSUME Limits!RateAssumption
  PROVE LimitsInv => Limits!TypeOK /\ Limits!QuotaHolds
BY AccountedIsWithin DEF LimitsInv, Limits!QuotaHolds, Within

=============================================================================
