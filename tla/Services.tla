------------------------------ MODULE Services ------------------------------
(***************************************************************************)
(* Services of the portal that share no table and no object, side by side. *)
(* A behaviour of one takes nothing from another, so each is run alone,    *)
(* from the initial state of them all: scene names the one that moves, and *)
(* the others stay as they are.                                            *)
(***************************************************************************)
EXTENDS ServerScenes, PageScenes

ASSUME ConstantsAreSound ==
  /\ DocumentAssumption
  /\ Inbox!ContactAssumption
  /\ Limits!RateAssumption /\ Moves!AddressAssumption /\ Seals!SealAssumption
  /\ Decided!DecisionAssumption /\ Sums!MoneyAssumption /\ Lives!LifeAssumption
  /\ Browser!SignInAssumption
  /\ Lists!ListsAssumption /\ Deployment!EnvironmentAssumption
  /\ Moved!MigrationAssumption /\ Seeded!SeedAssumption /\ Panels!NotesAssumption
  /\ Particulars!ProfileAssumption /\ Sheets!SheetsAssumption /\ Printed!TextAssumption

Scenes == {"summaries", "inbox", "limits", "moves", "seals",
           "sheets", "texts", "decisions", "totals", "signin", "sessions", "lists",
           "deployment", "migrations", "seeds", "notes", "profile"}

\* The variables of a scene that does not move hold nothing.
Asleep(v) == v = Nobody

\* Each scene starts wherever its module does.
ServicesInit ==
  /\ scene \in Scenes
  /\ Init /\ (scene # "summaries" => print = CHOOSE p \in Prints : TRUE)
  /\ IF scene = "inbox" THEN Inbox!Init
     ELSE /\ Asleep(msgMessage) /\ Asleep(msgHistory) /\ Asleep(msgReceipts) /\ Asleep(msgForm)
          /\ Asleep(msgStage) /\ Asleep(msgPost) /\ Asleep(msgEditor) /\ Asleep(msgChange)
  /\ IF scene = "limits" THEN Limits!Init
     ELSE /\ Asleep(rlStore) /\ Asleep(rlNow) /\ Asleep(rlShared) /\ Asleep(rlMemory)
          /\ Asleep(rlAsking) /\ Asleep(rlPassed) /\ Asleep(rlAsked) /\ Asleep(rlResets)
  /\ IF scene = "moves" THEN Moves!Init
     ELSE /\ Asleep(adAddress) /\ Asleep(adActive) /\ Asleep(adSession) /\ Asleep(adLink)
          /\ Asleep(adStep) /\ Asleep(adRead) /\ Asleep(adOwned)
  /\ IF scene = "seals" THEN Seals!Init
     ELSE /\ Asleep(ssRunning) /\ Asleep(ssKey) /\ Asleep(ssSealed) /\ Asleep(ssMeant)
          /\ Asleep(ssScript) /\ Asleep(ssOld) /\ Asleep(ssNew) /\ Asleep(ssFound)
  /\ IF scene = "sheets" THEN Sheets!Init
     ELSE /\ Asleep(pgTodo) /\ Asleep(pgPage) /\ Asleep(pgCursorY) /\ Asleep(pgDrawn)
          /\ Asleep(pgFooters)
  /\ IF scene = "texts" THEN Printed!Init
     ELSE /\ Asleep(txSafe) /\ Asleep(txWidth) /\ Asleep(txStep) /\ Asleep(txAt)
          /\ Asleep(txLines) /\ Asleep(txCurrent)
  /\ IF scene = "decisions" THEN Decided!Init
     ELSE /\ Asleep(qdStatus) /\ Asleep(qdSignedAt) /\ Asleep(qdNow) /\ Asleep(qdHandlers)
          /\ Asleep(qdDecided)
  /\ IF scene = "totals" THEN Sums!Init
     ELSE /\ Asleep(moState) /\ Asleep(moLines) /\ Asleep(moAmountHt) /\ Asleep(moVatAmount)
          /\ Asleep(moByRate)
  /\ IF scene = "signin" THEN Browser!Init
     ELSE /\ Asleep(siRole) /\ Asleep(siFactor) /\ Asleep(siSession) /\ Asleep(siChallenge)
          /\ Asleep(siAddress) /\ Asleep(siNext) /\ Asleep(siShown) /\ Asleep(siHops)
          /\ Asleep(siForm) /\ Asleep(siCall) /\ Asleep(siAnswer) /\ Asleep(siAsked)
  /\ IF scene = "sessions" THEN Lives!Init
     ELSE /\ Asleep(slNow) /\ Asleep(slRole) /\ Asleep(slCreatedAt) /\ Asleep(slExpiresAt)
          /\ Asleep(slLastSeenAt) /\ Asleep(slRevokedAt) /\ Asleep(slEnabled)
          /\ Asleep(slRequests) /\ Asleep(slUsed) /\ Asleep(slVerdict)
  /\ IF scene = "lists" THEN Lists!Init
     ELSE /\ Asleep(rqRows) /\ Asleep(rqMoves) /\ Asleep(rqWalk) /\ Asleep(rqDetail)
  /\ IF scene = "deployment" THEN Deployment!Init
     ELSE /\ Asleep(enEnv) /\ Asleep(enMode) /\ Asleep(enProcess)
  /\ IF scene = "migrations" THEN Moved!Init
     ELSE /\ Asleep(miTables) /\ Asleep(miJournal) /\ Asleep(miAccounts) /\ Asleep(miLegacy)
          /\ Asleep(miMade) /\ Asleep(miBuffer) /\ Asleep(miFactors) /\ Asleep(miStep)
          /\ Asleep(miFound)
  /\ IF scene = "seeds" THEN Seeded!Init
     ELSE /\ Asleep(sdMode) /\ Asleep(sdUsers) /\ Asleep(sdFactors) /\ Asleep(sdRows)
          /\ Asleep(sdNotes) /\ Asleep(sdStep) /\ Asleep(sdAt) /\ Asleep(sdTodo)
          /\ Asleep(sdCreated) /\ Asleep(sdTorn)
  /\ IF scene = "notes" THEN Panels!Init
     ELSE /\ Asleep(noKept) /\ Asleep(noNotes) /\ Asleep(noContent) /\ Asleep(noSaving)
          /\ Asleep(noFeedback) /\ Asleep(noShown) /\ Asleep(noCall) /\ Asleep(noTyped)
  /\ IF scene = "profile" THEN Particulars!Init
     ELSE /\ Asleep(prUser) /\ Asleep(prForm) /\ Asleep(prSaving) /\ Asleep(prFeedback)
          /\ Asleep(prCall) /\ Asleep(prSent) /\ Asleep(prTold) /\ Asleep(prWritten)

SummaryStep ==
  scene = "summaries" /\ Next
  /\ UNCHANGED <<scene, tableVars, readerVars, scriptVars, panelVars>>
ContactStep ==
  scene = "inbox" /\ Inbox!Next
  /\ UNCHANGED <<scene, vars, rlVars, adVars, ssVars, readerVars, scriptVars, panelVars>>
LimitStep ==
  scene = "limits" /\ Limits!Next
  /\ UNCHANGED <<scene, vars, msgVars, adVars, ssVars, readerVars, scriptVars, panelVars>>
MoveStep ==
  scene = "moves" /\ Moves!Next
  /\ UNCHANGED <<scene, vars, msgVars, rlVars, ssVars, readerVars, scriptVars, panelVars>>
SealStep ==
  scene = "seals" /\ Seals!Next
  /\ UNCHANGED <<scene, vars, msgVars, rlVars, adVars, readerVars, scriptVars, panelVars>>
SheetStep ==
  scene = "sheets" /\ Sheets!Next
  /\ UNCHANGED <<scene, vars, tableVars, txVars, qdVars, moVars, siVars, slVars, rqVars, scriptVars, panelVars>>
TextStep ==
  scene = "texts" /\ Printed!Next
  /\ UNCHANGED <<scene, vars, tableVars, pgVars, qdVars, moVars, siVars, slVars, rqVars, scriptVars, panelVars>>
DecisionStep ==
  scene = "decisions" /\ Decided!Next
  /\ UNCHANGED <<scene, vars, tableVars, pgVars, txVars, moVars, siVars, slVars, rqVars, scriptVars, panelVars>>
TotalStep ==
  scene = "totals" /\ Sums!Next
  /\ UNCHANGED <<scene, vars, tableVars, pgVars, txVars, qdVars, siVars, slVars, rqVars, scriptVars, panelVars>>
BrowserStep ==
  scene = "signin" /\ Browser!Next
  /\ UNCHANGED <<scene, vars, tableVars, pgVars, txVars, qdVars, moVars, slVars, rqVars, scriptVars, panelVars>>
SessionStep ==
  scene = "sessions" /\ Lives!Next
  /\ UNCHANGED <<scene, vars, tableVars, pgVars, txVars, qdVars, moVars, siVars, rqVars, scriptVars, panelVars>>
ListStep ==
  scene = "lists" /\ Lists!Next
  /\ UNCHANGED <<scene, vars, tableVars, pgVars, txVars, qdVars, moVars, siVars, slVars, scriptVars, panelVars>>
DeploymentStep ==
  scene = "deployment" /\ Deployment!Next
  /\ UNCHANGED <<scene, vars, tableVars, readerVars, miVars, sdVars, panelVars>>
MigrationStep ==
  scene = "migrations" /\ Moved!Next
  /\ UNCHANGED <<scene, vars, tableVars, readerVars, enVars, sdVars, panelVars>>
SeedStep ==
  scene = "seeds" /\ Seeded!Next
  /\ UNCHANGED <<scene, vars, tableVars, readerVars, enVars, miVars, panelVars>>
NoteStep ==
  scene = "notes" /\ Panels!Next
  /\ UNCHANGED <<scene, vars, tableVars, readerVars, scriptVars, prVars>>
ProfileStep ==
  scene = "profile" /\ Particulars!Next
  /\ UNCHANGED <<scene, vars, tableVars, readerVars, scriptVars, noVars>>

ServicesNext ==
  \/ SummaryStep \/ ContactStep \/ LimitStep \/ MoveStep \/ SealStep
  \/ SheetStep \/ TextStep \/ DecisionStep \/ TotalStep \/ BrowserStep \/ SessionStep
  \/ ListStep \/ DeploymentStep \/ MigrationStep \/ SeedStep \/ NoteStep \/ ProfileStep

servicesVars == <<scene, vars, tableVars, readerVars, scriptVars, panelVars>>

ServicesSpec == ServicesInit /\ [][ServicesNext]_servicesVars

-----------------------------------------------------------------------------
(* Properties: those of Documents under their own names, and the ones of    *)
(* the other modules.                                                      *)

\* Every module is well typed.
TypesHold ==
  /\ scene \in Scenes
  /\ scene = "summaries" => TypeOK
  /\ scene = "inbox" => Inbox!TypeOK
  /\ scene = "limits" => Limits!TypeOK
  /\ scene = "moves" => Moves!TypeOK
  /\ scene = "seals" => Seals!TypeOK
  /\ scene = "sheets" => Sheets!TypeOK
  /\ scene = "texts" => Printed!TypeOK
  /\ scene = "decisions" => Decided!TypeOK
  /\ scene = "totals" => Sums!TypeOK
  /\ scene = "signin" => Browser!TypeOK
  /\ scene = "sessions" => Lives!TypeOK
  /\ scene = "lists" => Lists!TypeOK
  /\ scene = "deployment" => Deployment!TypeOK
  /\ scene = "migrations" => Moved!TypeOK
  /\ scene = "seeds" => Seeded!TypeOK
  /\ scene = "notes" => Panels!TypeOK
  /\ scene = "profile" => Particulars!TypeOK

\* What a form says is saved is kept, once, as it was typed: a message of the contact
\* form with its receipt and its history, a note of an officer, the particulars of a client.
WhatIsSentIsKept ==
  /\ scene = "inbox" => Inbox!KeptOnce /\ Inbox!HistoryTellsMessage
  /\ scene = "notes" => Panels!NothingTypedIsLost /\ Panels!SavedIsShown
  /\ scene = "profile" => Particulars!SavedIsStored

\* A quota lets so many requests through in a window, by the store and by memory.
QuotaHolds == scene = "limits" => Limits!QuotaHolds

\* An account is at an address of its own that it proved.
AddressesAreProved == scene = "moves" => Moves!AddressesAreProved

\* A script that failed, was killed or is run again leaves what it is for: secrets the
\* application can open, second factors in their new table, one acceptance data set.
ScriptsRunAgain ==
  /\ scene = "seals" => Seals!SecretsStayReadable
  /\ scene = "migrations" => Moved!SecretsMoved
  /\ scene = "seeds" => Seeded!NotedOnce /\ Seeded!SeedIsWhole

\* A server that starts has all that its handlers read later.
StartedIsConfigured ==
  scene = "deployment" =>
    Deployment!NothingIsFoundLate /\ Deployment!ProductionIsProtected /\ Deployment!CheckTellsStart

\* Nothing of a summary runs over the end of a page, nor over the end of a line.
SummariesAreReadable ==
  /\ scene = "sheets" => Sheets!PagesAreReadable
  /\ scene = "texts" => Printed!LinesHold

\* A quote is decided once, and the breakdown of its total by VAT rate adds up to it.
QuotesAreSound ==
  /\ scene = "decisions" => Decided!DecidedOnce
  /\ scene = "totals" => Sums!TotalsAddUp

\* A login leads back to the page it was asked for, and nobody goes in circles.
ReturnsWhereAsked == scene = "signin" => Browser!RedirectsEnd /\ Browser!ReturnsWhereAsked

\* A session lives as long as its timeouts say.
TimeoutsHold == scene = "sessions" => Lives!TimeoutsHold

\* A walk through the pages of a list misses what left it, at most, and the history of
\* a request explains the status shown above it.
ListsAreTrue == scene = "lists" => Lists!MissedOnlyByRaces /\ Lists!StatusIsExplained
=============================================================================
