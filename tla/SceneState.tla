----------------------------- MODULE SceneState -----------------------------
(***************************************************************************)
(* The state of the services of the portal side by side: scene names the one*)
(* that moves.  Documents keeps its own names; the variables of the others *)
(* are prefixed.  A constant is named as in the module it is for, unless two*)
(* of them differ in what it means.                                        *)
(***************************************************************************)
EXTENDS Documents, Integers, Sequences

CONSTANTS
  Handlers,                       \* handlers alive at one time, in every scene
  Officers, Pages, Texts, Letters, MaxDraws, MaxHistory,            \* contact
  Servers, Quotas, Window, MaxRequests, MemoryMaxKeys, MaxTime, MaxAsked, MaxResets, \* limits
  Accounts, Addresses, Sessions, Links,                             \* moves
  Factors, Mails, Secrets, MaxKeys,                                 \* seals
  Descriptions, FieldLines, NoticeLines, Tables,                    \* sheets
  Typed, MaxTyped, Widths, WidthOf(_),                              \* texts
  Signers, SignerRole, Client, ValidUntil,                          \* decisions
  Prices, Quantities, MaxCents, MaxQuantity, MaxLines,              \* totals
  Queries,                                                          \* signin
  Roles, IdleTimeout, AbsoluteTimeout, TouchInterval, MaxAge, MaxDelay, \* sessions
  Statuses, Filters, PageSize, MaxPage, HistoryLimit, MaxRows, MaxMoves, \* lists
  MaxWrong,                                                         \* deployment
  Values,                                                           \* migrations
  Clients, Operators, Requests, Messages,                           \* seeds
  Desks, NotePageSize, MaxNotes,                                   \* notes
  Phones, Names, MaxSent                                            \* profile

VARIABLES
  scene,
  msgMessage, msgHistory, msgReceipts, msgForm, msgStage, msgPost, msgEditor,
  msgChange,
  rlStore, rlNow, rlShared, rlMemory, rlAsking, rlPassed, rlAsked, rlResets,
  adAddress, adActive, adSession, adLink, adStep, adRead, adOwned,
  ssRunning, ssKey, ssSealed, ssMeant, ssScript, ssOld, ssNew, ssFound,
  pgTodo, pgPage, pgCursorY, pgDrawn, pgFooters,
  txSafe, txWidth, txStep, txAt, txLines, txCurrent,
  qdStatus, qdSignedAt, qdNow, qdHandlers, qdDecided,
  moState, moLines, moAmountHt, moVatAmount, moByRate,
  siRole, siFactor, siSession, siChallenge, siAddress, siNext, siShown, siHops,
  siForm, siCall, siAnswer, siAsked,
  slNow, slRole, slCreatedAt, slExpiresAt, slLastSeenAt, slRevokedAt, slEnabled,
  slRequests, slUsed, slVerdict,
  rqRows, rqMoves, rqWalk, rqDetail,
  enEnv, enMode, enProcess,
  miTables, miJournal, miAccounts, miLegacy, miMade, miBuffer, miFactors, miStep, miFound,
  sdMode, sdUsers, sdFactors, sdRows, sdNotes, sdStep, sdAt, sdTodo, sdCreated, sdTorn,
  noKept, noNotes, noContent, noSaving, noFeedback, noShown, noCall, noTyped,
  prUser, prForm, prSaving, prFeedback, prCall, prSent, prTold, prWritten

msgVars == <<msgMessage, msgHistory, msgReceipts, msgForm, msgStage, msgPost,
             msgEditor, msgChange>>
rlVars == <<rlStore, rlNow, rlShared, rlMemory, rlAsking, rlPassed, rlAsked, rlResets>>
adVars == <<adAddress, adActive, adSession, adLink, adStep, adRead, adOwned>>
ssVars == <<ssRunning, ssKey, ssSealed, ssMeant, ssScript, ssOld, ssNew, ssFound>>
pgVars == <<pgTodo, pgPage, pgCursorY, pgDrawn, pgFooters>>
txVars == <<txSafe, txWidth, txStep, txAt, txLines, txCurrent>>
qdVars == <<qdStatus, qdSignedAt, qdNow, qdHandlers, qdDecided>>
moVars == <<moState, moLines, moAmountHt, moVatAmount, moByRate>>
siVars == <<siRole, siFactor, siSession, siChallenge, siAddress, siNext, siShown, siHops,
            siForm, siCall, siAnswer, siAsked>>
slVars == <<slNow, slRole, slCreatedAt, slExpiresAt, slLastSeenAt, slRevokedAt, slEnabled,
            slRequests, slUsed, slVerdict>>
rqVars == <<rqRows, rqMoves, rqWalk, rqDetail>>
enVars == <<enEnv, enMode, enProcess>>
miVars == <<miTables, miJournal, miAccounts, miLegacy, miMade, miBuffer, miFactors, miStep,
            miFound>>
sdVars == <<sdMode, sdUsers, sdFactors, sdRows, sdNotes, sdStep, sdAt, sdTodo, sdCreated,
            sdTorn>>
noVars == <<noKept, noNotes, noContent, noSaving, noFeedback, noShown, noCall, noTyped>>
prVars == <<prUser, prForm, prSaving, prFeedback, prCall, prSent, prTold, prWritten>>

\* The parts of what stands still while another scene moves.
tableVars == <<msgVars, rlVars, adVars, ssVars>>
readerVars == <<pgVars, txVars, qdVars, moVars, siVars, slVars, rqVars>>
scriptVars == <<enVars, miVars, sdVars>>
panelVars == <<noVars, prVars>>
=============================================================================
