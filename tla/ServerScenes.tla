---------------------------- MODULE ServerScenes ----------------------------
(***************************************************************************)
(* The services that run on a server alone: the scripts of a deployment and*)
(* its variables, handlers that move an account or decide on a quote, totals,*)
(* sessions and quotas.                                                    *)
(***************************************************************************)
EXTENDS SceneState

\* The rotation as it is documented: the application is stopped.
Seals == INSTANCE SealedSecrets WITH
  WritesStopped <- TRUE, AckLoss <- FALSE, NoSecret <- Nobody,
  running <- ssRunning, key <- ssKey, sealed <- ssSealed, meant <- ssMeant,
  script <- ssScript, old <- ssOld, new <- ssNew, found <- ssFound

\* Runs of migrate-database, with the application stopped.
Moved == INSTANCE Migrations WITH
  Calls <- Handlers, StopsFirst <- TRUE, Settled <- TRUE, NoValue <- Nobody,
  tables <- miTables, journal <- miJournal, accounts <- miAccounts, legacy <- miLegacy,
  made <- miMade, buffer <- miBuffer, factors <- miFactors, step <- miStep, found <- miFound

\* Runs of db:seed one after another, whatever becomes of each.
Seeded == INSTANCE Seeds WITH
  Calls <- Handlers, OneAtATime <- TRUE,
  mode <- sdMode, users <- sdUsers, factors <- sdFactors, rows <- sdRows, notes <- sdNotes,
  step <- sdStep, at <- sdAt, todo <- sdTodo, created <- sdCreated, torn <- sdTorn

\* Some variables are not set as they should be.
Deployment == INSTANCE Environment WITH env <- enEnv, mode <- enMode, process <- enProcess

\* Accounts that ask for one another's address.
Moves == INSTANCE AddressChanges WITH
  Calls <- Handlers, NoAddress <- Nobody,
  address <- adAddress, active <- adActive, session <- adSession, link <- adLink,
  step <- adStep, read <- adRead, owned <- adOwned

\* Whoever decides on a quote of Client.
Decided == INSTANCE QuoteDecisions WITH
  Calls <- Handlers, Users <- Signers, RoleOf <- SignerRole, Owner <- Client,
  NoUser <- Nobody, NoTime <- Nobody,
  status <- qdStatus, signedAt <- qdSignedAt, now <- qdNow, handlers <- qdHandlers,
  decided <- qdDecided

Sums == INSTANCE Money WITH
  state <- moState, lines <- moLines, amountHt <- moAmountHt, vatAmount <- moVatAmount,
  byRate <- moByRate

Lives == INSTANCE SessionLife WITH
  Calls <- Handlers, MaxTime <- MaxAge, NoTime <- Nobody,
  now <- slNow, role <- slRole, createdAt <- slCreatedAt, expiresAt <- slExpiresAt,
  lastSeenAt <- slLastSeenAt, revokedAt <- slRevokedAt, enabled <- slEnabled,
  requests <- slRequests, used <- slUsed, verdict <- slVerdict

\* Servers that share a store count the requests of some quotas.
Limits == INSTANCE RateLimits WITH
  Calls <- Handlers, Instances <- Servers, NoCall <- Nobody,
  store <- rlStore, now <- rlNow, shared <- rlShared, memory <- rlMemory,
  asking <- rlAsking, passed <- rlPassed, asked <- rlAsked, resets <- rlResets
=============================================================================
