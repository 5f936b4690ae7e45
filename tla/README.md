# Verification of zlobodan-couverture

The application is a Next.js server over PostgreSQL, an SMTP provider, a private object store
and (optionally) a Redis counter store. Its handlers run concurrently on several instances, a
scheduler starts scripts beside them, and any of them can die between two statements. This
directory holds TLA+ models of the services that carry this logic, TLC runs that check them on
small instances, and TLAPS proofs about them for instances of every size.

    tlc -workers 2 -config MCAccounts_access.cfg MCAccounts     # one run
    tlapm Accounts_proofs.tla                                   # one proof module

`PROJECT.json` lists the components, the runs, the lines of the source each definition models,
the mutants that show each property can fail, the hazards and the theorems.

## 1. Inventory

| Component | State | Operations | Hard behaviour | Correct when |
|---|---|---|---|---|
| Notification outbox (`notification-outbox-service.ts`) | rows of `notification_outbox` | insert in a business transaction; `dispatchNotificationOutbox` | overlapping runs, leases, crash between hand-over and update, lost acknowledgement | one run at a time holds a row, a row is never given up early or marked sent unsent, every row settles |
| Quote requests (`quote-draft-service.ts`, `quote-request-service.ts`, `client-portal-service.ts`, wizard hooks, `cleanup-expired-drafts.ts`) | `quote_requests` and its history, the wizard page | save a draft, submit, change status, cancel, purge | retries after lost answers, pages that share a draft, two officers, purge against submission | submitted once, history is a walk to the status, a submitted request is kept, a 201 is true |
| Attachments (`upload-service.ts`, `private-object-store.ts`, `cleanup-orphaned-uploads.ts`) | objects, `quote_attachments` | put a batch, commit, compensate, clean up | the store takes no part in transactions, late puts, deaths, two reads of the script | no row without its object, no partial batch confirmed, no orphan for ever |
| Accounts (`services/auth/*`, `session-guard.ts`, `login-throttle.ts`) | `users`, token tables, `sessions`, counters | register, verify, log in, lock, reset and change the password, revoke sessions, disable, enable | values read before a slow hash and written after it, concurrent links, partial failure | only allowed accounts are served, a new password ends the past, links work once |
| Second factor (`two-factor-service.ts`, `two-factor-account-service.ts`, `completeTwoFactorLogin`) | `user_two_factor`, recovery codes, challenges | set up, confirm, challenge, regenerate, disable | setup against activation, attempts and time steps under overlap, statements outside the transaction | what is enabled was verified, a code or step is used once, a challenge is bounded |
| E-mail change (`email-change-service.ts`) | `email_change_requests` | request, confirm | partial unique index, expiry, row locks | an address belongs to one account that proved it, an expired request blocks nobody |
| Documents (`lib/documents/*`) | `documents`, `document_versions`, objects | generate, publish, read, show the panel | three-step generation, overlap, order of publication | the published version has its file and stays, readers get what is published and are entitled to |
| Contact messages (`ContactForm.tsx`, `contact-service.ts`, repository) | `contact_messages`, history, the form | post, move | retries under a key, edits after a lost answer | a message that was sent is kept once, as sent |
| Quote decisions (`quote-decision-service.ts`, `domain/workflow.ts`) | `quotes` | accept, refuse | two pages, expiry between reading and writing | one decision, by the client, in time |
| Sign-in (`guards.ts`, `LoginForm.tsx`, `connexion/page.tsx`) | cookies, addresses, the form | ask for a page, log in in one or two steps | a path carried through several redirects, lost answers | the login ends on the page that was asked for, and redirects end |
| Life of a session (`session-guard.ts`) | `sessions` times | resolve, touch | requests that overlap write `last_seen_at` | both timeouts hold |
| Lists of requests (`quote-request-repository.ts`, portal and office pages) | rows by page | walk, open | two queries for rows and total, pages minutes apart | a walk misses only what moved; the history explains the status |
| Rate limiter (`rate-limiter.ts`) | counters in a shared store or memory | consume, reset | store failure, full memory, window limits | a window lets its quota through |
| Notes, profile (`internal-note-service.ts`, `profile/route.ts`, panels) | `internal_notes`, columns of `users`, forms | post, save | late and lost answers | what is said to be saved is stored and shown |
| Configuration (`config/env.ts`, `redis.ts`, `check-environment.ts`) | variables | start, check, read later | variables read only by a handler | a server that starts has what its handlers read |
| Scripts (`migrate-database.ts`, `rotate-auth-encryption-key.ts`, `seed.ts`) | tables, keys | run, fail, run again | death between statements, reruns, overlap | a rerun ends with every secret readable and the data whole |
| PDF engine and template (`lib/pdf/*`, `templates/*`) | cursor, pages | draw | what just fits a page or a line | nothing is drawn over the end of a page or of a line |
| Totals (`domain/money.ts`) | – | compute | rounding by line | the breakdown by rate adds up |
| References, audit log, privacy export, dashboards, guards of the routes, pages | see `PROJECT.json` | | | not modelled, section 7 |

How they interact. A business transaction (submission, office transition, link, password)
inserts its mails in the outbox in the same transaction: this is the only channel between the
components and the dispatcher, and `Enqueue` of NotificationOutbox stands for all of them. A
submission stores files first (PrivateUploads) and then commits rows (QuoteRequests); the two
modules share that transaction, `Commit` in one and `Submit` in the other. A session that ends
(Accounts) reaches the wizard as a 401 (`SessionChanges` in QuoteRequests). The clean-up
scripts meet the handlers only through the database and the store. A login with a second factor
starts in Accounts (the password) and goes on in SecondFactor (the challenge); SignIn is the
browser around both. A summary is drawn by SummaryPages with lines cut by PdfText, kept by
Documents, handed out under DocumentAccess.

## 2. Modules

| Module | What it is |
|---|---|
| `MailDelivery` | abstract promise for one mail: queued, handed over, settled once |
| `NotificationOutbox` | the dispatcher statement by statement; implements MailDelivery |
| `RequestWorkflow` | the declared transitions of `domain/request-workflow.ts`, used by QuoteRequests and RequestLists |
| `QuoteRequests` | pages, handlers, officers, clients and the purge over the rows of quote_requests |
| `PrivateUploads` | handlers that store files, the object store, the clean-up script |
| `Accounts` | one account and the handlers that act on it |
| `SecondFactor` | the factor, the codes, the challenges and the sessions of one account |
| `AddressChanges` | accounts that move to another address, under row locks and a partial unique index |
| `SummaryVersions` | abstract promise of the summaries: a version is published once, stays, and is what operators are told of |
| `DocumentAccess`, `Documents` | the verdict on an access; generations, versions, files and readers; implements SummaryVersions |
| `ContactMessages`, `InternalNotes`, `Profile` | a page with its form and its retries, and the handler behind it |
| `QuoteDecisions`, `Money` | the two buttons under a quote; the totals of a document |
| `RateLimits`, `SessionLife` | counters of a quota; the times of a session |
| `SignIn`, `RequestLists` | a browser between guards and login form; a reader between pages of a list |
| `PdfText`, `SummaryPages` | printable lines; the cursor of the writer and the order of the template |
| `Environment`, `Migrations`, `SealedSecrets`, `Seeds` | a deployment: its variables, its migration, the rotation of its key, its acceptance data |
| `SceneState` | the variables of the scenes: Documents and the modules that share no table, side by side |
| `ServerScenes`, `PageScenes` | the instances of those modules: the parts of the server, the parts behind a page |
| `Services` | their composition: one specification whose behaviours are the seventeen scenes |
| `MC*` | small instances; `*_proofs` the theorems of the module they extend |

### NotificationOutbox

A run is at a statement `pc[w]`; one statement of PostgreSQL is one action, because each is a
transaction of its own: `Start` (reads `now`), `Reclaim` (the UPDATE of expired rows), `Select`
(the batch with its attempt counts), `Claim`/`Skip` (the conditional UPDATE), `SendAccepted`/
`SendErrors` (sendMail), `MarkSent`/`MarkSentErrors`, `RecordFailure` (the catch block), `Finish`,
`Crash`. Time is kept relative: `due[i]` is the distance to next_attempt_at and `lag[w]` the age
of the `now` the run read, so that no clock grows. `tries` and `copies` are history variables.

### QuoteRequests

`status`, `key`, `owner`, `history`, `receipts`, `notices` are the rows; `session`, `drafts`,
`draftId`, `ready`, `waiting`, `told` are what a wizard page knows (`useServerQuoteDraft.ts`,
`useQuoteWizard.ts`); `req` and `pc` are a handler in flight; `move` is what an officer or a client
has read before the conditional update. `key[r] = p` says that row r has the idempotency key of
page p. An answer reaches the page or is lost (`Answer`). A cascade deletes the history with the
row. Notices and receipts stand for the outbox rows inserted in the same transaction.

### PrivateUploads

`object[f]` is absent, fresh or past the grace period of 24 hours; `late` holds the puts that
reported an error and may still be applied. A handler puts its files one by one, commits or
compensates; `Remove` may fail for each file, as `Promise.allSettled` allows. The script reads the
clock, the rows, then the objects, and these three moments are three actions.

### Accounts

A handler is a call `c`; what it has read (`call[c]`) stays there until the statement that writes.
So a login that compared a hash, a failure that was counted, a request that listed the links to
supersede and an office decision that read the status all meet what happened since. Passwords are
numbered in the order they are chosen; `under` is the number in force when a session was opened or
kept, and when a link was issued. `Served` is `resolveSession`, which reads the account again for
every request. The account has no second factor and keeps its address.

### SecondFactor

`factor` is the row of user_two_factor, `live` the recovery codes kept, `challenge` the rows of
auth_challenges, `session` the sessions; `proved`, `compared`, `uses`, `older` and `batches` are
history. A code is a proof: `<<"totp", secret, step>>` or `<<"recovery", batch, number>>`. A login
opens its challenge (`beginLogin`), counts an attempt, compares, marks the challenge used and opens
a session, and each is an action; setting up, confirming, removing and renewing are cut where their
transactions and their later statements are. `OnePage` says that one page of settings sends its
requests one by one (the buttons are disabled while it waits). With two pages, a setup that read the status
before an activation overwrites the row with an unconfirmed secret (section 6).

### AddressChanges

A transaction is two actions where it locks rows: `SupersedeLinks` then `InsertLink`, `SpendLink`
then `MoveAccount`; `Locked` says which links another transaction holds, so a second one waits, and
`Holder` who is at an address. Registrations, decisions of the office and logins run beside it.

### Documents and DocumentAccess

A generation is cut at its three steps: reserve a version in a transaction, print and store the
file, publish in another transaction (`Publish…`), each of which may fail, die or lose its
acknowledgement (`AckLoss`). A file is named by the data it is printed from (`print`). `overlapped` is
history: true once two generations of the request were in flight together. Readers are authorised,
locate a version, and fetch; the panel of the office reads which version is current and then the
list. `authorize.ts` and the filter of the client's list are pure and in DocumentAccess.

`VersionsSpec` is the specification of SummaryVersions, where a version is published with the data of its file
when its row is ready: `Publish` is the transaction of step 3, `Confirm` the answer that reuses a version, `Overlap`
a generation that begins beside another, and everything else stutters, a failure or a death included.

### Forms: ContactMessages, InternalNotes, Profile

Each has the page with what is typed, what it sent and what it says, and handlers whose
answers may be late or lost. A page of ContactMessages draws a new key when it opens and after each
201. InternalNotes has the refresh that follows a 201, and the purge of a draft under the note. In Profile
the form keeps its first copy of the row and sends the telephone always, a name when it is not empty.

### SignIn, SessionLife, RequestLists

SignIn is one browser with a session cookie, a challenge cookie and an address with its `next`; a
query is one of those that survive or do not survive being decoded again. `hops` counts redirects.
SessionLife has requests that read the row, judge it, and write `last_seen_at` unless it was written
lately. RequestLists follows a list page by page (rows and total are two reads) and opens a request
(row, then history).

### Deployment: Environment, Migrations, SealedSecrets, Seeds

Environment gives each variable one of the shapes its accessor tells apart, in production or not.
Migrations has the copies into the buffer (one statement each), the record of the baseline, and
the migrator's transaction. SealedSecrets has the two reads of the rotation, its transaction and the
application that seals and opens. Seeds has the inserts of db:seed. All of them may die and are run again.

### PdfText, SummaryPages, Money, RateLimits, QuoteDecisions

PdfText makes what is typed printable, a character at a step, then runs the loops of wrapText: a word, or a letter of
a word that no line can hold, at a step. A line is written with the positions of its characters in the text, 0 for
the space wrapText puts between two words: that a letter is lost, doubled or moved can be said of
positions where equal letters look alike. The font is a parameter, `WidthOf`, of which only
`TextAssumption` is known: a letter alone fits each column. SummaryPages keeps the arithmetic of the cursor in thousandths of a point with the real margins
and heights, and executes the instructions of the template one at a time, the footers last. Money is exact where
the program rounds floats at once. RateLimits counts in the store, in the memory of an instance when
the store fails, and sweeps that memory at its limit. QuoteDecisions reads, judges, and updates on condition.

### Services: the scenes

Seventeen scenes share one state space as alternatives: `scene` is chosen in the initial state and never
changes, the module of that scene moves alone, and the variables of the others are put to sleep
(`Asleep`: they hold nothing). No two of these modules share a table, an object or a cookie, so an
interleaving of two of them shows nothing that each alone does not; their safety properties speak of one
module each. The scene stands for nothing in the program and is not a property of it. Documents is
EXTENDed, so that its theorems and the run speak of the same definitions.

## 3. Runs, bounds and what they show

| Run | Instance | Shows |
|---|---|---|
| `outbox_exclusive` | 2 runs, 2 rows, batch of 1, lease 2, 1 crash | exclusive claim; refinement of MailDelivery; `SlowSends`, `AckLoss` off |
| `outbox_settles` | 2 runs, 1 row, both on | no early give-up, sent means accepted, every row settles |
| `requests_workflow` | 1 request, 1 page, 2 officers, 1 client, 4 history entries | history, notices, submitted requests are kept |
| `requests_submission` | 2 requests, 2 pages, 2 handlers, one client | submitted once, a 201 is true |
| `requests_duplicate` | 1 request, 1 page | violation: told "already registered" about a draft |
| `uploads_orphans` | a batch of 2 files and one of 1 | the three properties of attachments |
| `accounts_access` | 2 handlers, 2 sessions, 3 links, 2 passwords, lock at the first failure | five invariants of an account |
| `accounts_lock` | 1 handler, lock at the second failure | violation: a lock without an end |
| `accounts_rehash` | 2 handlers | violation: a rehash restores the previous password |
| `second_factor` | 2 handlers, 2 sessions, 1 challenge of 2 attempts, 2 secrets, 2 batches of 1 code, one page of settings | five invariants and an action property of the factor |
| `address_blocked` | 1 account, 2 addresses, 2 links | violation: an expired link blocks its address |
| `services` | the seventeen scenes of Services | sixteen properties, of the modules below |

The scenes, and the property of the run that speaks of each (`TypesHold` is of all of them):

| Scene | Instance | Property |
|---|---|---|
| summaries | 2 documents, 2 versions, 2 calls, `AckLoss` off | `PublishedHasItsFile`, `HandedOutIsPublished`, `LastVersionInForce`, `OnlyTheRightReaders`, `VersionsSpec` |
| inbox | a page with 2 drawn keys, 2 handlers, 2 officers, 3 history entries | `WhatIsSentIsKept` |
| notes, profile | 2 panels and 2 notes; a page, 2 handlers and 2 requests | `WhatIsSentIsKept` |
| limits | 2 instances, 2 quotas, a memory of one key | `QuotaHolds` |
| moves | 2 accounts, 3 addresses, 2 links, 2 handlers | `AddressesAreProved` |
| seals, migrations, seeds | 3 keys and 3 rows; 2 accounts and 2 runs; 4 things to insert and 2 runs | `ScriptsRunAgain` |
| sheets, texts | descriptions of 1, 24 and 70 lines, tables of up to 24 rows; texts of 5 printable characters typed with 7 kinds, columns 2 and 4 wide, a letter twice as wide as the others (`MCWidthOf`) | `SummariesAreReadable` |
| decisions, totals | 2 handlers, 3 users, validity 1; 2 lines | `QuotesAreSound` |
| signin | 1 browser, 2 queries | `ReturnsWhereAsked` |
| sessions | 2 requests, timeouts 4 to 6 | `TimeoutsHold` |
| lists | 3 rows, pages of 2, 2 moves | `ListsAreTrue` |
| deployment | two variables not as they should be | `StartedIsConfigured` |

Why the bounds are enough to meet the interesting cases. Every race listed under "hazards" is
between two actors, so two runs, two pages, two handlers or two officers. A lease and a back-off
both end within a behaviour (`Lease` 2, delays 1 and 2 minutes, MaxAttempts 2: one retry and one
give-up). In `outbox_exclusive` the batch of 1 leaves a row for the next run. `MaxHistory` 4 is a
submission and three moves, which reaches the announced statuses and the conflicts between
officers and the client. Two files in one batch is the least that can be partial; the second
batch makes the script act on files of different ages. In `accounts_access` a threshold of 1 keeps
every lock reachable with two logins; `accounts_lock` uses threshold 2 and takes the branch below the
threshold, and the theorems hold for every threshold. Two passwords are one change, which is what
"earlier" needs; three links let two requests overlap while a third link is spent. In `second_factor`
two secrets are an enrolment and its replacement, one code in a batch is the one two logins can both
present, and `LastStep` 1 lets the clock move once, from a window
of step 1 to one of the steps 1 and 2, so that a step is presented again in the next window. In `summaries` two
versions are the one in force and the one that replaces it, and two documents what two overlapping
generations may create. In `sheets` 24 and 70 lines end within and beyond one page and 24 rows break a table.
In `sessions` a client's two timeouts coincide and an officer's idle timeout comes first.

Bounds that are not of the program are named in the CONSTANTS: MaxLag, MaxCrashes, MaxHistory,
MaxPasswords, MaxSecrets, MaxBatches, LastStep, MaxVersions, MaxDraws, MaxAsked, MaxResets, MaxKeys,
MaxTime, MaxTyped, MaxRows, MaxMoves, MaxNotes, MaxSent, MaxWrong, MaxDelay, and the finite supply of row
identifiers. Deadlock is checked where a run of the system cannot stop. `services` does not: a page
that has what it wants, a printed summary, or a browser that arrived may stop. Symmetry
is declared only in runs that check safety and only for identifiers no definition orders (rows of
the outbox are ordered by created_at and are not permuted).

The three runs of the requests stay apart because they ask different questions of different
instances: two officers need a long history, two pages need two requests.

A mutant for each property replaces one definition by a form a slip in the code would give it:
a conditional update without its condition, a gate one failure late, an unfinished batch.

## 4. Fairness

* `outbox_settles`: weak fairness of every statement of a run and of its start, because
  `scripts/dispatch-notifications.ts` is started by a scheduler again and again and a live process
  executes its next statement; weak fairness of the clock. Crashes are finite (MaxCrashes): runs that
  always die before a hand-over settle nothing.
* `uploads_orphans`: a handler ends or dies; time goes by; the script is started every day. Strong
  fairness of `ReadRows`, `ListObjects` and `DeleteObject`, because each run may fail (`ScriptFails`)
  and the next one tries again: a deletion tried infinitely often is assumed to succeed once.

No fairness is needed for the other runs: their properties are safety, and the violations found are
safety violations. A page that waits for an answer may wait for ever, and a client may leave.

## 5. Proofs

Each theorem is `Spec => []P` or `Spec => P` for every value of the constants the assumptions allow. Constants that say "this fault does not happen" are assumed in the theorem itself.

| Module | Inductive invariant | Theorems |
|---|---|---|
| `NotificationOutbox_proofs` | `TypeInv` = TypeOK, a row waiting to be tried has attempts left (`Retryable`), a run at a hand-over holds a row; `CountInv` = counts written or remembered never pass the hand-overs made; `HandInv` = a held row is leased, settled by nobody else and in nobody else's hands | `Typing`, `NeverEarly`, `SentIsAccepted`, `Exclusion` (~SlowSends), `ImplementsDelivery` (~SlowSends, ~AckLoss) |
| `QuoteRequests_proofs` | `TypeInv` = TypeOK, a busy handler serves a page, a move in flight is a declared transition; `OnceInv` = submitted rows are live and not drafts, receipts are 1 or 0, live keys are unique; `NoticeInv` = the notices of a request are its announced history entries in order, placed by counting the entries before each, and a row that is not there has none (`Unannounced`) | `Typing`, `HistoryIsWalk`, `ExactlyOnce`, `SubmittedIsKept`, `CreatedIsTrue`, `NoticesTellHistory` |
| `PrivateUploads_proofs` | `Safe` = an object a row names is there and no compensation, no stale list of the script and no cut-off threatens it (`FileKept`, `ScriptSafe`) | `AttachmentsKept`, `CreatedComplete` (both ~SlowHandlers, ~AckLoss) |
| `Accounts_proofs` | TypeOK with `RehashKnown`; `DisabledByTheOffice` = disabled_at tells the last decision of the office; `FailuresCovered` = a counter plus the logins in flight stay below a bound; `LinksCovered` = whatever pending requests are issued next, the links they leave plus theirs are no more than the handlers | `Typing`, `ServedAreAllowed`, `WorkOnce`, `NewPasswordEndsThePast`, `FailuresStayBounded`, `FewLinksLive` |
| `SecondFactor_proofs` | `Bounded` = what a challenge counted covers what was compared (`Counted`), and it has one opener (`OpenOnce`); `Paged` = one settings request at a time (`Alone`), a factor is enabled exactly when its secret was proved (`Secrets`), codes spent or live (`Codes`), older sessions end with the statement that is still to come (`Elders`) | `Typing`, `ChallengesBounded`; with `OnePage`: `SecretWasProved`, `CodesOnce`, `RecoveryCodesMatch`, `OlderSessionsEnded`, `OnlyRemovalSwitchesOff` |
| `ServerScenes_proofs`, first part (Documents) | `Safe` = a version is held by one generation (`HeldOnce`), is pending while it is held, and its file is that generation's (`HoldAt`); what a reader has read is published (`ReadAt`, `ToldSafe`); `Kept` = what no step takes away; `InOrder` = without overlap there is one document, and the version a generation holds has its greatest number; `ReusesCurrent` = a generation alone reuses the version in force | `Typing`; with ~AckLoss: `PublishedHaveFiles`, `HandedOutArePublished`, `LastIsInForce`, `ImplementsVersions`; `ReadersAreRight` |
| `ServerScenes_proofs`, `PageScenes_proofs`, and on them `Services_proofs` | `ServicesInv` = the scene that moves keeps the invariant of its component, listed below | `TypesAlwaysHold`, `SentIsAlwaysKept`, `QuotaAlwaysHolds`, `AddressesAlwaysProved`, `ScriptsAlwaysRunAgain`, `StartedIsAlwaysConfigured`, `QuotesAlwaysSound`, `TimeoutsAlwaysHold`, `WalksMissOnlyRaces`, `RedirectsAlwaysEnd`, `SummariesAlwaysReadable`; `AlwaysReturnsWhereAsked` (QueriesSurvive), `ListsAlwaysTrue` (HistoryReaches) |

The theorems of the scenes are about `ServicesSpec`, the specification of the run `services`. They cite
`ConstantsAreSound`, which TLC evaluates on that run: the constants of each component are what its module says
they are, and nothing about their number or size but what the code has (`SheetsAssumption`: a pair of fields and a
row of the table fit on a page, since neither is split; `TextAssumption`: the narrowest column is wider than a letter). `OneSceneMoves` says that a step of a scene is a step of its
component and leaves `scene` alone; with it the invariant of each component is that of the scene. The invariants:

| Scene | Inductive invariant |
|---|---|
| seals | `SealInv` = a row opens with the key in force, the new one once the script has written (`KeyInForce`, `Readable`), and what the script has read is still what the row holds |
| migrations | `MigrationInv` = accounts without a secret have none left in the buffer (`NothingLeftOver`), and a run past the copy has copied the old column whole (`Copied`) |
| seeds | `SeedInv` = one run at a time (`Alone`), which is past a kind of rows only when they are all there (`Filled`, `Enrolled`) and noted (`Noted`) |
| deployment | `DeploymentInv` = a process is up only where no accessor of the start fails, and refuses only where one does; the variables stay as they are while it runs |
| moves | `MovesInv` = a row is locked by one transaction (`Locks`), a confirmation has read what its link says, addresses are unique (`Unique`) and proved (`Proved`) |
| decisions | `DecisionInv` = an acceptance about to be written was judged in time (`JudgedInTime`); the row tells what was decided (`Shown`) |
| totals | the property itself with the types; a rounded hundredth is off by half a cent (`Rounded`) |
| sessions | `LifeInv` = last_seen_at lags behind the last use by what a touch may skip or two late requests take (`Lags`), and each request under way read a row of its time (`UnderWay`) |
| limits | `LimitsInv` = in a window still current, requests passed are at most the counts of the store plus one quota for each restart plus the counts in memories (`Accounted`, by tokens: server and number); a window that is over keeps its quota (`Within`) |
| signin | `BrowserInv` = redirects followed and ahead are three at most (`Ends`); `ReturnInv` = the asked path is in the address, in `next`, or in the answer |
| notes | `NotesInv` = what a panel waits for is what its handler carries, and a text said to be saved is a note |
| profile | `ProfileInv` = requests under way are numbered apart from one another and from those the pages were told of, and the one that wrote last is in the row (`Stored`) |
| inbox | `ContactInv` = a key has one message, the history of a message is a walk to its status and its dates (`Walked`), and a handler, a form or an officer holds rows that are there (`Posted`, `Edited`, `Changing`) |
| lists | `ListsInv` = rows a walk has passed and not shown are no more than the rows that left (`WalkInv`, by places in the list), and a detail has read a status that is in the history (`DetailInv`) |
| texts | `TextInv` = the lines, with the one under way, hold the letters dealt with (`Laid`: each once, in order, in lines that fit and are broken where they must be, `BrokenWell`); a word being chopped fits no line, nor behind the line before it (`TooLong`) |
| sheets | `SheetsInv` = what is left of the template never asks for more than a page, a check before a title covers what follows it (`Script`), and what is drawn is in order |

Why strengthenings are needed. `ServedAccountsAreAllowed` is not inductive: a login in flight may
write status = active over a decision of the office, and only disabled_at keeps the account out.
`FailuresBounded` speaks of a counter, and what bounds it is how many logins passed the gate before
it closed. `NoEarlyGiveUp` compares a row with hand-overs, while the number written is the one a run
remembers from its batch. `NoDanglingAttachment` needs that the files the script judges old were not
those of a handler that could still commit. `ChallengesAreBounded` compares comparisons made with
attempts, and an attempt is claimed one statement before its comparison. `PublishedHasItsFile` holds
because a file is written while its version is pending and no other generation may hold that version.
`AddressesAreProved` is about addresses, and what protects it is that a link one transaction is
spending cannot be superseded by another.

`AlwaysReturnsWhereAsked` assumes that a decoded query is the query (`QueriesSurvive`, section 6 has what happens
otherwise), and `ListsAlwaysTrue` that no more moves happen than the history a page reads (`HistoryReaches`: the
page of the office reads the oldest entries, so a longer history hides the last). The run gives both
values that satisfy them; `WalksMissOnlyRaces` and `RedirectsAlwaysEnd` are the parts that need neither.

The lines of a text are proved without induction over data: wrapText is a machine of steps whose state is the text,
a position and the lines, so that what its loops compute is an invariant of them. `NewLine`, `WordOnLine` and
`LetterOnLine` say that a line more, a word more on the last line, or a letter more, keeps `Laid`; they are about
sequences alone, and each action cites one. No width of a character, nor any sum of widths, is
assumed: a font with kerning satisfies the theorem.

Only model-checked: liveness (`EveryRowSettles`, `NoOrphanForever`), which the provers do not treat. Every other
property of a passing run is a theorem. The run `outbox_exclusive` and
`ImplementsDelivery` state the refinement of safety; no liveness refinement is claimed. `ImplementsVersions` is the
other refinement: `ShelfStays` shows that a step which makes no version ready maps to a stutter, `PublishPublishes`
and `ReuseConfirms` map the two that answer an operator.

## 6. What the models found

Violations that runs exhibit:

* `requests_duplicate`: a draft the page does not know answers its submission with "already
  registered", and the page thanks the client for a request that was not submitted.
* `accounts_lock`: a failed login from another address, or after the window of the counter, clears
  locked_until and leaves status = locked with no end.
* `accounts_rehash`: a login that rehashes an old hash updates by id and restores a password replaced meanwhile.
* `address_blocked`: an unconfirmed link that expired, or was superseded, keeps its address in the
  partial unique index; later requests are refused as if the address were taken.

Behaviour that differs from a doc or a comment, found while modelling and kept in the models as the
code does it, without a run of its own:

* *Outbox.* The attempt count is written after the hand-over, so a crash in between, or runs that
  overlap, give more hand-overs than MAX_ATTEMPTS (docs/email-delivery.md:29 says five);
  docs/email-delivery.md:7 gives 25 rows per batch, `BATCH_SIZE` is 20.
* *Requests.* A client may cancel every request whose transition to cancelled is declared;
  docs/functional-scope.md:188-189 and docs/roles-and-permissions.md:76 limit it to submitted and under_review.
  The page of a request in the office reads the oldest 100 history entries, so a longer history hides
  the newest. An officer's save is judged by the status read in its transaction, but a stale assignment overwrites.
* *Contact.* A message edited after a lost answer is answered 409, and the form says it was saved
  (ContactForm.tsx:123, docs/architecture.md:91): the first text was.
* *Second factor.* With two pages of settings (`OnePage = FALSE`) `OnlyRemovalDisables` and
  `EnabledSecretWasProved` are false (docs/two-factor-authentication.md:43). docs/sessions.md:50-52 has renewed
  recovery codes end other sessions; `replaceRecoveryCodes` ends none. A reset leaves open challenges as they are.
* *E-mail change.* Of two overlapping confirmations the second informs the mailbox that was read before the
  first moved the account; reset links sent to the old mailbox stay valid. A refusal relies on
  `error.code === "23505"`, which drizzle-orm wraps, so it may be answered as an internal error.
* *Documents.* Overlapping generations can leave an older version current, the current one superseded, or
  two documents for one request. With `AckLoss = TRUE` a published current version is marked failed
  (generate.ts:375). No clean-up removes objects of failed versions, though generate.ts:373-374 counts on one.
* *Sign-in.* A staff account that is denied /admin/audit lands in /mon-compte (guards.ts:91-93 says otherwise); a
  path that changes when it is decoded again is not kept; the second step of LoginForm has no way back.
* *Configuration.* Comments at contact-service.ts:84, quote-request-service.ts:249 and service-env.ts:80-82
  (and README.md:168) have a missing NOTIFICATION_ADMIN_EMAIL stop the start in production; no accessor of the
  start or of env:check reads it, so the server starts and every submission fails. SESSION_SECRET is
  required and never used.
* *Migrations.* With `Settled = FALSE`, a factor removed between a failed run and the next comes back enabled,
  and the row of a deleted account blocks the migration: the buffer is upserted and never cleaned. With
  `StopsFirst = FALSE` a secret written during a run is lost. A rotation without `WritesStopped`, or one whose
  acknowledgement is lost, leaves secrets that do not open.
* *Seeds.* A run killed between the account of an operator and its factor leaves an operator that reruns
  skip (`torn`); killed before the notes, they are never made; overlapping runs may make two.
* *Notes.* internal-note-service.ts:64 and notes.ts:27 say that check and insert share a transaction; they do not,
  and a purge between them leaves a note on nothing. With `Patient = FALSE` text typed while a note is saved
  is wiped; a note whose answer was lost is posted again as a second one.
* *Profile.* An emptied name is not sent, and the page says « Profil mis à jour. » while the name stays; a stale
  second page, or a request that arrives late, overwrites a newer telephone. ProfileForm's comment has one
  field that may be changed; there are three.
* *PDF.* Line breaks of a description are lost (normalize.ts:60; text.ts:95-96 says they are kept); a
  section title may stand alone at the foot of a page when the header of its table does not fit.
* *Lists.* Rows and total are two queries and can disagree; a filtered list skips a row when an earlier one leaves
  the filter between two pages; a page beyond 1000 is read as the first.

Known limits of what is stated:

* with `AckLoss = TRUE` `NoDanglingAttachment` is false: a commit whose acknowledgement is lost is
  followed by the compensation, which deletes the objects of a request that exists;
* `PasswordEndsThePast` counts a session from the insertion of its row: a login that compared the
  old password before a reset may open its session after it;
* a login in flight can leave status = active with disabled_at set, which the office cannot undo by
  enabling the account, because it is "already active";
* `LastVersionInForce` speaks of generations that do not overlap, `ScriptsRunAgain` of scripts run as
  documented (the application stopped, one seed at a time), and `WhatIsSentIsKept` of an officer who waits for a
  note to be saved before typing the next;
* the gate of a login reads a counter that falls back to the memory of an instance; Accounts has one counter;
* two rows of a list created in the same millisecond have no order the model follows.

Hazards met and left aside, because the runs have others to answer for: a batch of the dispatcher
filled with retries while the provider is down; the deadlock PostgreSQL resolves between a reset and a change of
password, or between two publications; two officers on the assignment of a contact message; a page stuck on a
first draft save whose answer was lost; draft → cancelled → under_review, declared for everybody.

## 7. Not modelled

* Public references: one INSERT … ON CONFLICT DO UPDATE … RETURNING, or a sequence, which PostgreSQL makes atomic
  (a rollback leaves a gap, never a duplicate); `numbering.ts` has no caller.
* Audit log and security events: append-only, read back by no handler that changes state.
* Guards of the routes (origin, body, headers, outgoing addresses), password policy, base32: pure decisions on
  one request with tables of unit tests; the models start where a guard let the request through.
* Privacy export and dashboards: reads of what the other components keep, in one answer.
* Rendering, styles, fonts and metadata of the PDF; the panels of the pages that only show an error.
* `check-database`, the seed of the browser tests, and what the SQL migrations do besides the second factor.
* `claimIdempotency`: nothing calls it.

## 8. What could come next

1. The outbox rows of QuoteRequests as `Queue` steps of MailDelivery, and PrivateUploads composed with the commit
   of QuoteRequests.
