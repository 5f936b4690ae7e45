----------------------------- MODULE PageScenes -----------------------------
(***************************************************************************)
(* The services whose users sit before a page: forms, the login, lists, and a*)
(* summary that is printed.                                                *)
(***************************************************************************)
EXTENDS SceneState

Browser == INSTANCE SignIn WITH
  NoPath <- Nobody,
  role <- siRole, factor <- siFactor, session <- siSession, challenge <- siChallenge,
  address <- siAddress, next <- siNext, shown <- siShown, hops <- siHops, form <- siForm,
  call <- siCall, answer <- siAnswer, asked <- siAsked

\* Officers leave notes on one request, and leave the text alone while it is saved.
Panels == INSTANCE InternalNotes WITH
  Pages <- Desks, Calls <- Handlers, PageSize <- NotePageSize,
  Patient <- TRUE, NoText <- Nobody, NoPage <- Nobody,
  kept <- noKept, notes <- noNotes, content <- noContent, saving <- noSaving,
  feedback <- noFeedback, shown <- noShown, call <- noCall, typed <- noTyped

\* The page of one client, with answers and requests that come late.
Particulars == INSTANCE Profile WITH
  Calls <- Handlers, Empty <- Nobody, NoCall <- Nobody,
  user <- prUser, form <- prForm, saving <- prSaving, feedback <- prFeedback,
  call <- prCall, sent <- prSent, told <- prTold, written <- prWritten

\* The contact form: pages that post again, handlers, and officers with the messages.
Inbox == INSTANCE ContactMessages WITH
  Calls <- Handlers, Rows <- Letters, NoText <- Nobody, NoRow <- Nobody, NoCall <- Nobody,
  message <- msgMessage, history <- msgHistory, receipts <- msgReceipts, form <- msgForm,
  stage <- msgStage, post <- msgPost, editor <- msgEditor, change <- msgChange

Lists == INSTANCE RequestLists WITH
  rows <- rqRows, moves <- rqMoves, walk <- rqWalk, detail <- rqDetail

\* The pages of a summary.
Sheets == INSTANCE SummaryPages WITH
  todo <- pgTodo, page <- pgPage, cursorY <- pgCursorY, drawn <- pgDrawn,
  footers <- pgFooters

\* The lines of a text.
Printed == INSTANCE PdfText WITH
  safe <- txSafe, width <- txWidth, step <- txStep, at <- txAt, lines <- txLines,
  current <- txCurrent
=============================================================================
