------------------------------- MODULE SignIn -------------------------------
(***************************************************************************)
(* A browser that asks for pages, the guards that redirect it, and the     *)
(* login form: from the page that was asked for, through one or two steps  *)
(* of the form, to the page that is shown in the end.  What a password, a   *)
(* code or a session is worth is in Accounts and SecondFactor; here they    *)
(* are right or wrong, and a session ends when it wants to.                 *)
(*                                                                         *)
(* A path is a page with a query.  Of the queries only those matter whose  *)
(* text changes when it is decoded once more.                              *)
(***************************************************************************)
EXTENDS Naturals

CONSTANTS Queries,   \* queries the user asks for
          NoPath

VARIABLES
  role, factor,      \* the account of the user: its role, and whether it has a second factor
  session, challenge,\* what the two cookies are worth: "none", "valid", "dead"
  address, next,     \* the path in the address bar, and the parameter next of /connexion
  shown,             \* "loading", "page" or "form"
  hops,              \* redirections since the user, or the form, asked for a path
  form,
  call, answer,      \* the request of the form, and the response on its way
  asked              \* the path the user asked for

\* What the browser sends with every request, as far as the server set it.
cookies == <<session, challenge>>
vars == <<role, factor, cookies, address, next, shown, hops, form, call, answer, asked>>

-----------------------------------------------------------------------------
(* Paths.                                                                  *)

AccountRoles == {"client", "staff", "admin"}
OfficePages == {"/admin", "/admin/audit"}
SitePages == {"/", "/connexion", "/mon-compte"} \cup OfficePages
Path(page) == [page |-> page, query |-> "none"]

\* decodeURIComponent of a query: an escaped escape, an escaped separator.
Decoded == [none |-> "none", plain |-> "plain", amp |-> "separator", separator |-> "separator",
            percent |-> "broken"]

\* What the constants are; assumed where values are given.
SignInAssumption ==
  /\ NoPath \notin [page : SitePages, query : DOMAIN Decoded \cup {"broken"}]
  /\ Queries \subseteq DOMAIN Decoded

\* The queries asked for are those a decoding leaves as they are.
QueriesSurvive == \A query \in Queries : Decoded[query] = query

SafeReturnPath(path, fallback) ==
  IF path = NoPath \/ path.query = "broken" THEN fallback
  ELSE [path EXCEPT !.query = Decoded[@]]

GetDefaultDestination(r) == Path(IF r \in {"admin", "staff"} THEN "/admin" ELSE "/mon-compte")

GetPostLoginDestination(r, requested) ==
  LET destination == SafeReturnPath(requested, GetDefaultDestination(r))
  IN IF r = "client" /\ destination.page \in OfficePages THEN GetDefaultDestination(r)
     ELSE destination

GetLoginRedirectPath(requested) == SafeReturnPath(requested, NoPath)

-----------------------------------------------------------------------------
(* The browser and the guards.                                             *)

FreshForm == [mode |-> "login", twoFactorStep |-> FALSE, pending |-> FALSE,
              showCaptcha |-> FALSE, failed |-> FALSE]
NoAnswer == [status |-> "none", destination |-> NoPath]

Init ==
  /\ role \in AccountRoles /\ factor \in BOOLEAN /\ (role # "client" => factor)
  /\ session \in {"none", "valid", "dead"} /\ challenge = "none"
  /\ address = Path("/") /\ next = NoPath /\ shown = "page" /\ hops = 0
  /\ form = FreshForm /\ call = "none" /\ answer = NoAnswer
  /\ asked = NoPath

Load(path, nextPath) ==
  /\ address' = path /\ next' = nextPath
  /\ shown' = "loading"
  /\ form' = FreshForm /\ call' = "none" /\ answer' = NoAnswer

\* The user types an address, or follows a link.
Navigate ==
  /\ shown # "loading"
  /\ \E page \in SitePages, query \in Queries :
       /\ Load([page |-> page, query |-> query], NoPath)
       /\ asked' = IF page \in {"/", "/connexion"} THEN NoPath ELSE [page |-> page, query |-> query]
  /\ hops' = 0
  /\ UNCHANGED <<role, factor, cookies>>

Redirect(path, nextPath) == Load(path, nextPath) /\ hops' = hops + 1

\* Mutation: the path of the request is not looked at, only the one the guard names.
LoginRedirectBare(guarded) == GetLoginRedirectPath(Path(guarded))

\* resolveLoginRedirect: the exact path of the request, that the proxy wrote in a header.
LoginRedirect(guarded) == GetLoginRedirectPath(SafeReturnPath(address, Path(guarded)))

Show(what) == shown' = what /\ UNCHANGED <<address, next, form, call, answer, hops>>

\* /connexion: somebody who has a session is sent on.
ServeLogin ==
  /\ shown = "loading" /\ address.page = "/connexion"
  /\ IF session = "valid"
     THEN Redirect(GetPostLoginDestination(role, SafeReturnPath(next, NoPath)), NoPath)
     ELSE Show("form")
  /\ UNCHANGED <<role, factor, cookies, asked>>

\* requirePageAuth, under /mon-compte.
ServeAccount ==
  /\ shown = "loading" /\ address.page = "/mon-compte"
  /\ IF session = "valid" THEN Show("page")
     ELSE Redirect(Path("/connexion"), LoginRedirect("/mon-compte"))
  /\ UNCHANGED <<role, factor, cookies, asked>>

Allowed == [p \in OfficePages |-> IF p = "/admin" THEN {"staff", "admin"} ELSE {"admin"}]

\* Who may not see a page of the office is sent to the pages of the clients.
Denied == [page |-> GetDefaultDestination("client"), next |-> NoPath]

\* requirePageRole, under /admin.
ServeOffice ==
  /\ shown = "loading" /\ address.page \in OfficePages
  /\ IF session # "valid" THEN Redirect(Path("/connexion"), LoginRedirect("/admin"))
     ELSE IF role \in Allowed[address.page] THEN Show("page")
     ELSE Redirect(Denied.page, Denied.next)
  /\ UNCHANGED <<role, factor, cookies, asked>>

ServePublic ==
  /\ shown = "loading" /\ address.page = "/"
  /\ Show("page")
  /\ UNCHANGED <<role, factor, cookies, asked>>

-----------------------------------------------------------------------------
(* The form.                                                               *)

Ready(mode, step) == /\ shown = "form" /\ ~form.pending
                     /\ form.mode = mode /\ form.twoFactorStep = step

Submit(request) ==
  /\ call' = request
  /\ form' = [form EXCEPT !.pending = TRUE]
  /\ UNCHANGED <<role, factor, cookies, address, next, shown, hops, answer, asked>>

SubmitLogin == Ready("login", FALSE) /\ \E c \in {"login", "login and code"} : Submit(c)
SubmitSecondFactor == form.twoFactorStep /\ Ready(form.mode, TRUE) /\ Submit("code")
SubmitRegistration == Ready("register", FALSE) /\ Submit("register")

SwitchMode ==
  /\ Ready("login", FALSE) \/ Ready("register", FALSE)
  /\ form' = [form EXCEPT !.mode = IF @ = "login" THEN "register" ELSE "login"]
  /\ UNCHANGED <<role, factor, cookies, address, next, shown, hops, call, answer, asked>>

Respond(status, destination) ==
  /\ answer' = [status |-> status, destination |-> destination]
  /\ call' = "none"
  /\ UNCHANGED <<role, factor, session, address, next, shown, hops, form, asked>>

\* What a form sends as next was cleaned by the page, and is cleaned again by the
\* challenge that carries it from the first step to the second.
Requested == SafeReturnPath(next, NoPath)

\* POST of /api/auth/login: wrong or right, with or without a code.
AnswerLogin ==
  /\ call \in {"login", "login and code"}
  /\ \/ \E refusal \in {"refused", "captcha"} : Respond(refusal, NoPath)
     \/ ~factor /\ Respond("success", GetPostLoginDestination(role, Requested))
     \/ factor /\ call = "login" /\ Respond("second factor", SafeReturnPath(Requested, NoPath))
     \/ /\ factor /\ call = "login and code"
        /\ Respond("success", GetPostLoginDestination(role, SafeReturnPath(Requested, NoPath)))
  /\ UNCHANGED challenge

\* POST of /api/auth/two-factor/challenge: a code counts while its challenge lives.
AnswerSecondFactor ==
  /\ call = "code"
  /\ \/ Respond("refused", NoPath) /\ (challenge' = challenge \/ challenge' = "dead")
     \/ /\ challenge = "valid" /\ challenge' = "dead"
        /\ Respond("success", GetPostLoginDestination(role, SafeReturnPath(Requested, NoPath)))

AnswerRegistration ==
  /\ call = "register"
  /\ \E status \in {"refused", "registered"} : Respond(status, NoPath)
  /\ UNCHANGED challenge

\* The response, or its cookies, never arrive.
AnswerLost ==
  /\ answer.status # "none" /\ answer.status # "lost"
  /\ answer' = [status |-> "lost", destination |-> NoPath]
  /\ UNCHANGED <<role, factor, cookies, address, next, shown, hops, form, call, asked>>

Settled(change) == [change EXCEPT !.pending = FALSE]

\* finishLogin: the cookie of the session is set, that of the challenge cleared.
FinishLogin ==
  /\ answer.status = "success"
  /\ session' = "valid" /\ challenge' = "none"
  /\ Load(SafeReturnPath(answer.destination, Path("/mon-compte")), NoPath)
  /\ hops' = 0
  /\ UNCHANGED <<role, factor, asked>>

SecondFactorRequired ==
  /\ answer.status = "second factor"
  /\ challenge' = "valid"
  /\ form' = Settled([form EXCEPT !.twoFactorStep = TRUE, !.failed = FALSE])
  /\ answer' = NoAnswer
  /\ UNCHANGED <<role, factor, session, address, next, shown, hops, call, asked>>

Feedback ==
  /\ answer.status \in {"refused", "captcha", "lost", "registered"}
  /\ form' = Settled([form EXCEPT !.failed = answer.status # "registered",
                                  !.showCaptcha = @ \/ answer.status = "captcha"])
  /\ answer' = NoAnswer
  /\ UNCHANGED <<role, factor, cookies, address, next, shown, hops, call, asked>>

\* LogoutButton, on a private page.
Logout ==
  /\ shown = "page" /\ address.page # "/"
  /\ session' = "none"
  /\ Load(Path("/connexion"), NoPath) /\ hops' = 0 /\ asked' = NoPath
  /\ UNCHANGED <<role, factor, challenge>>

\* A session is revoked or runs out; a challenge runs out.
SessionEnds == /\ session = "valid" /\ session' = "dead"
               /\ UNCHANGED <<role, factor, challenge, address, next, shown, hops, form, call, answer, asked>>
ChallengeEnds == /\ challenge = "valid" /\ challenge' = "dead"
                 /\ UNCHANGED <<role, factor, session, address, next, shown, hops, form, call, answer, asked>>

Next == \/ Navigate \/ ServeLogin \/ ServeAccount \/ ServeOffice \/ ServePublic
        \/ SubmitLogin \/ SubmitSecondFactor \/ SubmitRegistration \/ SwitchMode
        \/ AnswerLogin \/ AnswerSecondFactor \/ AnswerRegistration \/ AnswerLost
        \/ FinishLogin \/ SecondFactorRequired \/ Feedback
        \/ Logout \/ SessionEnds \/ ChallengeEnds

Spec == Init /\ [][Next]_vars
-----------------------------------------------------------------------------
(* Properties.                                                             *)

Paths == [page : SitePages, query : {"none", "plain", "amp", "separator", "percent", "broken"}]
AnyPath == Paths \cup {NoPath}

\* The browser is well typed.
TypeOK ==
  /\ role \in AccountRoles /\ factor \in BOOLEAN
  /\ {session, challenge} \subseteq {"none", "valid", "dead"}
  /\ address \in Paths /\ {next, asked, answer.destination} \subseteq AnyPath
  /\ shown \in {"loading", "page", "form"} /\ hops \in Nat
  /\ call \in {"none", "login", "login and code", "code", "register"}
  /\ form.mode \in {"login", "register"} /\ form.pending \in BOOLEAN

\* Guards, login page and destinations never send a browser round in circles: from
\* any path, with any role, and with a session that ends on the way, a page or the
\* form is shown after three redirections at most.
RedirectsEnd == hops <= 3

MaySee(page) == page \notin OfficePages \/ role \in Allowed[page]

\* The header of the proxy "sert a conserver le chemin exact dans next": however many
\* logins and second steps it takes, the user ends on the path he asked for, or on
\* the pages of the clients when his role may not see it.
ReturnsWhereAsked ==
  shown = "page" /\ asked # NoPath =>
    address = IF MaySee(asked.page) THEN asked ELSE Path("/mon-compte")
=============================================================================
