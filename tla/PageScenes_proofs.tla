------------------------- MODULE PageScenes_proofs --------------------------
(***************************************************************************)
(* The scenes that pages take part in.  For each an invariant of its own,  *)
(* true at the start and kept by every step, for all values of the         *)
(* constants.                                                              *)
(***************************************************************************)
EXTENDS PageScenes, FiniteSetTheorems, SequenceTheorems, TLAPS

-----------------------------------------------------------------------------
(* Sign-in pages and the guards of the pages (SignIn).                     *)

\* Pages nobody sees without a session.
GuardedPages == {"/mon-compte"} \cup Browser!OfficePages
\* What a form is.
SentForm == [mode : {"login", "register"}, twoFactorStep : BOOLEAN, pending : BOOLEAN,
             showCaptcha : BOOLEAN, failed : BOOLEAN]

\* The redirections that are left, at most, before something is shown.
RedirectsLeft ==
  IF siAddress.page = "/" THEN 0
  ELSE IF siSession # "valid" THEN IF siAddress.page = "/connexion" THEN 0 ELSE 1
  ELSE IF siAddress.page = "/connexion" THEN 3
  ELSE IF siAddress.page = "/mon-compte" THEN 1
  ELSE IF siRole \in Browser!Allowed[siAddress.page] THEN 1 ELSE 2

\* Redirects left to follow.
Ends(n, left) == n \in Nat /\ left \in Nat /\ n + left <= 3

\* The form is on its page, a request is the form's, and next leads to a page with a guard.
BrowserInv ==
  /\ Browser!TypeOK /\ siForm \in SentForm
  /\ siHops <= 3 /\ (siShown = "loading" => Ends(siHops, RedirectsLeft))
  /\ siNext # Nobody => siNext.page \in GuardedPages
  /\ siShown = "form" => siAddress.page = "/connexion"
  /\ siCall # "none" => siShown = "form"

\* Where a user ends who asked for a path.
BrowserTarget == IF Browser!MaySee(siAsked.page) THEN siAsked ELSE Browser!Path("/mon-compte")

\* The address, next, and the destination of a login are on the way from the path that
\* was asked for to the one that is shown.
ReturnInv ==
  siAsked # Nobody =>
    /\ siAsked.page \in GuardedPages /\ siAsked.query \in Queries
    /\ \/ siAddress \in {siAsked, BrowserTarget} /\ (siShown = "page" => siAddress = BrowserTarget)
       \/ siAddress.page = "/connexion" /\ siNext \in {siAsked, BrowserTarget} /\ siShown # "page"
    /\ siAnswer.status = "success" => siAnswer.destination \in {siAsked, BrowserTarget}

LEMMA PathIsPath == \A page \in Browser!SitePages : Browser!Path(page) \in Browser!Paths /\ Browser!Path(page).page = page /\ Browser!Path(page).query = "none"
BY DEF Browser!Path, Browser!Paths

LEMMA NoPathIsNone == ASSUME Browser!SignInAssumption PROVE Nobody \notin Browser!Paths
BY DEF Browser!SignInAssumption, Browser!Paths, Browser!Decoded

\* A path that is cleaned is the fallback, or the same page; it is itself, when its
\* query survives.
LEMMA SafePath ==
  ASSUME Browser!SignInAssumption, NEW path \in Browser!AnyPath, NEW fallback \in Browser!AnyPath
  PROVE  /\ Browser!SafeReturnPath(path, fallback) \in Browser!AnyPath
         /\ \/ Browser!SafeReturnPath(path, fallback) = fallback
            \/ /\ path # Nobody /\ Browser!SafeReturnPath(path, fallback) \in Browser!Paths
               /\ Browser!SafeReturnPath(path, fallback).page = path.page
         /\ path # Nobody /\ Browser!Decoded[path.query] = path.query /\ path.query # "broken" =>
              Browser!SafeReturnPath(path, fallback) = path
<1>1. CASE path = Nobody \/ path.query = "broken" BY <1>1 DEF Browser!SafeReturnPath
<1>2. CASE path # Nobody /\ path.query # "broken"
  <2>1. path \in Browser!Paths BY <1>2 DEF Browser!AnyPath
  <2>2. path.page \in Browser!SitePages /\ path.query \in {"none", "plain", "amp", "separator", "percent"}
    BY <1>2, <2>1 DEF Browser!Paths
  <2>3. Browser!Decoded[path.query] \in {"none", "plain", "separator", "broken"}
    BY <2>2 DEF Browser!Decoded
  <2> DEFINE q == Browser!Decoded[path.query]
             r == [path EXCEPT !.query = q]
  <2>4. Browser!SafeReturnPath(path, fallback) = r BY <1>2, Zenon DEF Browser!SafeReturnPath
  <2>5. path = [page |-> path.page, query |-> path.query] BY <2>1 DEF Browser!Paths
  <2> HIDE DEF q
  <2>6. r = [page |-> path.page, query |-> q] BY <2>5
  <2>7. q \in {"none", "plain", "separator", "broken"} BY <2>3 DEF q
  <2> HIDE DEF r
  <2>8. r \in Browser!Paths /\ r.page = path.page BY <2>2, <2>6, <2>7 DEF Browser!Paths
  <2>9. q = path.query => r = path BY <2>5, <2>6
  <2> QED BY <1>2, <2>4, <2>8, <2>9 DEF q, Browser!AnyPath
<1> QED BY <1>1, <1>2

LEMMA DefaultPath == \A r \in Browser!AccountRoles : Browser!GetDefaultDestination(r) \in Browser!Paths /\ Browser!GetDefaultDestination(r).page \in GuardedPages
BY PathIsPath DEF Browser!GetDefaultDestination, GuardedPages, Browser!SitePages, Browser!OfficePages

LEMMA ClientPath == Browser!GetDefaultDestination("client") = Browser!Path("/mon-compte")
BY DEF Browser!GetDefaultDestination

\* A login leads to a page with a guard, and to the path that was asked for as far as
\* the role goes.
LEMMA PostLogin ==
  ASSUME Browser!SignInAssumption, NEW r \in Browser!AccountRoles, NEW path \in Browser!AnyPath,
         path # Nobody => path.page \in GuardedPages
  PROVE  /\ Browser!GetPostLoginDestination(r, path) \in Browser!Paths
         /\ Browser!GetPostLoginDestination(r, path).page \in GuardedPages
         /\ path # Nobody /\ Browser!Decoded[path.query] = path.query /\ path.query # "broken" =>
              Browser!GetPostLoginDestination(r, path) =
                IF r = "client" /\ path.page \in Browser!OfficePages THEN Browser!Path("/mon-compte") ELSE path
<1> DEFINE d == Browser!SafeReturnPath(path, Browser!GetDefaultDestination(r))
<1>0. Browser!GetDefaultDestination(r) \in Browser!AnyPath BY DefaultPath DEF Browser!AnyPath
<1>1. /\ d \in Browser!AnyPath
      /\ \/ d = Browser!GetDefaultDestination(r)
         \/ path # Nobody /\ d \in Browser!Paths /\ d.page = path.page
      /\ path # Nobody /\ Browser!Decoded[path.query] = path.query /\ path.query # "broken" => d = path
  BY <1>0, SafePath
<1>2. d \in Browser!Paths /\ d.page \in GuardedPages BY <1>1, DefaultPath
<1>3. Browser!GetPostLoginDestination(r, path) =
        IF r = "client" /\ d.page \in Browser!OfficePages THEN Browser!Path("/mon-compte") ELSE d
  BY ClientPath DEF Browser!GetPostLoginDestination
<1> HIDE DEF d
<1>4. Browser!Path("/mon-compte") \in Browser!Paths /\ Browser!Path("/mon-compte").page \in GuardedPages
  BY PathIsPath DEF GuardedPages, Browser!SitePages
<1> QED BY <1>1, <1>2, <1>3, <1>4

LEMMA FreshFormIsForm == Browser!FreshForm \in SentForm
BY DEF Browser!FreshForm, SentForm

LEMMA BrowserInit == ASSUME Browser!SignInAssumption PROVE Browser!Init => BrowserInv /\ ReturnInv
<1> SUFFICES ASSUME Browser!Init PROVE BrowserInv /\ ReturnInv
  OBVIOUS
<1>1. Browser!Path("/") \in Browser!Paths BY PathIsPath DEF Browser!SitePages
<1>2. siForm \in SentForm BY FreshFormIsForm DEF Browser!Init
<1>3. Browser!TypeOK
  BY <1>1 DEF Browser!Init, Browser!TypeOK, Browser!AnyPath, Browser!FreshForm, Browser!NoAnswer
<1> QED BY <1>2, <1>3 DEF Browser!Init, BrowserInv, ReturnInv

-----------------------------------------------------------------------------
(* Steps that load a path, that only concern the form, and that show something. *)

LEMMA Ending ==
  /\ \A k \in 0..3 : Ends(0, k)
  /\ \A n, k : Ends(n, k) => n \in Nat /\ n <= 3
  /\ \A n, k, j \in Nat : Ends(n, k) /\ j <= k => Ends(n, j)
  /\ \A n, k, j \in Nat : Ends(n, k) /\ j < k => Ends(n + 1, j)
BY DEF Ends

\* One redirection more, and fewer are left.
LEMMA OneMore ==
  ASSUME siHops \in Nat, Ends(siHops, RedirectsLeft), siHops' = siHops + 1,
         \/ RedirectsLeft = 3 /\ RedirectsLeft' \in 0..2
         \/ RedirectsLeft = 1 /\ RedirectsLeft' = 0
         \/ RedirectsLeft = 2 /\ RedirectsLeft' = 1
  PROVE  Ends(siHops, RedirectsLeft)'
<1>1. PICK k \in 0..2 : k = RedirectsLeft' /\ (RedirectsLeft = 3 \/ (RedirectsLeft = k + 1 /\ k < 2))
  OBVIOUS
<1>2. ASSUME NEW n \in Nat, NEW l, Ends(n, l), l = 3 \/ (l = k + 1 /\ k < 2) PROVE Ends(n + 1, k)
  <2>1. CASE l = 3
    <3>1. n + 3 <= 3 BY <1>2, <2>1 DEF Ends
    <3> QED BY <3>1 DEF Ends
  <2>2. CASE l = k + 1
    <3>1. n + (k + 1) <= 3 BY <1>2, <2>2 DEF Ends
    <3> QED BY <3>1 DEF Ends
  <2> QED BY <1>2, <2>1, <2>2
<1>3. Ends(siHops + 1, k) BY <1>1, <1>2
<1> QED BY <1>1, <1>3

\* Three redirects at most are ahead, whatever is shown.
LEMMA Steps3 == RedirectsLeft \in 0..3 /\ (siShown' = siShown /\ UNCHANGED <<siAddress, siSession, siRole>> => RedirectsLeft' = RedirectsLeft)
BY DEF RedirectsLeft

\* Another page is asked for.
LEMMA Loads ==
  ASSUME Browser!SignInAssumption, BrowserInv, NEW path \in Browser!Paths, NEW nextPath \in Browser!AnyPath,
         nextPath # Nobody => nextPath.page \in GuardedPages,
         Browser!Load(path, nextPath), UNCHANGED <<siRole, siFactor>>,
         {siSession', siChallenge'} \subseteq {"none", "valid", "dead"}, siAsked' \in Browser!AnyPath,
         Ends(siHops, RedirectsLeft)'
  PROVE  BrowserInv'
<1>1. /\ siAddress' = path /\ siNext' = nextPath /\ siShown' = "loading"
      /\ siForm' = Browser!FreshForm /\ siCall' = "none" /\ siAnswer' = Browser!NoAnswer
  BY DEF Browser!Load
<1>2. Browser!NoAnswer.destination = Nobody BY DEF Browser!NoAnswer
<1>3. Browser!FreshForm.mode \in {"login", "register"} /\ Browser!FreshForm.pending \in BOOLEAN
  BY DEF Browser!FreshForm
<1>4. siRole' \in Browser!AccountRoles /\ siFactor' \in BOOLEAN BY DEF BrowserInv, Browser!TypeOK
<1>5. siHops' \in Nat /\ siHops' <= 3 BY Ending
<1>6. Browser!TypeOK' BY <1>1, <1>2, <1>3, <1>4, <1>5 DEF Browser!TypeOK, Browser!AnyPath
<1> QED BY <1>1, <1>5, <1>6, FreshFormIsForm DEF BrowserInv

\* The form changes, and the page stays.
LEMMA FormMoves ==
  ASSUME BrowserInv, UNCHANGED <<siRole, siFactor, siSession, siAddress, siNext, siShown, siHops, siAsked>>,
         siForm' \in SentForm, siChallenge' \in {"none", "valid", "dead"},
         siCall' \in {"none", "login", "login and code", "code", "register"},
         siCall' # "none" => siShown = "form", siAnswer'.destination \in Browser!AnyPath
  PROVE  BrowserInv'
<1>1. siForm'.mode \in {"login", "register"} /\ siForm'.pending \in BOOLEAN BY DEF SentForm
<1>2. Browser!TypeOK' BY <1>1 DEF BrowserInv, Browser!TypeOK
<1>3. RedirectsLeft' = RedirectsLeft BY DEF RedirectsLeft
<1> QED BY <1>2, <1>3 DEF BrowserInv

\* A form that changes leads where it led.
LEMMA FormReturns ==
  ASSUME ReturnInv, UNCHANGED <<siRole, siAddress, siNext, siShown, siAsked>>,
         siAnswer'.status = "success" => siAnswer'.status = siAnswer.status /\ siAnswer'.destination = siAnswer.destination
  PROVE  ReturnInv'
BY DEF ReturnInv, BrowserTarget, Browser!MaySee

\* What the server answers is shown.
LEMMA Shows ==
  ASSUME BrowserInv, NEW what \in {"page", "form"}, Browser!Show(what),
         UNCHANGED <<siRole, siFactor, siSession, siChallenge, siAsked>>, siCall = "none",
         what = "form" => siAddress.page = "/connexion"
  PROVE  BrowserInv'
BY DEF Browser!Show, BrowserInv, Browser!TypeOK

LEMMA FormsOfForms ==
  ASSUME NEW f \in SentForm, NEW b \in BOOLEAN
  PROVE  /\ [f EXCEPT !.pending = b] \in SentForm
         /\ [f EXCEPT !.twoFactorStep = b] \in SentForm
         /\ [f EXCEPT !.failed = b] \in SentForm
         /\ [f EXCEPT !.showCaptcha = b] \in SentForm
         /\ \A m \in {"login", "register"} : [f EXCEPT !.mode = m] \in SentForm
         /\ f.mode \in {"login", "register"} /\ f.showCaptcha \in BOOLEAN
BY DEF SentForm

\* The path of the request, as the login page gets it.
LEMMA LoginRedirectIsPath ==
  ASSUME Browser!SignInAssumption, BrowserInv, NEW guarded \in GuardedPages, siAddress.page \in GuardedPages
  PROVE  /\ Browser!LoginRedirect(guarded) \in Browser!AnyPath
         /\ Browser!LoginRedirect(guarded) # Nobody => Browser!LoginRedirect(guarded).page \in GuardedPages
         /\ Browser!Decoded[siAddress.query] = siAddress.query /\ siAddress.query # "broken" =>
              Browser!LoginRedirect(guarded) = siAddress
<1> DEFINE d == Browser!SafeReturnPath(siAddress, Browser!Path(guarded))
<1>1. siAddress \in Browser!Paths /\ siAddress # Nobody
  BY NoPathIsNone DEF BrowserInv, Browser!TypeOK
<1>2. Browser!Path(guarded) \in Browser!Paths /\ Browser!Path(guarded).page = guarded
  BY PathIsPath DEF GuardedPages, Browser!SitePages
<1>3. d \in Browser!Paths /\ d.page \in GuardedPages
      /\ (Browser!Decoded[siAddress.query] = siAddress.query /\ siAddress.query # "broken" => d = siAddress)
  BY <1>1, <1>2, SafePath DEF Browser!AnyPath
<1>4. Browser!LoginRedirect(guarded) = Browser!SafeReturnPath(d, Nobody)
  BY DEF Browser!LoginRedirect, Browser!GetLoginRedirectPath
<1> HIDE DEF d
<1>5. d # Nobody BY <1>3, NoPathIsNone
<1>6. /\ Browser!SafeReturnPath(d, Nobody) \in Browser!AnyPath
      /\ \/ Browser!SafeReturnPath(d, Nobody) = Nobody
         \/ Browser!SafeReturnPath(d, Nobody).page = d.page
      /\ Browser!Decoded[d.query] = d.query /\ d.query # "broken" => Browser!SafeReturnPath(d, Nobody) = d
  BY <1>3, <1>5, SafePath DEF Browser!AnyPath
<1> QED BY <1>3, <1>4, <1>6

\* What a form sends as next, and what a challenge carries of it.
LEMMA RequestedIsPath ==
  ASSUME Browser!SignInAssumption, BrowserInv
  PROVE  LET again == Browser!SafeReturnPath(Browser!Requested, Nobody) IN
         /\ Browser!Requested \in Browser!AnyPath /\ again \in Browser!AnyPath
         /\ Browser!Requested # Nobody => Browser!Requested.page \in GuardedPages
         /\ again # Nobody => again.page \in GuardedPages
         /\ siNext # Nobody /\ Browser!Decoded[siNext.query] = siNext.query /\ siNext.query # "broken" =>
              Browser!Requested = siNext /\ again = siNext
<1>1. siNext \in Browser!AnyPath /\ (siNext # Nobody => siNext.page \in GuardedPages)
  BY DEF BrowserInv, Browser!TypeOK
<1>2. /\ Browser!Requested \in Browser!AnyPath
      /\ Browser!Requested = Nobody \/ (siNext # Nobody /\ Browser!Requested.page = siNext.page)
      /\ siNext # Nobody /\ Browser!Decoded[siNext.query] = siNext.query /\ siNext.query # "broken" =>
           Browser!Requested = siNext
  BY <1>1, SafePath DEF Browser!AnyPath, Browser!Requested
<1> DEFINE again == Browser!SafeReturnPath(Browser!Requested, Nobody)
<1>3. /\ again \in Browser!AnyPath
      /\ again = Nobody \/ (Browser!Requested # Nobody /\ again.page = Browser!Requested.page)
      /\ Browser!Requested # Nobody /\ Browser!Decoded[Browser!Requested.query] = Browser!Requested.query /\ Browser!Requested.query # "broken" =>
           again = Browser!Requested
  BY <1>2, SafePath DEF Browser!AnyPath
<1> QED BY <1>1, <1>2, <1>3

\* Every step keeps the invariant.
LEMMA BrowserStepHolds ==
  ASSUME Browser!SignInAssumption, BrowserInv, [Browser!Next]_(Browser!vars)
  PROVE  BrowserInv'
<1>0. /\ siRole \in Browser!AccountRoles /\ siFactor \in BOOLEAN /\ siSession \in {"none", "valid", "dead"}
      /\ siChallenge \in {"none", "valid", "dead"} /\ siAddress \in Browser!Paths /\ siNext \in Browser!AnyPath
      /\ siAsked \in Browser!AnyPath /\ siAnswer.destination \in Browser!AnyPath
      /\ siShown \in {"loading", "page", "form"} /\ siHops \in Nat /\ siForm \in SentForm
      /\ siCall \in {"none", "login", "login and code", "code", "register"}
  BY DEF BrowserInv, Browser!TypeOK
<1>1. Nobody \in Browser!AnyPath /\ Browser!Path("/mon-compte") \in Browser!Paths /\ Browser!Path("/connexion") \in Browser!Paths
      /\ Browser!Path("/mon-compte").page = "/mon-compte" /\ Browser!Path("/connexion").page = "/connexion"
      /\ Browser!Path("/mon-compte").page \in GuardedPages
  BY PathIsPath DEF Browser!AnyPath, Browser!SitePages, GuardedPages
<1>2. RedirectsLeft \in 0..3 BY Steps3
<1>3. CASE Browser!Navigate
  <2>1. PICK page \in Browser!SitePages, query \in Queries :
          /\ Browser!Load([page |-> page, query |-> query], Nobody)
          /\ siAsked' = IF page \in {"/", "/connexion"} THEN Nobody ELSE [page |-> page, query |-> query]
    BY <1>3 DEF Browser!Navigate
  <2>2. [page |-> page, query |-> query] \in Browser!Paths
    BY DEF Browser!Paths, Browser!SignInAssumption, Browser!Decoded
  <2>3. siHops' = 0 /\ UNCHANGED <<siRole, siFactor, siSession, siChallenge>>
    BY <1>3 DEF Browser!Navigate, Browser!cookies
  <2>4. RedirectsLeft' \in 0..3 BY DEF RedirectsLeft
  <2>6. Ends(siHops, RedirectsLeft)' BY <2>3, <2>4, Ending
  <2>5. siAsked' \in Browser!AnyPath BY <2>1, <2>2 DEF Browser!AnyPath
  <2> QED BY <1>0, <1>1, <2>1, <2>2, <2>3, <2>5, <2>6, Loads
<1>4. CASE Browser!ServeLogin
  <2>1. /\ siShown = "loading" /\ siAddress.page = "/connexion"
        /\ UNCHANGED <<siRole, siFactor, siSession, siChallenge, siAsked>>
    BY <1>4 DEF Browser!ServeLogin, Browser!cookies
  <2>2. CASE siSession = "valid"
    <3> DEFINE d == Browser!GetPostLoginDestination(siRole, Browser!SafeReturnPath(siNext, Nobody))
    <3>1. Browser!Load(d, Nobody) /\ siHops' = siHops + 1
      BY <1>4, <2>2 DEF Browser!ServeLogin, Browser!Redirect
    <3>2. d \in Browser!Paths /\ d.page \in GuardedPages
      BY <1>0, RequestedIsPath, PostLogin DEF Browser!Requested
    <3>3. RedirectsLeft = 3 BY <2>1, <2>2 DEF RedirectsLeft
    <3> HIDE DEF d
    <3>4. siAddress' = d BY <3>1 DEF Browser!Load
    <3>5. RedirectsLeft' \in 0..2
      BY <3>2, <3>4 DEF RedirectsLeft, GuardedPages, Browser!OfficePages
    <3>6. Ends(siHops, RedirectsLeft) BY <2>1 DEF BrowserInv
    <3>7. Ends(siHops, RedirectsLeft)' BY <1>0, <3>1, <3>3, <3>5, <3>6, OneMore
    <3> QED BY <1>0, <1>1, <2>1, <3>1, <3>2, <3>7, Loads
  <2>3. CASE siSession # "valid"
    <3>1. Browser!Show("form") BY <1>4, <2>3 DEF Browser!ServeLogin
    <3>2. siCall = "none" BY <2>1 DEF BrowserInv
    <3> QED BY <2>1, <3>1, <3>2, Shows
  <2> QED BY <2>2, <2>3
<1>5. ASSUME NEW guarded \in GuardedPages, siAddress.page \in GuardedPages, siShown = "loading",
             Browser!Redirect(Browser!Path("/connexion"), Browser!LoginRedirect(guarded)), siSession # "valid",
             UNCHANGED <<siRole, siFactor, siSession, siChallenge, siAsked>>
      PROVE  BrowserInv'
  <2>1. Browser!Load(Browser!Path("/connexion"), Browser!LoginRedirect(guarded)) /\ siHops' = siHops + 1
    BY <1>5 DEF Browser!Redirect
  <2>2. RedirectsLeft = 1 BY <1>5 DEF RedirectsLeft, GuardedPages, Browser!OfficePages
  <2>3. siAddress' = Browser!Path("/connexion") BY <2>1 DEF Browser!Load
  <2>4. RedirectsLeft' = 0 BY <1>1, <1>5, <2>3 DEF RedirectsLeft
  <2>5. Ends(siHops, RedirectsLeft) BY <1>5 DEF BrowserInv
  <2>6. Ends(siHops, RedirectsLeft)' BY <1>0, <2>1, <2>2, <2>4, <2>5, OneMore
  <2> QED BY <1>0, <1>1, <1>5, <2>1, <2>6, LoginRedirectIsPath, Loads
<1>6. CASE Browser!ServeAccount
  <2>1. /\ siShown = "loading" /\ siAddress.page = "/mon-compte" /\ "/mon-compte" \in GuardedPages
        /\ UNCHANGED <<siRole, siFactor, siSession, siChallenge, siAsked>>
    BY <1>6 DEF Browser!ServeAccount, Browser!cookies, GuardedPages
  <2>2. CASE siSession = "valid"
    <3>1. Browser!Show("page") BY <1>6, <2>2 DEF Browser!ServeAccount
    <3>2. siCall = "none" BY <2>1 DEF BrowserInv
    <3> QED BY <2>1, <3>1, <3>2, Shows
  <2>3. CASE siSession # "valid"
    <3>1. Browser!Redirect(Browser!Path("/connexion"), Browser!LoginRedirect("/mon-compte"))
      BY <1>6, <2>3 DEF Browser!ServeAccount
    <3> QED BY <1>5, <2>1, <2>3, <3>1
  <2> QED BY <2>2, <2>3
<1>7. CASE Browser!ServeOffice
  <2>1. /\ siShown = "loading" /\ siAddress.page \in Browser!OfficePages
        /\ UNCHANGED <<siRole, siFactor, siSession, siChallenge, siAsked>>
    BY <1>7 DEF Browser!ServeOffice, Browser!cookies
  <2>2. siAddress.page \in GuardedPages /\ "/admin" \in GuardedPages
    BY <2>1 DEF GuardedPages, Browser!OfficePages
  <2>3. CASE siSession # "valid"
    <3>1. Browser!Redirect(Browser!Path("/connexion"), Browser!LoginRedirect("/admin"))
      BY <1>7, <2>3 DEF Browser!ServeOffice
    <3> QED BY <1>5, <2>1, <2>2, <2>3, <3>1
  <2>4. CASE siSession = "valid" /\ siRole \in Browser!Allowed[siAddress.page]
    <3>1. Browser!Show("page") BY <1>7, <2>4 DEF Browser!ServeOffice
    <3>2. siCall = "none" BY <2>1 DEF BrowserInv
    <3> QED BY <2>1, <3>1, <3>2, Shows
  <2>5. CASE siSession = "valid" /\ siRole \notin Browser!Allowed[siAddress.page]
    <3>1. Browser!Load(Browser!Path("/mon-compte"), Nobody) /\ siHops' = siHops + 1
      BY <1>7, <2>5, ClientPath DEF Browser!ServeOffice, Browser!Redirect, Browser!Denied
    <3>2. RedirectsLeft = 2 BY <2>1, <2>5 DEF RedirectsLeft, Browser!OfficePages
    <3>3. siAddress' = Browser!Path("/mon-compte") BY <3>1 DEF Browser!Load
    <3>4. RedirectsLeft' = 1 BY <1>1, <2>1, <2>5, <3>3 DEF RedirectsLeft
    <3>5. Ends(siHops, RedirectsLeft) BY <2>1 DEF BrowserInv
    <3>6. Ends(siHops, RedirectsLeft)' BY <1>0, <3>1, <3>2, <3>4, <3>5, OneMore
    <3> QED BY <1>0, <1>1, <2>1, <3>1, <3>6, Loads
  <2> QED BY <2>3, <2>4, <2>5
<1>8. CASE Browser!ServePublic
  <2>1. /\ siShown = "loading" /\ Browser!Show("page") /\ UNCHANGED <<siRole, siFactor, siSession, siChallenge, siAsked>>
    BY <1>8 DEF Browser!ServePublic, Browser!cookies
  <2>2. siCall = "none" BY <2>1 DEF BrowserInv
  <2> QED BY <2>1, <2>2, Shows
<1>9. ASSUME NEW c \in {"login", "login and code", "code", "register"}, Browser!Submit(c), siShown = "form"
      PROVE  BrowserInv'
  <2>1. /\ siCall' = c /\ siForm' = [siForm EXCEPT !.pending = TRUE]
        /\ UNCHANGED <<siRole, siFactor, siSession, siChallenge, siAddress, siNext, siShown, siHops, siAnswer, siAsked>>
    BY <1>9 DEF Browser!Submit, Browser!cookies
  <2>2. siForm' \in SentForm BY <1>0, <2>1, FormsOfForms
  <2> QED BY <1>0, <1>9, <2>1, <2>2, FormMoves
<1>10. CASE Browser!SubmitLogin \/ Browser!SubmitSecondFactor \/ Browser!SubmitRegistration
  BY <1>9, <1>10
  DEF Browser!SubmitLogin, Browser!SubmitSecondFactor, Browser!SubmitRegistration, Browser!Ready
<1>11. CASE Browser!SwitchMode
  <2>1. UNCHANGED <<siRole, siFactor, siSession, siChallenge, siAddress, siNext, siShown, siHops, siCall, siAnswer, siAsked>>
    BY <1>11 DEF Browser!SwitchMode, Browser!cookies
  <2>2. PICK m \in {"login", "register"} : siForm' = [siForm EXCEPT !.mode = m]
    BY <1>11 DEF Browser!SwitchMode
  <2>3. siForm' \in SentForm BY <1>0, <2>2, FormsOfForms
  <2>4. siCall' # "none" => siShown = "form" BY <2>1 DEF BrowserInv
  <2> QED BY <1>0, <2>1, <2>3, <2>4, FormMoves
<1>12. ASSUME NEW status, NEW destination \in Browser!AnyPath, Browser!Respond(status, destination),
              siChallenge' \in {"none", "valid", "dead"}
       PROVE  BrowserInv'
  <2>1. /\ siAnswer' = [status |-> status, destination |-> destination] /\ siCall' = "none"
        /\ UNCHANGED <<siRole, siFactor, siSession, siAddress, siNext, siShown, siHops, siForm, siAsked>>
    BY <1>12 DEF Browser!Respond
  <2>2. siAnswer'.destination \in Browser!AnyPath BY <2>1
  <2> QED BY <1>0, <1>12, <2>1, <2>2, FormMoves
<1>13. /\ Browser!SafeReturnPath(Browser!Requested, Nobody) \in Browser!AnyPath
       /\ Browser!GetPostLoginDestination(siRole, Browser!Requested) \in Browser!AnyPath
       /\ Browser!GetPostLoginDestination(siRole, Browser!SafeReturnPath(Browser!Requested, Nobody)) \in Browser!AnyPath
  BY <1>0, RequestedIsPath, PostLogin DEF Browser!AnyPath
<1>14. CASE Browser!AnswerLogin
  <2>1. siChallenge' \in {"none", "valid", "dead"} BY <1>0, <1>14 DEF Browser!AnswerLogin
  <2>2. \E status : \E destination \in Browser!AnyPath : Browser!Respond(status, destination)
    BY <1>1, <1>13, <1>14 DEF Browser!AnswerLogin
  <2> QED BY <1>12, <2>1, <2>2
<1>15. CASE Browser!AnswerSecondFactor
  <2>1. siChallenge' \in {"none", "valid", "dead"} BY <1>0, <1>15 DEF Browser!AnswerSecondFactor
  <2>2. \E status : \E destination \in Browser!AnyPath : Browser!Respond(status, destination)
    BY <1>1, <1>13, <1>15 DEF Browser!AnswerSecondFactor
  <2> QED BY <1>12, <2>1, <2>2
<1>16. CASE Browser!AnswerRegistration
  <2>1. siChallenge' \in {"none", "valid", "dead"} BY <1>0, <1>16 DEF Browser!AnswerRegistration
  <2>2. \E status : \E destination \in Browser!AnyPath : Browser!Respond(status, destination)
    BY <1>1, <1>16 DEF Browser!AnswerRegistration
  <2> QED BY <1>12, <2>1, <2>2
<1>17. CASE Browser!AnswerLost
  <2>1. /\ siAnswer' = [status |-> "lost", destination |-> Nobody]
        /\ UNCHANGED <<siRole, siFactor, siSession, siChallenge, siAddress, siNext, siShown, siHops, siForm, siCall, siAsked>>
    BY <1>17 DEF Browser!AnswerLost, Browser!cookies
  <2>2. siAnswer'.destination \in Browser!AnyPath /\ (siCall' # "none" => siShown = "form")
    BY <1>1, <2>1 DEF BrowserInv
  <2> QED BY <1>0, <2>1, <2>2, FormMoves
<1>18. CASE Browser!FinishLogin
  <2> DEFINE d == Browser!SafeReturnPath(siAnswer.destination, Browser!Path("/mon-compte"))
  <2>1. /\ siSession' = "valid" /\ siChallenge' = "none" /\ Browser!Load(d, Nobody) /\ siHops' = 0
        /\ UNCHANGED <<siRole, siFactor, siAsked>>
    BY <1>18 DEF Browser!FinishLogin
  <2>2. d \in Browser!Paths BY <1>0, <1>1, SafePath DEF Browser!AnyPath
  <2>3. RedirectsLeft' \in 0..3 BY DEF RedirectsLeft
  <2>4. Ends(siHops, RedirectsLeft)' BY <2>1, <2>3, Ending
  <2> HIDE DEF d
  <2> QED BY <1>0, <1>1, <2>1, <2>2, <2>4, Loads
<1>19. CASE Browser!SecondFactorRequired
  <2>1. /\ siChallenge' = "valid" /\ siAnswer' = Browser!NoAnswer
        /\ siForm' = [[[siForm EXCEPT !.twoFactorStep = TRUE] EXCEPT !.failed = FALSE] EXCEPT !.pending = FALSE]
        /\ UNCHANGED <<siRole, siFactor, siSession, siAddress, siNext, siShown, siHops, siCall, siAsked>>
    BY <1>19, Zenon DEF Browser!SecondFactorRequired, Browser!Settled
  <2>2. siForm' \in SentForm BY <1>0, <2>1, FormsOfForms, Zenon
  <2>3. siAnswer'.destination \in Browser!AnyPath /\ (siCall' # "none" => siShown = "form")
    BY <1>1, <2>1 DEF BrowserInv, Browser!NoAnswer
  <2> QED BY <1>0, <2>1, <2>2, <2>3, FormMoves
<1>20. CASE Browser!Feedback
  <2> DEFINE a == siAnswer.status # "registered"
             b == siForm.showCaptcha \/ siAnswer.status = "captcha"
  <2>1. /\ siAnswer' = Browser!NoAnswer
        /\ siForm' = [[[siForm EXCEPT !.failed = a] EXCEPT !.showCaptcha = b] EXCEPT !.pending = FALSE]
        /\ UNCHANGED <<siRole, siFactor, siSession, siChallenge, siAddress, siNext, siShown, siHops, siCall, siAsked>>
    BY <1>20, Zenon DEF Browser!Feedback, Browser!Settled, Browser!cookies
  <2>2. a \in BOOLEAN /\ b \in BOOLEAN OBVIOUS
  <2> HIDE DEF a, b
  <2>3. siForm' \in SentForm BY <1>0, <2>1, <2>2, FormsOfForms, Zenon
  <2>4. siAnswer'.destination \in Browser!AnyPath /\ (siCall' # "none" => siShown = "form")
    BY <1>1, <2>1 DEF BrowserInv, Browser!NoAnswer
  <2> QED BY <1>0, <2>1, <2>3, <2>4, FormMoves
<1>21. CASE Browser!Logout
  <2>1. /\ siSession' = "none" /\ Browser!Load(Browser!Path("/connexion"), Nobody) /\ siHops' = 0 /\ siAsked' = Nobody
        /\ UNCHANGED <<siRole, siFactor, siChallenge>>
    BY <1>21 DEF Browser!Logout
  <2>2. RedirectsLeft' \in 0..3 BY DEF RedirectsLeft
  <2>3. Ends(siHops, RedirectsLeft)' BY <2>1, <2>2, Ending
  <2> QED BY <1>0, <1>1, <2>1, <2>3, Loads
<1>22. CASE Browser!SessionEnds
  <2>1. /\ siSession = "valid" /\ siSession' = "dead"
        /\ UNCHANGED <<siRole, siFactor, siChallenge, siAddress, siNext, siShown, siHops, siForm, siCall, siAnswer, siAsked>>
    BY <1>22 DEF Browser!SessionEnds
  <2>2. RedirectsLeft' <= RedirectsLeft /\ RedirectsLeft' \in 0..3 BY <2>1 DEF RedirectsLeft
  <2>3. Browser!TypeOK' BY <2>1 DEF BrowserInv, Browser!TypeOK
  <2>4. siShown' = "loading" => Ends(siHops, RedirectsLeft)'
    <3>1. ASSUME siShown = "loading" PROVE Ends(siHops, RedirectsLeft)'
      <4>1. Ends(siHops, RedirectsLeft) BY <3>1 DEF BrowserInv
      <4>2. PICK k \in 0..3 : k = RedirectsLeft' /\ k <= RedirectsLeft BY <2>2
      <4>3. Ends(siHops, k)
        <5>1. ASSUME NEW l \in 0..3, k <= l, Ends(siHops, l) PROVE Ends(siHops, k)
          BY <5>1, Ending
        <5> QED BY <1>2, <4>1, <4>2, <5>1
      <4> QED BY <2>1, <4>2, <4>3
    <3> QED BY <2>1, <3>1
  <2> QED BY <2>1, <2>3, <2>4 DEF BrowserInv
<1>23. CASE Browser!ChallengeEnds
  <2>1. /\ siChallenge' = "dead"
        /\ UNCHANGED <<siRole, siFactor, siSession, siAddress, siNext, siShown, siHops, siForm, siCall, siAnswer, siAsked>>
    BY <1>23 DEF Browser!ChallengeEnds
  <2>2. siCall' # "none" => siShown = "form" BY <2>1 DEF BrowserInv
  <2> QED BY <1>0, <2>1, <2>2, FormMoves
<1>24. CASE UNCHANGED Browser!vars
  <2>1. UNCHANGED <<siRole, siFactor, siSession, siChallenge, siAddress, siNext, siShown, siHops, siForm, siCall, siAnswer, siAsked>>
    BY <1>24 DEF Browser!vars, Browser!cookies
  <2>2. siCall' # "none" => siShown = "form" BY <2>1 DEF BrowserInv
  <2> QED BY <1>0, <2>1, <2>2, FormMoves
<1> QED BY <1>3, <1>4, <1>6, <1>7, <1>8, <1>10, <1>11, <1>14, <1>15, <1>16, <1>17, <1>18, <1>19,
           <1>20, <1>21, <1>22, <1>23, <1>24 DEF Browser!Next

-----------------------------------------------------------------------------
(* The way to the path that was asked for.                                 *)

LEMMA TargetIsGuarded ==
  ASSUME siAsked.page \in GuardedPages
  PROVE  BrowserTarget.page \in GuardedPages
BY PathIsPath DEF BrowserTarget, GuardedPages, Browser!SitePages

\* A cleaned path that survives a decoding is the same path.
LEMMA OnTheWay ==
  ASSUME Browser!SignInAssumption, Browser!QueriesSurvive, BrowserInv, siAsked # Nobody, siAsked.page \in GuardedPages,
         siAsked.query \in Queries, NEW path \in {siAsked, BrowserTarget}
  PROVE  /\ path \in Browser!Paths /\ path # Nobody /\ path.page \in GuardedPages
         /\ Browser!Decoded[path.query] = path.query /\ path.query # "broken"
<1>1. siAsked \in Browser!Paths BY DEF BrowserInv, Browser!TypeOK, Browser!AnyPath
<1>2. Browser!Decoded[siAsked.query] = siAsked.query /\ siAsked.query # "broken"
  BY DEF Browser!QueriesSurvive, Browser!SignInAssumption, Browser!Decoded
<1>3. Browser!Path("/mon-compte") \in Browser!Paths /\ Browser!Path("/mon-compte").query = "none"
      /\ Browser!Path("/mon-compte").page \in GuardedPages
  BY PathIsPath DEF GuardedPages, Browser!SitePages
<1>4. Browser!Decoded["none"] = "none" BY DEF Browser!Decoded
<1>5. path \in Browser!Paths /\ path.page \in GuardedPages
      /\ Browser!Decoded[path.query] = path.query /\ path.query # "broken"
  BY <1>1, <1>2, <1>3, <1>4 DEF BrowserTarget
<1> QED BY <1>5, NoPathIsNone

\* Where a login leads that carries one of the two paths.
LEMMA LoginOnTheWay ==
  ASSUME Browser!SignInAssumption, Browser!QueriesSurvive, BrowserInv, siAsked # Nobody, siAsked.page \in GuardedPages,
         siAsked.query \in Queries, NEW path \in {siAsked, BrowserTarget}
  PROVE  Browser!GetPostLoginDestination(siRole, path) \in {siAsked, BrowserTarget}
<1>1. /\ path \in Browser!AnyPath /\ path # Nobody /\ path.page \in GuardedPages
      /\ Browser!Decoded[path.query] = path.query /\ path.query # "broken"
  BY OnTheWay DEF Browser!AnyPath
<1>2. siRole \in Browser!AccountRoles BY DEF BrowserInv, Browser!TypeOK
<1>3. Browser!GetPostLoginDestination(siRole, path) =
        IF siRole = "client" /\ path.page \in Browser!OfficePages THEN Browser!Path("/mon-compte") ELSE path
  BY <1>1, <1>2, PostLogin
<1>4. CASE siRole = "client" /\ path.page \in Browser!OfficePages
  <2>1. Browser!Path("/mon-compte").page \notin Browser!OfficePages
    BY PathIsPath DEF Browser!SitePages, Browser!OfficePages
  <2>2. path = siAsked BY <1>4, <2>1 DEF BrowserTarget
  <2>3. ~Browser!MaySee(siAsked.page)
    BY <1>4, <2>2 DEF Browser!MaySee, Browser!Allowed, Browser!OfficePages
  <2> QED BY <1>3, <1>4, <2>3 DEF BrowserTarget
<1> QED BY <1>3, <1>4

\* A page that is loaded on the way.
LEMMA LoadsOnTheWay ==
  ASSUME ReturnInv, UNCHANGED <<siRole, siAsked>>, NEW path, NEW nextPath, Browser!Load(path, nextPath),
         siAsked # Nobody => \/ path \in {siAsked, BrowserTarget}
                             \/ path.page = "/connexion" /\ nextPath \in {siAsked, BrowserTarget}
  PROVE  ReturnInv'
<1>1. /\ siAddress' = path /\ siNext' = nextPath /\ siShown' = "loading" /\ siAnswer'.status # "success"
  BY DEF Browser!Load, Browser!NoAnswer
<1>2. BrowserTarget' = BrowserTarget BY DEF BrowserTarget, Browser!MaySee
<1> QED BY <1>1, <1>2 DEF ReturnInv

\* When queries survive a redirect, every step also keeps where the login leads.
LEMMA ReturnStep ==
  ASSUME Browser!SignInAssumption, Browser!QueriesSurvive, BrowserInv, ReturnInv, [Browser!Next]_(Browser!vars)
  PROVE  ReturnInv'
<1>0. /\ siRole \in Browser!AccountRoles /\ siAddress \in Browser!Paths /\ siNext \in Browser!AnyPath /\ siAsked \in Browser!AnyPath
  BY DEF BrowserInv, Browser!TypeOK
<1>1. CASE siAsked # Nobody
  <2>0. /\ siAsked.page \in GuardedPages /\ siAsked.query \in Queries
        /\ \/ siAddress \in {siAsked, BrowserTarget} /\ (siShown = "page" => siAddress = BrowserTarget)
           \/ siAddress.page = "/connexion" /\ siNext \in {siAsked, BrowserTarget} /\ siShown # "page"
        /\ siAnswer.status = "success" => siAnswer.destination \in {siAsked, BrowserTarget}
    BY <1>1 DEF ReturnInv
  <2>1. \A path \in {siAsked, BrowserTarget} :
          /\ path \in Browser!Paths /\ path # Nobody /\ path.page \in GuardedPages
          /\ Browser!Decoded[path.query] = path.query /\ path.query # "broken"
          /\ Browser!GetPostLoginDestination(siRole, path) \in {siAsked, BrowserTarget}
    BY <1>1, <2>0, OnTheWay, LoginOnTheWay
  <2>2. "/connexion" \notin GuardedPages /\ "/" \notin GuardedPages
    BY DEF GuardedPages, Browser!OfficePages
  <2>3. siAddress.page = "/connexion" => siNext \in {siAsked, BrowserTarget}
    BY <2>0, <2>1, <2>2
  <2>4. siNext \in {siAsked, BrowserTarget} => Browser!Requested = siNext /\ Browser!SafeReturnPath(Browser!Requested, Nobody) = siNext
    BY <2>1, RequestedIsPath
  <2>5. siAddress.page = "/connexion" \/ siAddress \in {siAsked, BrowserTarget} BY <2>0
  <2>6. ASSUME NEW guarded \in GuardedPages, siAddress.page \in GuardedPages,
               Browser!Redirect(Browser!Path("/connexion"), Browser!LoginRedirect(guarded)), UNCHANGED <<siRole, siAsked>>
        PROVE  ReturnInv'
    <3>1. Browser!LoginRedirect(guarded) = siAddress /\ siAddress \in {siAsked, BrowserTarget}
      BY <2>1, <2>2, <2>5, <2>6, LoginRedirectIsPath
    <3>2. Browser!Path("/connexion").page = "/connexion" BY PathIsPath DEF Browser!SitePages
    <3> QED BY <2>6, <3>1, <3>2, LoadsOnTheWay DEF Browser!Redirect
  <2>7. ASSUME Browser!Show("page"), UNCHANGED <<siRole, siAsked>>, siAddress.page # "/connexion",
               siAddress = BrowserTarget
        PROVE  ReturnInv'
    <3>1. UNCHANGED <<siAddress, siNext, siAnswer>> /\ siShown' = "page" BY <2>7 DEF Browser!Show
    <3>2. BrowserTarget' = BrowserTarget BY <2>7 DEF BrowserTarget, Browser!MaySee
    <3> QED BY <2>0, <2>7, <3>1, <3>2 DEF ReturnInv
  <2>8. Browser!Path("/mon-compte").page = "/mon-compte" /\ "/mon-compte" \notin Browser!OfficePages
    BY PathIsPath DEF Browser!SitePages, Browser!OfficePages
  <2>9. ASSUME NEW status, NEW destination, Browser!Respond(status, destination),
               status = "success" => destination \in {siAsked, BrowserTarget}
        PROVE  ReturnInv'
    <3>1. /\ UNCHANGED <<siRole, siAsked, siAddress, siNext, siShown>>
          /\ siAnswer'.status = status /\ siAnswer'.destination = destination
      BY <2>9 DEF Browser!Respond
    <3>2. BrowserTarget' = BrowserTarget BY <3>1 DEF BrowserTarget, Browser!MaySee
    <3> QED BY <2>0, <2>9, <3>1, <3>2 DEF ReturnInv
  <2>10. siCall # "none" => siAddress.page = "/connexion" BY DEF BrowserInv
  <2>11. CASE Browser!Navigate
    <3>1. PICK page \in Browser!SitePages, query \in Queries :
            /\ Browser!Load([page |-> page, query |-> query], Nobody)
            /\ siAsked' = IF page \in {"/", "/connexion"} THEN Nobody ELSE [page |-> page, query |-> query]
      BY <2>11 DEF Browser!Navigate
    <3>2. siAddress' = [page |-> page, query |-> query] /\ siShown' = "loading" /\ siAnswer'.status # "success"
      BY <3>1 DEF Browser!Load, Browser!NoAnswer
    <3>3. page \in {"/", "/connexion"} \/ page \in GuardedPages BY DEF Browser!SitePages, GuardedPages
    <3> QED BY <3>1, <3>2, <3>3 DEF ReturnInv
  <2>12. CASE Browser!ServeLogin
    <3>1. CASE siSession = "valid"
      <4>1. Browser!Load(Browser!GetPostLoginDestination(siRole, siNext), Nobody) /\ UNCHANGED <<siRole, siAsked>>
        BY <2>3, <2>4, <2>12, <3>1 DEF Browser!ServeLogin, Browser!Redirect, Browser!Requested
      <4> QED BY <2>1, <2>3, <2>12, <4>1, LoadsOnTheWay DEF Browser!ServeLogin
    <3>2. CASE siSession # "valid"
      <4>1. UNCHANGED <<siRole, siAsked, siAddress, siNext, siAnswer>> /\ siShown' = "form"
        BY <2>12, <3>2 DEF Browser!ServeLogin, Browser!Show
      <4>2. siAddress.page = "/connexion" BY <2>12 DEF Browser!ServeLogin
      <4>3. BrowserTarget' = BrowserTarget BY <4>1 DEF BrowserTarget, Browser!MaySee
      <4> QED BY <2>0, <2>3, <4>1, <4>2, <4>3 DEF ReturnInv
    <3> QED BY <3>1, <3>2
  <2>13. CASE Browser!ServeAccount
    <3>1. siAddress.page = "/mon-compte" /\ UNCHANGED <<siRole, siAsked>> /\ "/mon-compte" \in GuardedPages
      BY <2>13 DEF Browser!ServeAccount, GuardedPages
    <3>2. CASE siSession = "valid"
      <4>1. siAddress \in {siAsked, BrowserTarget} BY <2>5, <3>1
      <4>2. Browser!MaySee("/mon-compte") BY <2>8 DEF Browser!MaySee
      <4>3. siAddress = BrowserTarget BY <3>1, <4>1, <4>2 DEF BrowserTarget
      <4> QED BY <2>7, <2>13, <3>1, <3>2, <4>3 DEF Browser!ServeAccount
    <3>3. CASE siSession # "valid"
      BY <2>6, <2>13, <3>1, <3>3 DEF Browser!ServeAccount
    <3> QED BY <3>2, <3>3
  <2>14. CASE Browser!ServeOffice
    <3>1. siAddress.page \in Browser!OfficePages /\ UNCHANGED <<siRole, siAsked>> /\ "/admin" \in GuardedPages
          /\ siAddress.page \in GuardedPages /\ siAddress.page # "/connexion"
      BY <2>14 DEF Browser!ServeOffice, GuardedPages, Browser!OfficePages
    <3>2. siAddress = siAsked BY <2>5, <2>8, <3>1 DEF BrowserTarget
    <3>3. CASE siSession # "valid"
      BY <2>6, <2>14, <3>1, <3>3 DEF Browser!ServeOffice
    <3>4. CASE siSession = "valid" /\ siRole \in Browser!Allowed[siAddress.page]
      <4>1. siAddress = BrowserTarget BY <3>2, <3>4 DEF BrowserTarget, Browser!MaySee
      <4> QED BY <2>7, <2>14, <3>1, <3>4, <4>1 DEF Browser!ServeOffice
    <3>5. CASE siSession = "valid" /\ siRole \notin Browser!Allowed[siAddress.page]
      <4>1. Browser!Load(Browser!Path("/mon-compte"), Nobody)
        BY <2>14, <3>5, ClientPath DEF Browser!ServeOffice, Browser!Redirect, Browser!Denied
      <4>2. BrowserTarget = Browser!Path("/mon-compte")
        BY <3>1, <3>2, <3>5 DEF BrowserTarget, Browser!MaySee
      <4> QED BY <3>1, <4>1, <4>2, LoadsOnTheWay
    <3> QED BY <3>3, <3>4, <3>5
  <2>15. CASE Browser!ServePublic
    BY <2>1, <2>2, <2>5, <2>15 DEF Browser!ServePublic
  <2>16. ASSUME UNCHANGED <<siRole, siAsked, siAddress, siNext, siShown>>, siAnswer'.status # "success" \/ siAnswer' = siAnswer
         PROVE  ReturnInv'
    BY <2>16, FormReturns
  <2>17. CASE Browser!SubmitLogin \/ Browser!SubmitSecondFactor \/ Browser!SubmitRegistration
    BY <2>16, <2>17
    DEF Browser!SubmitLogin, Browser!SubmitSecondFactor, Browser!SubmitRegistration,
        Browser!Submit
  <2>18. CASE Browser!SwitchMode BY <2>16, <2>18 DEF Browser!SwitchMode
  <2>19. CASE Browser!AnswerLogin
    <3>1. siNext \in {siAsked, BrowserTarget} BY <2>3, <2>10, <2>19 DEF Browser!AnswerLogin
    <3>2. Browser!GetPostLoginDestination(siRole, Browser!Requested) \in {siAsked, BrowserTarget}
          /\ Browser!GetPostLoginDestination(siRole, Browser!SafeReturnPath(Browser!Requested, Nobody)) \in {siAsked, BrowserTarget}
      BY <2>1, <2>4, <3>1
    <3>3. CASE \E refusal \in {"refused", "captcha"} : Browser!Respond(refusal, Nobody)
      BY <2>9, <3>3
    <3>4. CASE Browser!Respond("success", Browser!GetPostLoginDestination(siRole, Browser!Requested))
      BY <2>9, <3>2, <3>4
    <3>5. CASE Browser!Respond("second factor", Browser!SafeReturnPath(Browser!Requested, Nobody))
      BY <2>9, <3>5
    <3>6. CASE Browser!Respond("success", Browser!GetPostLoginDestination(siRole, Browser!SafeReturnPath(Browser!Requested, Nobody)))
      BY <2>9, <3>2, <3>6
    <3> QED BY <2>19, <3>3, <3>4, <3>5, <3>6 DEF Browser!AnswerLogin
  <2>20. CASE Browser!AnswerSecondFactor
    <3>1. siNext \in {siAsked, BrowserTarget} BY <2>3, <2>10, <2>20 DEF Browser!AnswerSecondFactor
    <3>2. Browser!GetPostLoginDestination(siRole, Browser!SafeReturnPath(Browser!Requested, Nobody)) \in {siAsked, BrowserTarget}
      BY <2>1, <2>4, <3>1
    <3>3. \E status, destination : Browser!Respond(status, destination)
            /\ (status = "success" => destination \in {siAsked, BrowserTarget})
      BY <2>20, <3>2 DEF Browser!AnswerSecondFactor
    <3> QED BY <2>9, <3>3
  <2>21. CASE Browser!AnswerRegistration
    BY <2>9, <2>21 DEF Browser!AnswerRegistration
  <2>22. CASE Browser!AnswerLost
    BY <2>16, <2>22 DEF Browser!AnswerLost
  <2>23. CASE Browser!FinishLogin
    <3>1. siAnswer.destination \in {siAsked, BrowserTarget} BY <2>0, <2>23 DEF Browser!FinishLogin
    <3>2. Browser!Path("/mon-compte") \in Browser!AnyPath
      BY PathIsPath DEF Browser!AnyPath, Browser!SitePages
    <3>3. Browser!SafeReturnPath(siAnswer.destination, Browser!Path("/mon-compte")) = siAnswer.destination
      BY <2>1, <3>1, <3>2, SafePath DEF Browser!AnyPath
    <3>4. Browser!Load(siAnswer.destination, Nobody) /\ UNCHANGED <<siRole, siAsked>>
      BY <2>23, <3>3 DEF Browser!FinishLogin
    <3> QED BY <3>1, <3>4, LoadsOnTheWay
  <2>24. CASE Browser!SecondFactorRequired
    BY <2>16, <2>24 DEF Browser!SecondFactorRequired, Browser!NoAnswer
  <2>25. CASE Browser!Feedback
    BY <2>16, <2>25 DEF Browser!Feedback, Browser!NoAnswer
  <2>26. CASE Browser!Logout
    BY <2>26 DEF Browser!Logout, ReturnInv
  <2>27. CASE Browser!SessionEnds BY <2>16, <2>27 DEF Browser!SessionEnds
  <2>28. CASE Browser!ChallengeEnds BY <2>16, <2>28 DEF Browser!ChallengeEnds
  <2>29. CASE UNCHANGED Browser!vars BY <2>16, <2>29 DEF Browser!vars
  <2> QED BY <2>11, <2>12, <2>13, <2>14, <2>15, <2>17, <2>18, <2>19, <2>20, <2>21, <2>22, <2>23,
             <2>24, <2>25, <2>26, <2>27, <2>28, <2>29 DEF Browser!Next
<1>2. CASE siAsked = Nobody
  <2>1. CASE Browser!Navigate
    <3>1. PICK page \in Browser!SitePages, query \in Queries :
            /\ Browser!Load([page |-> page, query |-> query], Nobody)
            /\ siAsked' = IF page \in {"/", "/connexion"} THEN Nobody ELSE [page |-> page, query |-> query]
      BY <2>1 DEF Browser!Navigate
    <3>2. siAddress' = [page |-> page, query |-> query] /\ siShown' = "loading" /\ siAnswer'.status # "success"
      BY <3>1 DEF Browser!Load, Browser!NoAnswer
    <3>3. page \in {"/", "/connexion"} \/ page \in GuardedPages BY DEF Browser!SitePages, GuardedPages
    <3> QED BY <3>1, <3>2, <3>3 DEF ReturnInv
  <2>2. CASE siAsked' = Nobody BY <2>2 DEF ReturnInv
  <2>3. Browser!Next => Browser!Navigate \/ siAsked' = Nobody
    BY <1>2
    DEF Browser!Next, Browser!ServeLogin, Browser!ServeAccount, Browser!ServeOffice,
        Browser!ServePublic, Browser!SubmitLogin,
       Browser!SubmitSecondFactor, Browser!SubmitRegistration, Browser!Submit,
       Browser!SwitchMode, Browser!AnswerLogin, Browser!AnswerSecondFactor,
       Browser!AnswerRegistration, Browser!Respond, Browser!AnswerLost, Browser!FinishLogin,
       Browser!SecondFactorRequired, Browser!Feedback,
       Browser!Logout, Browser!SessionEnds, Browser!ChallengeEnds
  <2> QED BY <1>2, <2>1, <2>2, <2>3 DEF Browser!vars
<1> QED BY <1>1, <1>2

\* What the invariants are for.
LEMMA BrowserSafe ==
  /\ BrowserInv => Browser!TypeOK /\ Browser!RedirectsEnd
  /\ ReturnInv => Browser!ReturnsWhereAsked
<1>1. BrowserInv => Browser!TypeOK /\ Browser!RedirectsEnd BY DEF BrowserInv, Browser!RedirectsEnd
<1>2. ASSUME ReturnInv, siShown = "page", siAsked # Nobody PROVE siAddress = BrowserTarget
  BY <1>2 DEF ReturnInv
<1> QED BY <1>1, <1>2 DEF Browser!ReturnsWhereAsked, BrowserTarget

-----------------------------------------------------------------------------
(* Internal notes of officers (InternalNotes).                             *)

\* The text t is a note of panel p.
NotedBy(p, t) == \E i \in 1..Len(noNotes) : noNotes[i] = [text |-> t, author |-> p]

\* A call a panel waits for carries the text that is in its box.
NotesInv ==
  /\ Panels!TypeOK
  /\ \A c \in Handlers : noCall[c].step # "idle" => noCall[c].page \in Desks /\ noCall[c].text \in Texts
  /\ \A p \in Desks : noSaving[p] # Nobody =>
       /\ noCall[noSaving[p]].step # "idle" /\ noCall[noSaving[p]].page = p
       /\ noCall[noSaving[p]].text = noContent[p]
  /\ \A c \in Handlers : noCall[c].step = "saved" => NotedBy(noCall[c].page, noCall[c].text)
  /\ \A p \in Desks :
       noContent[p] = noTyped[p] \/ (noContent[p] = Nobody /\ NotedBy(p, noTyped[p]))
  /\ \A p \in Desks : \A i \in 1..Len(noShown[p]) : \E j \in 1..Len(noNotes) : noNotes[j] = noShown[p][i]
  /\ \A p \in Desks : noFeedback[p] = "saved" =>
       (\E i \in 1..Len(noShown[p]) : noShown[p][i].author = p) \/ Len(noShown[p]) = NotePageSize

\* A call of the handler.
CallType == [step : {"idle", "check", "insert", "saved", "refused"},
             page : Desks \cup {Nobody}, text : Texts \cup {Nobody}]

LEMMA IdleNote == ASSUME Panels!NotesAssumption
  PROVE Panels!Idle \in CallType /\ Panels!Idle.step = "idle"
BY DEF Panels!Idle, CallType

\* The notes a page shows are the last ones, the last of all first.
LEMMA NewestOfNotes ==
  ASSUME noNotes \in Seq(Panels!Note), NotePageSize \in Nat \ {0}
  PROVE  /\ Panels!Newest \in Seq(Panels!Note)
         /\ Len(Panels!Newest) = IF Len(noNotes) < NotePageSize THEN Len(noNotes) ELSE NotePageSize
         /\ \A i \in 1..Len(Panels!Newest) : Panels!Newest[i] = noNotes[Len(noNotes) - i + 1]
<1> DEFINE n == IF Len(noNotes) < NotePageSize THEN Len(noNotes) ELSE NotePageSize
<1>1. Len(noNotes) \in Nat /\ \A i \in 1..Len(noNotes) : noNotes[i] \in Panels!Note
  BY LenProperties, ElementOfSeq
<1>2. n \in Nat /\ n <= Len(noNotes) BY <1>1
<1>3. Panels!Newest = [i \in 1..n |-> noNotes[Len(noNotes) - i + 1]] BY DEF Panels!Newest
<1> HIDE DEF n
<1>4. \A i \in 1..n : noNotes[Len(noNotes) - i + 1] \in Panels!Note BY <1>1, <1>2
<1>5. Panels!Newest \in [1..n -> Panels!Note] BY <1>3, <1>4
<1>6. Panels!Newest \in Seq(Panels!Note) BY <1>2, <1>5, SeqDef
<1>7. Len(Panels!Newest) = n BY <1>2, <1>3
<1>8. \A i \in 1..n : Panels!Newest[i] = noNotes[Len(noNotes) - i + 1] BY <1>3
<1> QED BY <1>6, <1>7, <1>8 DEF n

LEMMA NotesInit == ASSUME Panels!NotesAssumption PROVE Panels!Init => NotesInv
<1> SUFFICES ASSUME Panels!Init PROVE NotesInv
  OBVIOUS
<1>1. Panels!TypeOK
  <2>1. noCall \in [Handlers -> CallType] BY IdleNote DEF Panels!Init
  <2>2. <<>> \in Seq(Panels!Note) OBVIOUS
  <2> QED BY <2>1, <2>2 DEF Panels!Init, Panels!TypeOK, CallType
<1>2. \A c \in Handlers : noCall[c].step = "idle" BY IdleNote DEF Panels!Init
<1>3. \A p \in Desks : /\ noShown[p] = <<>> /\ noFeedback[p] = "none" /\ noContent[p] = noTyped[p]
                       /\ noSaving[p] = Nobody
  BY DEF Panels!Init
<1>4. \A p \in Desks : Len(noShown[p]) = 0 BY <1>3
<1> QED BY <1>1, <1>2, <1>3, <1>4 DEF NotesInv

\* Types, variable by variable.
LEMMA NotesTyping ==
  ASSUME Panels!NotesAssumption, NotesInv
  PROVE  /\ noNotes \in Seq(Panels!Note) /\ noKept \in BOOLEAN
         /\ noContent \in [Desks -> Texts \cup {Nobody}] /\ noTyped \in [Desks -> Texts \cup {Nobody}]
         /\ noSaving \in [Desks -> Handlers \cup {Nobody}] /\ noShown \in [Desks -> Seq(Panels!Note)]
         /\ noFeedback \in [Desks -> {"none", "saved", "refused", "unreachable"}]
         /\ noCall \in [Handlers -> CallType]
         /\ NotePageSize \in Nat \ {0} /\ Nobody \notin Texts
         /\ Nobody \notin Desks /\ Nobody \notin Handlers
         /\ Len(noNotes) \in Nat
BY DEF Panels!NotesAssumption, NotesInv, Panels!TypeOK, CallType

\* A panel hears of a call: its own, which was carrying its text, or of none.
LEMMA PanelHears ==
  ASSUME Panels!NotesAssumption, NotesInv, NEW p \in Desks,
         NEW outcome \in {"saved", "refused", "unreachable"}, Panels!Heard(p, outcome),
         noSaving[p] # Nobody, outcome = "saved" => NotedBy(p, noContent[p]),
         UNCHANGED <<noKept, noNotes, noTyped>>,
         noCall' \in [Handlers -> CallType],
         \A c \in Handlers : noCall'[c].step # "idle" => noCall'[c] = noCall[c],
         \A q \in Desks \ {p} : noSaving[q] # Nobody => noCall'[noSaving[q]] = noCall[noSaving[q]]
  PROVE  NotesInv'
<1> USE NotesTyping
<1>1. /\ noSaving' = [noSaving EXCEPT ![p] = Nobody] /\ noFeedback' = [noFeedback EXCEPT ![p] = outcome]
      /\ noContent' = [noContent EXCEPT ![p] = IF outcome = "saved" THEN Nobody ELSE noContent[p]]
      /\ noShown' = IF outcome = "saved" THEN [noShown EXCEPT ![p] = Panels!Newest] ELSE noShown
  BY DEF Panels!Heard, Panels!Box, Panels!Refresh
<1>2. Panels!Newest \in Seq(Panels!Note) BY NewestOfNotes
<1>3. noShown' \in [Desks -> Seq(Panels!Note)] BY <1>1, <1>2
<1>4. Panels!TypeOK' BY <1>1, <1>3 DEF Panels!TypeOK, CallType
<1>5. \A c \in Handlers : noCall'[c].step # "idle" => noCall'[c].page \in Desks /\ noCall'[c].text \in Texts
  BY DEF NotesInv
<1>6. \A q \in Desks : /\ noSaving'[q] = IF q = p THEN Nobody ELSE noSaving[q]
                       /\ noContent'[q] = IF q = p /\ outcome = "saved" THEN Nobody ELSE noContent[q]
                       /\ noFeedback'[q] = IF q = p THEN outcome ELSE noFeedback[q]
                       /\ noShown'[q] = IF q = p /\ outcome = "saved" THEN Panels!Newest ELSE noShown[q]
  BY <1>1
<1>7. \A q \in Desks : noSaving'[q] # Nobody =>
        /\ noCall'[noSaving'[q]].step # "idle" /\ noCall'[noSaving'[q]].page = q
        /\ noCall'[noSaving'[q]].text = noContent'[q]
  BY <1>6 DEF NotesInv
<1>8. \A c \in Handlers : noCall'[c].step = "saved" => NotedBy(noCall[c].page, noCall[c].text)'
  <2> SUFFICES ASSUME NEW c \in Handlers, noCall'[c].step = "saved"
               PROVE  \E i \in 1..Len(noNotes') :
                        noNotes'[i] = [text |-> noCall'[c].text, author |-> noCall'[c].page]
    BY DEF NotedBy
  <2>1. noCall'[c] = noCall[c] OBVIOUS
  <2>2. NotedBy(noCall[c].page, noCall[c].text) BY <2>1 DEF NotesInv
  <2>3. \E i \in 1..Len(noNotes) : noNotes[i] = [text |-> noCall[c].text, author |-> noCall[c].page]
    BY <2>2 DEF NotedBy
  <2> QED BY <2>1, <2>3
<1>9. \A q \in Desks :
        noContent'[q] = noTyped'[q] \/ (noContent'[q] = Nobody /\ NotedBy(q, noTyped[q])')
  BY <1>6 DEF NotesInv, NotedBy
<1>10. \A q \in Desks : \A i \in 1..Len(noShown'[q]) :
         \E j \in 1..Len(noNotes') : noNotes'[j] = noShown'[q][i]
  <2>1. \A i \in 1..Len(Panels!Newest) : Len(noNotes) - i + 1 \in 1..Len(noNotes)
    BY NewestOfNotes
  <2>2. \A i \in 1..Len(Panels!Newest) : \E j \in 1..Len(noNotes) : noNotes[j] = Panels!Newest[i]
    BY <2>1, NewestOfNotes
  <2>3. \A q \in Desks : \A i \in 1..Len(noShown[q]) : \E j \in 1..Len(noNotes) : noNotes[j] = noShown[q][i]
    BY DEF NotesInv
  <2> SUFFICES ASSUME NEW q \in Desks
               PROVE  \A i \in 1..Len(noShown'[q]) :
                        \E j \in 1..Len(noNotes') : noNotes'[j] = noShown'[q][i]
    OBVIOUS
  <2>4. noNotes' = noNotes OBVIOUS
  <2>5. CASE noShown'[q] = Panels!Newest
    <3>1. ASSUME NEW i \in 1..Len(noShown'[q])
      PROVE \E j \in 1..Len(noNotes) : noNotes[j] = noShown'[q][i]
      BY ONLY <2>2, <2>5
    <3> QED BY ONLY <2>4, <3>1
  <2>6. CASE noShown'[q] = noShown[q] BY <2>3, <2>4, <2>6
  <2> QED BY <1>6, <2>5, <2>6
<1>11. \A q \in Desks : noFeedback'[q] = "saved" =>
         (\E i \in 1..Len(noShown'[q]) : noShown'[q][i].author = q) \/ Len(noShown'[q]) = NotePageSize
  <2>1. ASSUME outcome = "saved", Len(Panels!Newest) # NotePageSize
        PROVE  \E i \in 1..Len(Panels!Newest) : Panels!Newest[i].author = p
    <3>1. PICK j \in 1..Len(noNotes) : noNotes[j] = [text |-> noContent[p], author |-> p]
      BY <2>1 DEF NotedBy
    <3>2. Len(Panels!Newest) = Len(noNotes) BY <2>1, NewestOfNotes
    <3>3. Len(noNotes) - j + 1 \in 1..Len(Panels!Newest) /\ Len(noNotes) - (Len(noNotes) - j + 1) + 1 = j
      BY <3>2
    <3>4. Panels!Newest[Len(noNotes) - j + 1] = noNotes[j] BY <3>3, NewestOfNotes
    <3>5. Panels!Newest[Len(noNotes) - j + 1].author = p BY <3>1, <3>4
    <3> QED BY <3>3, <3>5
  <2>2. \A q \in Desks : noFeedback[q] = "saved" =>
          (\E i \in 1..Len(noShown[q]) : noShown[q][i].author = q) \/ Len(noShown[q]) = NotePageSize
    BY DEF NotesInv
  <2> SUFFICES ASSUME NEW q \in Desks, noFeedback'[q] = "saved"
               PROVE  (\E i \in 1..Len(noShown'[q]) : noShown'[q][i].author = q) \/ Len(noShown'[q]) = NotePageSize
    OBVIOUS
  <2>3. CASE q = p
    <3>1. outcome = "saved" /\ noShown'[q] = Panels!Newest BY <2>3, <1>6
    <3> QED BY <3>1, <2>1, <2>3
  <2>4. CASE q # p
    <3>1. noFeedback[q] = "saved" /\ noShown'[q] = noShown[q] BY <2>4, <1>6
    <3> QED BY <3>1, <2>2
  <2> QED BY <2>3, <2>4
<1>12. \A c \in Handlers : noCall'[c].step = "saved" => NotedBy(noCall[c].page, noCall[c].text)'
                           /\ noCall'[c] = noCall[c]
  BY <1>8
<1> QED BY <1>4, <1>5, <1>7, <1>9, <1>10, <1>11, <1>12 DEF NotesInv, NotedBy

\* A handler takes a step, and its call keeps its page and its text.
LEMMA HandlerKeepsText ==
  ASSUME Panels!NotesAssumption, NotesInv, NEW c \in Handlers, NEW s \in {"insert", "saved", "refused"},
         noCall[c].step # "idle", Panels!Goto(c, s), UNCHANGED <<noContent, noSaving, noFeedback, noShown, noTyped>>,
         noKept' \in BOOLEAN, noNotes' \in Seq(Panels!Note),
         \A p, t : NotedBy(p, t) => NotedBy(p, t)',
         s = "saved" => NotedBy(noCall[c].page, noCall[c].text)',
         \A i \in 1..Len(noNotes) : \E j \in 1..Len(noNotes') : noNotes'[j] = noNotes[i]
  PROVE  NotesInv'
<1> USE NotesTyping
<1>1. noCall' = [noCall EXCEPT ![c].step = s] BY DEF Panels!Goto
<1>2. \A d \in Handlers : /\ noCall'[d].page = noCall[d].page /\ noCall'[d].text = noCall[d].text
                          /\ noCall'[d].step = IF d = c THEN s ELSE noCall[d].step
  BY <1>1 DEF CallType
<1>3. noCall' \in [Handlers -> CallType]
  <2>1. noCall \in [Handlers -> CallType] /\ s \in {"idle", "check", "insert", "saved", "refused"} OBVIOUS
  <2>2. [noCall[c] EXCEPT !.step = s] \in CallType BY ONLY <2>1, c \in Handlers DEF CallType
  <2>3. noCall' = [noCall EXCEPT ![c] = [noCall[c] EXCEPT !.step = s]] BY ONLY <1>1
  <2> QED BY ONLY <2>1, <2>2, <2>3
<1>4. Panels!TypeOK' BY <1>3 DEF Panels!TypeOK, CallType
<1>5. \A d \in Handlers : noCall'[d].step # "idle" => noCall[d].step # "idle" BY <1>2
<1>6. \A d \in Handlers : noCall'[d].step # "idle" => noCall'[d].page \in Desks /\ noCall'[d].text \in Texts
  BY <1>2, <1>5 DEF NotesInv
<1>7. \A q \in Desks : noSaving'[q] # Nobody =>
        /\ noCall'[noSaving'[q]].step # "idle" /\ noCall'[noSaving'[q]].page = q
        /\ noCall'[noSaving'[q]].text = noContent'[q]
  <2> SUFFICES ASSUME NEW q \in Desks, noSaving[q] # Nobody
               PROVE  /\ noCall'[noSaving[q]].step # "idle" /\ noCall'[noSaving[q]].page = q
                      /\ noCall'[noSaving[q]].text = noContent[q]
    OBVIOUS
  <2>1. noSaving[q] \in Handlers OBVIOUS
  <2>2. noCall[noSaving[q]].step # "idle" /\ noCall[noSaving[q]].page = q /\ noCall[noSaving[q]].text = noContent[q]
    BY DEF NotesInv
  <2> QED BY <1>2, <2>1, <2>2
<1>8. \A d \in Handlers : noCall'[d].step = "saved" => NotedBy(noCall'[d].page, noCall'[d].text)
                          \/ d = c
  BY <1>2 DEF NotesInv
<1>9. \A d \in Handlers : noCall'[d].step = "saved" => NotedBy(noCall[d].page, noCall[d].text)'
  <2> SUFFICES ASSUME NEW d \in Handlers, noCall'[d].step = "saved"
               PROVE  \E i \in 1..Len(noNotes') : noNotes'[i] = [text |-> noCall'[d].text, author |-> noCall'[d].page]
    BY DEF NotedBy
  <2>1. CASE d = c BY <2>1, <1>2 DEF NotedBy
  <2>2. CASE d # c
    <3>1. NotedBy(noCall[d].page, noCall[d].text) BY <2>2, <1>2 DEF NotesInv
    <3>2. \E i \in 1..Len(noNotes') : noNotes'[i] = [text |-> noCall[d].text, author |-> noCall[d].page]
      BY <3>1 DEF NotedBy
    <3> QED BY <3>2, <1>2
  <2> QED BY <2>1, <2>2
<1>10. \A q \in Desks :
         noContent'[q] = noTyped'[q] \/ (noContent'[q] = Nobody /\ NotedBy(q, noTyped[q])')
  <2>1. \A q \in Desks : noContent[q] = noTyped[q] \/ (noContent[q] = Nobody /\ NotedBy(q, noTyped[q]))
    BY DEF NotesInv
  <2>2. noContent' = noContent /\ noTyped' = noTyped OBVIOUS
  <2>3. \A q \in Desks : NotedBy(q, noTyped[q]) => NotedBy(q, noTyped[q])'
    <3> SUFFICES ASSUME NEW q \in Desks, NotedBy(q, noTyped[q]) PROVE NotedBy(q, noTyped[q])' OBVIOUS
    <3>1. PICK t : t = noTyped[q] OBVIOUS
    <3>2. NotedBy(q, t)' BY ONLY <3>1, NotedBy(q, noTyped[q]), \A p, u : NotedBy(p, u) => NotedBy(p, u)'
    <3> QED BY ONLY <2>2, <3>1, <3>2 DEF NotedBy
  <2> QED BY ONLY <2>1, <2>2, <2>3
<1>11. \A q \in Desks : \A i \in 1..Len(noShown'[q]) :
         \E j \in 1..Len(noNotes') : noNotes'[j] = noShown'[q][i]
  <2>1. \A q \in Desks : \A i \in 1..Len(noShown[q]) : \E k \in 1..Len(noNotes) : noNotes[k] = noShown[q][i]
    BY ONLY NotesInv DEF NotesInv
  <2>2. \A k \in 1..Len(noNotes) : \E j \in 1..Len(noNotes') : noNotes'[j] = noNotes[k] OBVIOUS
  <2>3. noShown' = noShown OBVIOUS
  <2> QED BY ONLY <2>1, <2>2, <2>3
<1>12. \A q \in Desks : noFeedback'[q] = "saved" =>
         (\E i \in 1..Len(noShown'[q]) : noShown'[q][i].author = q) \/ Len(noShown'[q]) = NotePageSize
  <2>1. noFeedback' = noFeedback /\ noShown' = noShown OBVIOUS
  <2> QED BY ONLY NotesInv, <2>1 DEF NotesInv
<1> QED BY ONLY <1>4, <1>6, <1>7, <1>9, <1>10, <1>11, <1>12 DEF NotesInv

\* Every step keeps the invariant.
LEMMA NotesStep ==
  ASSUME Panels!NotesAssumption, NotesInv, [Panels!Next]_(Panels!vars)
  PROVE  NotesInv'
<1> USE NotesTyping
<1>1. CASE Panels!Purge
  <2>1. noKept' = FALSE /\ UNCHANGED <<noNotes, noContent, noSaving, noFeedback, noShown, noTyped, noCall>>
    BY <1>1 DEF Panels!Purge, Panels!panels
  <2>2. Panels!TypeOK' BY <2>1 DEF Panels!TypeOK, CallType
  <2> QED BY <2>1, <2>2 DEF NotesInv, NotedBy
<1>2. ASSUME NEW p \in Desks, Panels!GiveUp(p) PROVE NotesInv'
  <2>1. noSaving[p] # Nobody /\ Panels!Heard(p, "unreachable") /\ UNCHANGED <<noKept, noNotes, noCall, noTyped>>
    BY <1>2 DEF Panels!GiveUp
  <2> QED BY <2>1, PanelHears
<1>3. ASSUME NEW p \in Desks, NEW t \in Texts, Panels!Type(p, t) PROVE NotesInv'
  <2>1. /\ noSaving[p] = Nobody /\ UNCHANGED <<noKept, noNotes, noSaving, noFeedback, noShown, noCall>>
        /\ noContent' = [noContent EXCEPT ![p] = t] /\ noTyped' = [noTyped EXCEPT ![p] = t]
    BY <1>3 DEF Panels!Type
  <2>2. \A q \in Desks : /\ noContent'[q] = IF q = p THEN t ELSE noContent[q]
                         /\ noTyped'[q] = IF q = p THEN t ELSE noTyped[q]
    BY <2>1
  <2>3. Panels!TypeOK' BY <2>1 DEF Panels!TypeOK, CallType
  <2>4. UNCHANGED <<noNotes, noSaving, noFeedback, noShown, noCall>> /\ noSaving[p] = Nobody BY ONLY <2>1
  <2>5. \A q \in Desks : noSaving'[q] # Nobody =>
          /\ noCall'[noSaving'[q]].step # "idle" /\ noCall'[noSaving'[q]].page = q
          /\ noCall'[noSaving'[q]].text = noContent'[q]
    <3>1. \A q \in Desks : noSaving[q] # Nobody =>
            /\ noCall[noSaving[q]].step # "idle" /\ noCall[noSaving[q]].page = q
            /\ noCall[noSaving[q]].text = noContent[q]
      BY ONLY NotesInv, Zenon DEF NotesInv
    <3>2. noSaving' = noSaving /\ noCall' = noCall BY ONLY <2>4
    <3>3. \A q \in Desks : noSaving[q] # Nobody => noContent'[q] = noContent[q] BY ONLY <2>2, <2>4
    <3> QED BY ONLY <3>1, <3>2, <3>3
  <2>6. ASSUME NEW q \in Desks
        PROVE  noContent'[q] = noTyped'[q] \/ (noContent'[q] = Nobody /\ NotedBy(q, noTyped[q])')
    <3>1. CASE q = p
      <4>1. noContent'[q] = t /\ noTyped'[q] = t BY ONLY <2>2, <3>1, q \in Desks
      <4> QED BY ONLY <4>1
    <3>2. CASE q # p
      <4>1. noContent[q] = noTyped[q] \/ (noContent[q] = Nobody /\ NotedBy(q, noTyped[q]))
        BY ONLY NotesInv, q \in Desks DEF NotesInv
      <4>2. noContent'[q] = noContent[q] /\ noTyped'[q] = noTyped[q] /\ noNotes' = noNotes
        BY ONLY <2>2, <2>4, <3>2, q \in Desks
      <4> QED BY ONLY <4>1, <4>2 DEF NotedBy
    <3> QED BY ONLY <3>1, <3>2
  <2>7. /\ \A c \in Handlers : noCall'[c].step # "idle" => noCall'[c].page \in Desks /\ noCall'[c].text \in Texts
        /\ \A c \in Handlers : noCall'[c].step = "saved" => NotedBy(noCall[c].page, noCall[c].text)'
    <3>1. /\ \A c \in Handlers : noCall[c].step # "idle" => noCall[c].page \in Desks /\ noCall[c].text \in Texts
          /\ \A c \in Handlers : noCall[c].step = "saved" => NotedBy(noCall[c].page, noCall[c].text)
      BY ONLY NotesInv, Zenon DEF NotesInv
    <3>2. noCall' = noCall /\ noNotes' = noNotes BY ONLY <2>4
    <3> QED BY ONLY <3>1, <3>2, Zenon DEF NotedBy
  <2>8. /\ \A q \in Desks : \A i \in 1..Len(noShown'[q]) :
             \E j \in 1..Len(noNotes') : noNotes'[j] = noShown'[q][i]
        /\ \A q \in Desks : noFeedback'[q] = "saved" =>
             (\E i \in 1..Len(noShown'[q]) : noShown'[q][i].author = q) \/ Len(noShown'[q]) = NotePageSize
    <3>1. /\ \A q \in Desks : \A i \in 1..Len(noShown[q]) : \E j \in 1..Len(noNotes) : noNotes[j] = noShown[q][i]
          /\ \A q \in Desks : noFeedback[q] = "saved" =>
               (\E i \in 1..Len(noShown[q]) : noShown[q][i].author = q) \/ Len(noShown[q]) = NotePageSize
      BY ONLY NotesInv, Zenon DEF NotesInv
    <3>2. noShown' = noShown /\ noNotes' = noNotes /\ noFeedback' = noFeedback BY ONLY <2>4
    <3> QED BY ONLY <3>1, <3>2
  <2> QED BY ONLY <2>3, <2>5, <2>6, <2>7, <2>8 DEF NotesInv
<1>4. ASSUME NEW p \in Desks, NEW c \in Handlers, Panels!Submit(p, c) PROVE NotesInv'
  <2> DEFINE k == [step |-> "check", page |-> p, text |-> noContent[p]]
  <2>1. /\ noSaving[p] = Nobody /\ noContent[p] # Nobody /\ noCall[c] = Panels!Idle
        /\ noSaving' = [noSaving EXCEPT ![p] = c] /\ noFeedback' = [noFeedback EXCEPT ![p] = "none"]
        /\ noCall' = [noCall EXCEPT ![c] = k] /\ UNCHANGED <<noKept, noNotes, noContent, noShown, noTyped>>
    BY <1>4 DEF Panels!Submit
  <2>2. k \in CallType /\ k.step = "check" /\ k.page = p /\ k.text = noContent[p] /\ k.text \in Texts
    BY <2>1 DEF CallType
  <2> HIDE DEF k
  <2>3. \A d \in Handlers : noCall'[d] = IF d = c THEN k ELSE noCall[d] BY <2>1
  <2>4. \A q \in Desks : /\ noSaving'[q] = IF q = p THEN c ELSE noSaving[q]
                         /\ noFeedback'[q] = IF q = p THEN "none" ELSE noFeedback[q]
    BY <2>1
  <2>5. \A q \in Desks : noSaving[q] # Nobody => noSaving[q] # c
    BY <2>1, IdleNote DEF NotesInv
  <2>6. Panels!TypeOK' BY <2>1, <2>2 DEF Panels!TypeOK, CallType
  <2>7. \A d \in Handlers : noCall'[d].step # "idle" => noCall'[d].page \in Desks /\ noCall'[d].text \in Texts
    BY <2>2, <2>3 DEF NotesInv
  <2>8. \A q \in Desks : noSaving'[q] # Nobody =>
          /\ noCall'[noSaving'[q]].step # "idle" /\ noCall'[noSaving'[q]].page = q
          /\ noCall'[noSaving'[q]].text = noContent'[q]
    BY <2>1, <2>2, <2>3, <2>4, <2>5 DEF NotesInv
  <2>9. \A d \in Handlers : noCall'[d].step = "saved" => NotedBy(noCall[d].page, noCall[d].text)'
    BY <2>1, <2>2, <2>3 DEF NotesInv, NotedBy
  <2>10. \A q \in Desks :
           noContent'[q] = noTyped'[q] \/ (noContent'[q] = Nobody /\ NotedBy(q, noTyped[q])')
    <3>1. \A q \in Desks : noContent[q] = noTyped[q] \/ (noContent[q] = Nobody /\ NotedBy(q, noTyped[q]))
      BY ONLY NotesInv, Zenon DEF NotesInv
    <3>2. noContent' = noContent /\ noTyped' = noTyped /\ noNotes' = noNotes BY ONLY <2>1
    <3> QED BY ONLY <3>1, <3>2, Zenon DEF NotedBy
  <2>11. \A q \in Desks : \A i \in 1..Len(noShown'[q]) :
           \E j \in 1..Len(noNotes') : noNotes'[j] = noShown'[q][i]
    <3>1. noShown' = noShown /\ noNotes' = noNotes BY ONLY <2>1
    <3>2. \A q \in Desks : \A i \in 1..Len(noShown[q]) : \E j \in 1..Len(noNotes) : noNotes[j] = noShown[q][i]
      BY ONLY NotesInv, Zenon DEF NotesInv
    <3> QED BY ONLY <3>1, <3>2
  <2>12. \A q \in Desks : noFeedback'[q] = "saved" =>
           (\E i \in 1..Len(noShown'[q]) : noShown'[q][i].author = q) \/ Len(noShown'[q]) = NotePageSize
    <3>1. \A q \in Desks : noFeedback[q] = "saved" =>
            (\E i \in 1..Len(noShown[q]) : noShown[q][i].author = q) \/ Len(noShown[q]) = NotePageSize
      BY ONLY NotesInv, Zenon DEF NotesInv
    <3>2. noShown' = noShown /\ \A q \in Desks : noFeedback'[q] = "saved" => noFeedback[q] = "saved"
      BY <2>1, <2>4
    <3> QED BY ONLY <3>1, <3>2
  <2> QED BY <2>6, <2>7, <2>8, <2>9, <2>10, <2>11, <2>12 DEF NotesInv
<1>5. ASSUME NEW c \in Handlers, Panels!EntityExists(c) PROVE NotesInv'
  <2>1. PICK s \in {"insert", "refused"} : Panels!Goto(c, s) BY <1>5 DEF Panels!EntityExists
  <2>2. noCall[c].step = "check" /\ UNCHANGED <<noKept, noNotes, noContent, noSaving, noFeedback, noShown, noTyped>>
    BY <1>5 DEF Panels!EntityExists, Panels!panels
  <2>3. \A p, t : NotedBy(p, t) => NotedBy(p, t)' BY <2>2 DEF NotedBy
  <2>4. noCall[c].step # "idle" /\ s \in {"insert", "saved", "refused"} /\ s # "saved"
    BY <2>1, <2>2
  <2>5. noKept' \in BOOLEAN /\ noNotes' \in Seq(Panels!Note) /\ noNotes' = noNotes BY <2>2
  <2>6. \A i \in 1..Len(noNotes) : \E j \in 1..Len(noNotes') : noNotes'[j] = noNotes[i] BY ONLY <2>5
  <2>7. UNCHANGED <<noContent, noSaving, noFeedback, noShown, noTyped>> BY ONLY <2>2
  <2>8. s \in {"insert", "saved", "refused"} /\ c \in Handlers BY ONLY <2>4, c \in Handlers
  <2> QED BY <2>1, <2>3, <2>4, <2>5, <2>6, <2>7, <2>8, HandlerKeepsText
<1>6. ASSUME NEW c \in Handlers, Panels!InsertNote(c) PROVE NotesInv'
  <2> DEFINE n == [text |-> noCall[c].text, author |-> noCall[c].page]
  <2>1. /\ noCall[c].step = "insert" /\ noNotes' = Append(noNotes, n) /\ Panels!Goto(c, "saved")
        /\ UNCHANGED <<noKept, noContent, noSaving, noFeedback, noShown, noTyped>>
    BY <1>6 DEF Panels!InsertNote, Panels!panels
  <2>2. n \in Panels!Note BY <2>1 DEF NotesInv, Panels!Note
  <2>3. /\ noNotes' \in Seq(Panels!Note) /\ Len(noNotes') = Len(noNotes) + 1 /\ noNotes'[Len(noNotes) + 1] = n
        /\ \A i \in 1..Len(noNotes) : noNotes'[i] = noNotes[i]
    BY <2>1, <2>2, AppendProperties
  <2>4. \A i \in 1..Len(noNotes) : i \in 1..Len(noNotes') BY <2>3
  <2>5. \A p, t : NotedBy(p, t) => NotedBy(p, t)' BY <2>3, <2>4 DEF NotedBy
  <2>6. Len(noNotes) + 1 \in 1..Len(noNotes') BY <2>3
  <2>7. noCall'[c].text = noCall[c].text /\ noCall'[c].page = noCall[c].page
    BY <2>1 DEF Panels!Goto, CallType
  <2>8. NotedBy(noCall[c].page, noCall[c].text)' BY <2>3, <2>6, <2>7 DEF NotedBy
  <2> QED BY <2>1, <2>3, <2>4, <2>5, <2>8, HandlerKeepsText
<1>7. ASSUME NEW c \in Handlers, Panels!HandlerFails(c) PROVE NotesInv'
  <2>1. /\ noCall[c].step # "idle" /\ Panels!Goto(c, "refused")
        /\ UNCHANGED <<noKept, noNotes, noContent, noSaving, noFeedback, noShown, noTyped>>
    BY <1>7 DEF Panels!HandlerFails, Panels!panels
  <2>2. \A p, t : NotedBy(p, t) => NotedBy(p, t)' BY <2>1 DEF NotedBy
  <2> QED BY <2>1, <2>2, HandlerKeepsText
<1>8. ASSUME NEW c \in Handlers, Panels!Answer(c) PROVE NotesInv'
  <2>1. /\ noCall[c].step \in {"saved", "refused"} /\ noCall' = [noCall EXCEPT ![c] = Panels!Idle]
        /\ UNCHANGED <<noKept, noNotes, noTyped>>
    BY <1>8 DEF Panels!Answer
  <2>2. \A d \in Handlers : noCall'[d] = IF d = c THEN Panels!Idle ELSE noCall[d] BY <2>1
  <2>3. noCall' \in [Handlers -> CallType] BY <2>1, IdleNote
  <2>4. \A d \in Handlers : noCall'[d].step # "idle" => d # c /\ noCall'[d] = noCall[d]
    BY <2>2, IdleNote
  <2>5. noCall[c].page \in Desks BY <2>1 DEF NotesInv
  <2>6. CASE noSaving[noCall[c].page] = c
    <3> DEFINE p == noCall[c].page
    <3>1. Panels!Heard(p, noCall[c].step) BY <1>8, <2>6 DEF Panels!Answer
    <3>2. p \in Desks /\ noSaving[p] # Nobody BY <2>5, <2>6
    <3>3. noCall[c].step = "saved" => NotedBy(p, noContent[p])
      <4>1. noCall[c].text = noContent[p] BY <2>6, <3>2 DEF NotesInv
      <4> QED BY <4>1 DEF NotesInv
    <3>4. \A q \in Desks \ {p} : noSaving[q] # Nobody => noSaving[q] # c BY DEF NotesInv
    <3>5. \A q \in Desks \ {p} : noSaving[q] # Nobody => noCall'[noSaving[q]] = noCall[noSaving[q]]
      BY <2>2, <3>4
    <3> HIDE DEF p
    <3> QED BY <2>1, <2>3, <2>4, <3>1, <3>2, <3>3, <3>5, PanelHears
  <2>7. CASE noSaving[noCall[c].page] # c
    <3>1. UNCHANGED <<noContent, noSaving, noFeedback, noShown>> BY <1>8, <2>7 DEF Panels!Answer
    <3>2. Panels!TypeOK' BY <2>1, <2>3, <3>1 DEF Panels!TypeOK, CallType
    <3>3. \A q \in Desks : noSaving[q] # Nobody => noSaving[q] # c BY <2>7 DEF NotesInv
    <3>4. \A q \in Desks : noSaving'[q] # Nobody =>
            /\ noCall'[noSaving'[q]].step # "idle" /\ noCall'[noSaving'[q]].page = q
            /\ noCall'[noSaving'[q]].text = noContent'[q]
      BY <2>2, <3>1, <3>3 DEF NotesInv
    <3>5. \A d \in Handlers : noCall'[d].step = "saved" => NotedBy(noCall[d].page, noCall[d].text)'
      BY <2>1, <2>4 DEF NotesInv, NotedBy
    <3>6. \A d \in Handlers : noCall'[d].step # "idle" => noCall'[d].page \in Desks /\ noCall'[d].text \in Texts
      BY <2>4 DEF NotesInv
    <3>7. \A q \in Desks :
            noContent'[q] = noTyped'[q] \/ (noContent'[q] = Nobody /\ NotedBy(q, noTyped[q])')
      BY <2>1, <3>1 DEF NotesInv, NotedBy
    <3>8. \A q \in Desks : \A i \in 1..Len(noShown'[q]) :
            \E j \in 1..Len(noNotes') : noNotes'[j] = noShown'[q][i]
      BY <2>1, <3>1 DEF NotesInv
    <3>9. \A q \in Desks : noFeedback'[q] = "saved" =>
            (\E i \in 1..Len(noShown'[q]) : noShown'[q][i].author = q) \/ Len(noShown'[q]) = NotePageSize
      BY <3>1 DEF NotesInv
    <3> QED BY <3>2, <3>4, <3>5, <3>6, <3>7, <3>8, <3>9 DEF NotesInv
  <2> QED BY <2>6, <2>7
<1>9. CASE UNCHANGED Panels!vars
  <2>1. UNCHANGED <<noKept, noNotes, noContent, noSaving, noFeedback, noShown, noTyped, noCall>>
    BY <1>9 DEF Panels!vars, Panels!panels
  <2> QED BY <2>1 DEF NotesInv, Panels!TypeOK, NotedBy
<1> QED BY <1>1, <1>2, <1>3, <1>4, <1>5, <1>6, <1>7, <1>8, <1>9 DEF Panels!Next

\* What the invariant is for.
LEMMA NotesSafe ==
  ASSUME Panels!NotesAssumption, NotesInv PROVE Panels!NothingTypedIsLost /\ Panels!SavedIsShown
<1>1. DOMAIN noNotes = 1..Len(noNotes) /\ \A p \in Desks : DOMAIN noShown[p] = 1..Len(noShown[p])
  BY NotesTyping, LenProperties
<1>2. Panels!NothingTypedIsLost BY <1>1 DEF NotesInv, NotedBy, Panels!NothingTypedIsLost
<1>3. Panels!SavedIsShown BY <1>1 DEF NotesInv, Panels!SavedIsShown
<1> QED BY <1>2, <1>3

-----------------------------------------------------------------------------
(* The particulars of a client (Profile).                                  *)

\* What a form said is in the row.
Stored(f) == prUser.phone = f.phone /\ f.name \in {prUser.name, Nobody}

\* Requests under way are numbered apart from one another and from those the pages
\* were told of; the one that wrote last is in the row, wherever it is on its way.
ProfileInv ==
  /\ Particulars!TypeOK
  /\ \A c \in Handlers : prCall[c].step # "idle" =>
       prCall[c].page \in Pages /\ prCall[c].request.number \in 1..prSent
  /\ \A c, d \in Handlers :
       prCall[c].step # "idle" /\ prCall[d].step # "idle"
       /\ prCall[c].request.number = prCall[d].request.number => c = d
  /\ \A p \in Pages : prTold[p].number <= prSent
  /\ \A p \in Pages, c \in Handlers :
       prCall[c].step # "idle" => prTold[p].number # prCall[c].request.number
  /\ \A c \in Handlers :
       prCall[c].step = "saved" /\ prCall[c].request.number = prWritten => Stored(prCall[c].request.form)
  /\ \A p \in Pages :
       prFeedback[p] = "saved" /\ prTold[p].number = prWritten => Stored(prTold[p].form)

LEMMA BlankIsRequest == ASSUME Particulars!ProfileAssumption
  PROVE Particulars!Blank \in Particulars!Request /\ Particulars!Blank.number = 0
BY DEF Particulars!ProfileAssumption, Particulars!Blank, Particulars!Request, Particulars!Form

LEMMA IdleCall ==
  ASSUME Particulars!ProfileAssumption
  PROVE  /\ Particulars!Idle.step = "idle"
         /\ Particulars!Idle \in [step : {"idle", "handler", "saved", "failed"},
                                  page : Pages \cup {Nobody}, request : Particulars!Request]
BY BlankIsRequest DEF Particulars!Idle

LEMMA ProfileInit == ASSUME Particulars!ProfileAssumption PROVE Particulars!Init => ProfileInv
<1> SUFFICES ASSUME Particulars!Init PROVE ProfileInv
  OBVIOUS
<1>1. Particulars!TypeOK
  BY BlankIsRequest, IdleCall
  DEF Particulars!Init, Particulars!TypeOK, Particulars!ProfileAssumption
<1>2. \A c \in Handlers : prCall[c].step = "idle" BY IdleCall DEF Particulars!Init
<1>3. \A p \in Pages : prTold[p].number = 0 /\ prFeedback[p] = "none"
  BY BlankIsRequest DEF Particulars!Init
<1>4. prSent = 0 BY DEF Particulars!Init
<1> QED BY <1>1, <1>2, <1>3, <1>4 DEF ProfileInv

\* Every step keeps the invariant.
LEMMA ProfileStepHolds ==
  ASSUME Particulars!ProfileAssumption, ProfileInv, [Particulars!Next]_(Particulars!vars)
  PROVE  ProfileInv'
<1>0. /\ prUser \in Particulars!Form /\ prForm \in [Pages -> Particulars!Form] /\ prTold \in [Pages -> Particulars!Request]
      /\ prSaving \in [Pages -> Handlers \cup {Nobody}]
      /\ prFeedback \in [Pages -> {"none", "saved", "failed"}]
      /\ prCall \in [Handlers -> [step : {"idle", "handler", "saved", "failed"},
                                  page : Pages \cup {Nobody}, request : Particulars!Request]]
      /\ prSent \in 0..MaxSent /\ prWritten \in 0..MaxSent /\ MaxSent \in Nat
  BY DEF ProfileInv, Particulars!TypeOK, Particulars!ProfileAssumption
<1>1. ASSUME NEW p \in Pages, Particulars!Type(p) PROVE ProfileInv'
  <2>1. UNCHANGED <<prUser, prSaving, prFeedback, prTold, prCall, prSent, prWritten>>
    BY <1>1 DEF Particulars!Type
  <2>2. prForm' \in [Pages -> Particulars!Form]
    <3>1. CASE \E v \in Phones \cup {Nobody} : prForm' = [prForm EXCEPT ![p].phone = v]
      BY <3>1, <1>0 DEF Particulars!Form
    <3>2. CASE \E v \in Names \cup {Nobody} : prForm' = [prForm EXCEPT ![p].name = v]
      BY <3>2, <1>0 DEF Particulars!Form
    <3> QED BY <1>1, <3>1, <3>2 DEF Particulars!Type
  <2> QED BY <2>1, <2>2 DEF ProfileInv, Particulars!TypeOK, Stored
<1>2. ASSUME NEW p \in Pages, Particulars!Reload(p) PROVE ProfileInv'
  <2>1. UNCHANGED <<prUser, prSaving, prTold, prCall, prSent, prWritten>> /\ prForm' = [prForm EXCEPT ![p] = prUser]
        /\ prFeedback' = [prFeedback EXCEPT ![p] = "none"]
    BY <1>2 DEF Particulars!Reload
  <2>2. Particulars!TypeOK' BY <2>1, <1>0 DEF Particulars!TypeOK
  <2>3. \A q \in Pages : prFeedback'[q] = "saved" => prFeedback[q] = "saved" BY <2>1, <1>0
  <2> QED BY <2>1, <2>2, <2>3 DEF ProfileInv, Stored
<1>3. ASSUME NEW p \in Pages, Particulars!GiveUp(p) PROVE ProfileInv'
  <2>1. /\ UNCHANGED <<prUser, prForm, prTold, prCall, prSent, prWritten>>
        /\ prSaving' = [prSaving EXCEPT ![p] = Nobody] /\ prFeedback' = [prFeedback EXCEPT ![p] = "failed"]
    BY <1>3 DEF Particulars!GiveUp, Particulars!Heard
  <2>2. Particulars!TypeOK' BY <2>1, <1>0 DEF Particulars!TypeOK
  <2>3. \A q \in Pages : prFeedback'[q] = "saved" => prFeedback[q] = "saved" BY <2>1, <1>0
  <2> QED BY <2>1, <2>2, <2>3 DEF ProfileInv, Stored
<1>4. ASSUME NEW p \in Pages, NEW c \in Handlers, Particulars!Submit(p, c) PROVE ProfileInv'
  <2> DEFINE r == [form |-> prForm[p], number |-> prSent + 1]
             k == [step |-> "handler", page |-> p, request |-> r]
  <2>1. /\ UNCHANGED <<prUser, prForm, prTold, prWritten>> /\ prSent' = prSent + 1 /\ prSent < MaxSent
        /\ prCall' = [prCall EXCEPT ![c] = k] /\ prSaving' = [prSaving EXCEPT ![p] = c]
        /\ prFeedback' = [prFeedback EXCEPT ![p] = "none"]
    BY <1>4 DEF Particulars!Submit
  <2>2. /\ r \in Particulars!Request /\ k.step = "handler" /\ k.page = p /\ k.request.number = prSent + 1
        /\ k \in [step : {"idle", "handler", "saved", "failed"},
                  page : Pages \cup {Nobody}, request : Particulars!Request]
    BY <2>1, <1>0 DEF Particulars!Request
  <2> HIDE DEF k, r
  <2>3. Particulars!TypeOK' BY <2>1, <2>2, <1>0 DEF Particulars!TypeOK
  <2>4. \A q \in Pages : prFeedback'[q] = "saved" => prFeedback[q] = "saved" BY <2>1, <1>0
  <2>5. \A d \in Handlers : prCall'[d] = IF d = c THEN k ELSE prCall[d] BY <2>1, <1>0
  <2>6. \A d \in Handlers : prCall[d].step # "idle" => prCall[d].request.number # prSent + 1
    BY <1>0 DEF ProfileInv
  <2>7. \A q \in Pages : prTold'[q].number <= prSent /\ prTold'[q].number \in Nat /\ prTold' = prTold
    BY <2>1, <1>0 DEF ProfileInv, Particulars!Request
  <2>8. \A d \in Handlers : prCall'[d].step # "idle" =>
          prCall'[d].page \in Pages /\ prCall'[d].request.number \in 1..prSent'
    BY <2>1, <2>2, <2>5, <1>0 DEF ProfileInv
  <2>9. \A d, e \in Handlers :
          prCall'[d].step # "idle" /\ prCall'[e].step # "idle"
          /\ prCall'[d].request.number = prCall'[e].request.number => d = e
    BY <2>2, <2>5, <2>6 DEF ProfileInv
  <2>10. \A q \in Pages, d \in Handlers :
           prCall'[d].step # "idle" => prTold'[q].number # prCall'[d].request.number
    BY <2>2, <2>5, <2>7, <1>0 DEF ProfileInv
  <2>11. \A q \in Pages : prTold'[q].number <= prSent' BY <2>1, <2>7, <1>0
  <2>12. \A d \in Handlers : prCall'[d].step = "saved" /\ prCall'[d].request.number = prWritten'
           => Stored(prCall[d].request.form)'
    BY <2>1, <2>2, <2>5 DEF ProfileInv, Stored
  <2>13. \A q \in Pages : prFeedback'[q] = "saved" /\ prTold'[q].number = prWritten'
           => Stored(prTold[q].form)'
    BY <2>1, <2>4 DEF ProfileInv, Stored
  <2> QED BY <2>3, <2>8, <2>9, <2>10, <2>11, <2>12, <2>13 DEF ProfileInv
<1>5. ASSUME NEW c \in Handlers, Particulars!UpdateProfile(c) PROVE ProfileInv'
  <2> DEFINE f == prCall[c].request.form
             n == prCall[c].request.number
  <2>1. /\ UNCHANGED <<prForm, prSaving, prFeedback, prTold, prSent>> /\ prCall[c].step = "handler"
        /\ prUser' = Particulars!Updated(prUser, f) /\ prWritten' = n
        /\ prCall' = [prCall EXCEPT ![c].step = "saved"]
    BY <1>5 DEF Particulars!UpdateProfile, Particulars!pages
  <2>2. f \in Particulars!Form /\ n \in 0..MaxSent BY <1>0 DEF Particulars!Request
  <2>3. prUser' \in Particulars!Form /\ prUser'.phone = f.phone /\ f.name \in {prUser'.name, Nobody}
    BY <2>1, <2>2, <1>0 DEF Particulars!Updated, Particulars!Form
  <2>4. \A d \in Handlers : /\ prCall'[d].page = prCall[d].page /\ prCall'[d].request = prCall[d].request
                            /\ prCall'[d].step = IF d = c THEN "saved" ELSE prCall[d].step
    BY <2>1, <1>0
  <2>5. Particulars!TypeOK' BY <2>1, <2>2, <2>3, <1>0 DEF Particulars!TypeOK
  <2>6. \A d \in Handlers : prCall'[d].step # "idle" => prCall[d].step # "idle" BY <2>1, <2>4
  <2>7. \A d \in Handlers : prCall'[d].step # "idle" => (prCall'[d].request.number = n => d = c)
    BY <2>1, <2>4, <2>6 DEF ProfileInv
  <2>8. \A q \in Pages : prTold'[q].number # n BY <2>1 DEF ProfileInv
  <2>9. \A d \in Handlers : prCall'[d].step = "saved" /\ prCall'[d].request.number = prWritten'
           => Stored(prCall[d].request.form)'
    BY <2>1, <2>3, <2>4, <2>7 DEF Stored
  <2> QED BY <2>1, <2>4, <2>5, <2>6, <2>8, <2>9 DEF ProfileInv
<1>6. ASSUME NEW c \in Handlers, Particulars!HandlerFails(c) PROVE ProfileInv'
  <2>1. /\ UNCHANGED <<prUser, prForm, prSaving, prFeedback, prTold, prSent, prWritten>>
        /\ prCall[c].step = "handler" /\ prCall' = [prCall EXCEPT ![c].step = "failed"]
    BY <1>6 DEF Particulars!HandlerFails, Particulars!pages
  <2>2. \A d \in Handlers : /\ prCall'[d].page = prCall[d].page /\ prCall'[d].request = prCall[d].request
                            /\ prCall'[d].step = IF d = c THEN "failed" ELSE prCall[d].step
    BY <2>1, <1>0
  <2>3. Particulars!TypeOK' BY <2>1, <1>0 DEF Particulars!TypeOK
  <2>4. \A d \in Handlers : /\ prCall'[d].step # "idle" => prCall[d].step # "idle"
                            /\ prCall'[d].step = "saved" => prCall[d].step = "saved"
    BY <2>1, <2>2
  <2> QED BY <2>1, <2>2, <2>3, <2>4 DEF ProfileInv, Stored
<1>7. ASSUME NEW c \in Handlers, Particulars!Answer(c) PROVE ProfileInv'
  <2> DEFINE p == prCall[c].page
             r == prCall[c].request
  <2>1. /\ UNCHANGED <<prUser, prForm, prSent, prWritten>> /\ prCall[c].step \in {"saved", "failed"}
        /\ prCall' = [prCall EXCEPT ![c] = Particulars!Idle]
    BY <1>7 DEF Particulars!Answer
  <2>2. p \in Pages /\ r \in Particulars!Request /\ r.number \in 1..prSent
    BY <2>1, <1>0 DEF ProfileInv
  <2>3. \A d \in Handlers : prCall'[d] = IF d = c THEN Particulars!Idle ELSE prCall[d]
    BY <2>1, <1>0
  <2>4. \A d \in Handlers : prCall'[d].step # "idle" => d # c /\ prCall'[d] = prCall[d]
    BY <2>3, IdleCall
  <2>5. prCall' \in [Handlers -> [step : {"idle", "handler", "saved", "failed"},
                                  page : Pages \cup {Nobody}, request : Particulars!Request]]
    BY <2>1, <1>0, IdleCall
  <2>6. \A d \in Handlers : prCall'[d].step # "idle" =>
          prCall'[d].page \in Pages /\ prCall'[d].request.number \in 1..prSent'
    BY <2>1, <2>4 DEF ProfileInv
  <2>7. \A d, e \in Handlers :
          prCall'[d].step # "idle" /\ prCall'[e].step # "idle"
          /\ prCall'[d].request.number = prCall'[e].request.number => d = e
    BY <2>4 DEF ProfileInv
  <2>8. \A d \in Handlers : prCall'[d].step = "saved" /\ prCall'[d].request.number = prWritten'
           => Stored(prCall[d].request.form)'
    BY <2>1, <2>4 DEF ProfileInv, Stored
  <2>9. CASE prSaving[p] = c
    <3>1. /\ prSaving' = [prSaving EXCEPT ![p] = Nobody] /\ prTold' = [prTold EXCEPT ![p] = r]
          /\ prFeedback' = [prFeedback EXCEPT ![p] = prCall[c].step]
      BY <1>7, <2>9 DEF Particulars!Answer, Particulars!Heard
    <3>2. Particulars!TypeOK' BY <2>1, <2>2, <2>5, <3>1, <1>0 DEF Particulars!TypeOK
    <3>3. \A q \in Pages : /\ prTold'[q] = IF q = p THEN r ELSE prTold[q]
                           /\ prFeedback'[q] = IF q = p THEN prCall[c].step ELSE prFeedback[q]
      BY <3>1, <1>0
    <3>4. \A q \in Pages : prTold'[q].number <= prSent' BY <2>1, <2>2, <3>3 DEF ProfileInv
    <3>5. \A q \in Pages, d \in Handlers :
            prCall'[d].step # "idle" => prTold'[q].number # prCall'[d].request.number
      BY <2>1, <2>4, <3>3 DEF ProfileInv
    <3>6. \A q \in Pages : prFeedback'[q] = "saved" /\ prTold'[q].number = prWritten'
            => Stored(prTold[q].form)'
      BY <2>1, <3>3 DEF ProfileInv, Stored
    <3> QED BY <3>2, <2>6, <2>7, <2>8, <3>4, <3>5, <3>6 DEF ProfileInv
  <2>10. CASE prSaving[p] # c
    <3>1. UNCHANGED <<prSaving, prFeedback, prTold>> BY <1>7, <2>10 DEF Particulars!Answer
    <3>2. Particulars!TypeOK' BY <2>1, <2>5, <3>1, <1>0 DEF Particulars!TypeOK
    <3> QED BY <2>1, <2>4, <3>1, <3>2, <2>6, <2>7, <2>8 DEF ProfileInv, Stored
  <2> QED BY <2>9, <2>10
<1>8. CASE UNCHANGED Particulars!vars
  BY <1>8 DEF Particulars!vars, Particulars!pages, ProfileInv, Particulars!TypeOK, Stored
<1> QED BY <1>1, <1>2, <1>3, <1>4, <1>5, <1>6, <1>7, <1>8 DEF Particulars!Next

\* What the invariant is for.
LEMMA ProfileSafe == ASSUME ProfileInv PROVE Particulars!SavedIsStored
BY DEF ProfileInv, Particulars!SavedIsStored, Stored

-----------------------------------------------------------------------------
(* The contact form and its officers (ContactMessages).                    *)

\* Dates a message has.
Dates == {"read", "replied", "archived"}
\* Types of the rows, the forms and the calls.
LetterType == [text : Texts \cup {Nobody}, key : Inbox!Keys \cup {Inbox!NoKey}, status : Inbox!RowStatuses,
               dates : SUBSET Dates]
EntryType == [from : Inbox!RowStatuses, to : Inbox!ContactMessageStatuses]
FormType == [text : Texts \cup {Nobody}, draw : 0..MaxDraws,
             call : Handlers \cup {Nobody}, shown : Letters \cup {Nobody}]
PostType == [page : Pages \cup {Nobody}, key : Inbox!Keys \cup {Inbox!NoKey}, text : Texts \cup {Nobody}]
EditorType == [row : Letters \cup {Nobody}, status : Inbox!RowStatuses]
ChangeType == [row : Letters \cup {Nobody}, from : Inbox!RowStatuses, to : Inbox!RowStatuses]

\* The history h is a walk that ends at status, and the dates are those of the walk.
Walk(h, status, dates) ==
  /\ Len(h) > 0 /\ h[1] = Inbox!Entry("none", "new") /\ h[Len(h)].to = status
  /\ \A k \in 2..Len(h) : h[k].from = h[k - 1].to /\ Inbox!CanTransition(h[k].from, h[k].to)
  /\ \A d : d \in dates <=> \E k \in 1..Len(h) : d \in Inbox!DatesOf(h[k])

\* The history of a message is a walk from its first status to the one it has.
Walked == \A r \in Letters : Inbox!Kept(r) => Walk(msgHistory[r], msgMessage[r].status, msgMessage[r].dates)

\* A call is posted under a key of its page.
Posted == \A c \in Handlers : msgStage[c] # "idle" =>
  msgPost[c].page \in Pages /\ msgPost[c].key \in Inbox!Keys /\ msgPost[c].key[1] = msgPost[c].page

\* Officers look at messages that are kept, and move them where they may.
Edited == \A o \in Officers : msgEditor[o].row # Nobody =>
  msgEditor[o].row \in Letters /\ Inbox!Kept(msgEditor[o].row) /\ msgEditor[o].status \in Inbox!ContactMessageStatuses
\* An officer changes a message that is there, along a transition.
Changing == \A o \in Officers : msgChange[o] # Inbox!NoChange =>
  /\ msgChange[o].row \in Letters /\ Inbox!Kept(msgChange[o].row)
  /\ msgChange[o].from \in Inbox!ContactMessageStatuses /\ msgChange[o].to \in Inbox!ContactMessageStatuses
  /\ msgChange[o].from = msgChange[o].to \/ Inbox!CanTransition(msgChange[o].from, msgChange[o].to)

\* Together, inductive.
ContactInv == Inbox!TypeOK /\ Inbox!KeptOnce /\ Walked /\ Posted /\ Edited /\ Changing

\* Types, variable by variable.
LEMMA ContactTyping ==
  Inbox!TypeOK <=>
    /\ msgMessage \in [Letters -> LetterType] /\ msgHistory \in [Letters -> Seq(EntryType)]
    /\ msgReceipts \in [Letters -> Nat] /\ msgForm \in [Pages -> FormType]
    /\ msgStage \in [Handlers -> {"idle", "find", "insert", "conflict"}]
    /\ msgPost \in [Handlers -> PostType] /\ msgEditor \in [Officers -> EditorType]
    /\ msgChange \in [Officers -> ChangeType]
BY DEF Inbox!TypeOK, LetterType, EntryType, FormType, PostType, EditorType, ChangeType, Dates

LEMMA MovesAreTyped ==
  \A from, to \in Inbox!RowStatuses : from \in Inbox!ContactMessageStatuses /\ Inbox!CanTransition(from, to)
     => to \in Inbox!ContactMessageStatuses
BY DEF Inbox!CanTransition, Inbox!Transitions, Inbox!ContactMessageStatuses, Inbox!RowStatuses

-----------------------------------------------------------------------------
(* Histories.                                                              *)

LEMMA WalkStarts ==
  /\ <<Inbox!Entry("none", "new")>> \in Seq(EntryType)
  /\ Walk(<<Inbox!Entry("none", "new")>>, "new", {})
<1> DEFINE e == Inbox!Entry("none", "new")
           h == <<e>>
<1>1. e \in EntryType BY DEF Inbox!Entry, EntryType, Inbox!RowStatuses, Inbox!ContactMessageStatuses
<1>2. e.from = "none" /\ e.to = "new" BY DEF Inbox!Entry
<1>3. \A d : d \notin Inbox!DatesOf(e) BY <1>2 DEF Inbox!DatesOf
<1> HIDE DEF e
<1>4. h \in Seq(EntryType) /\ Len(h) = 1 /\ h[1] = e BY <1>1
<1>5. Walk(h, "new", {}) BY <1>2, <1>3, <1>4 DEF Walk, e
<1> QED BY <1>4, <1>5 DEF e

\* A walk with one more transition is a walk.
LEMMA WalkGoesOn ==
  ASSUME NEW h \in Seq(EntryType), NEW m, m.from \in Inbox!ContactMessageStatuses,
         m.to \in Inbox!ContactMessageStatuses, Inbox!CanTransition(m.from, m.to),
         NEW dates, Walk(h, m.from, dates)
  PROVE  /\ Append(h, Inbox!Entry(m.from, m.to)) \in Seq(EntryType)
         /\ Walk(Append(h, Inbox!Entry(m.from, m.to)), m.to, dates \cup Inbox!DatesOf(m))
<1> DEFINE e == Inbox!Entry(m.from, m.to)
           g == Append(h, e)
           D == Inbox!DatesOf(m)
<1>1. e \in EntryType BY DEF Inbox!Entry, EntryType, Inbox!RowStatuses
<1>2. e.from = m.from /\ e.to = m.to BY DEF Inbox!Entry
<1>3. Inbox!DatesOf(e) = D BY <1>2 DEF Inbox!DatesOf
<1> HIDE DEF e, D
<1>4. /\ g \in Seq(EntryType) /\ Len(g) = Len(h) + 1 /\ g[Len(h) + 1] = e
      /\ \A k \in 1..Len(h) : g[k] = h[k]
  BY <1>1, AppendProperties
<1> HIDE DEF g
<1>5. Len(h) \in Nat /\ Len(h) > 0 /\ h[1] = Inbox!Entry("none", "new") /\ h[Len(h)].to = m.from
  BY LenProperties DEF Walk
<1>6. Len(g) > 0 /\ g[1] = Inbox!Entry("none", "new") /\ g[Len(g)].to = m.to BY <1>2, <1>4, <1>5
<1>7. ASSUME NEW k \in 2..Len(g)
      PROVE  g[k].from = g[k - 1].to /\ Inbox!CanTransition(g[k].from, g[k].to)
  <2>1. CASE k = Len(h) + 1
    <3>1. g[k] = e /\ g[k - 1] = h[Len(h)] BY <2>1, <1>4, <1>5
    <3> QED BY <3>1, <1>2, <1>5
  <2>2. CASE k # Len(h) + 1
    <3>1. k \in 2..Len(h) /\ k - 1 \in 1..Len(h) /\ k \in 1..Len(h) BY <2>2, <1>4, <1>5
    <3>2. g[k] = h[k] /\ g[k - 1] = h[k - 1] BY <3>1, <1>4
    <3> QED BY <3>1, <3>2 DEF Walk
  <2> QED BY <2>1, <2>2
<1>8. \A d : d \in dates \cup D <=> \E k \in 1..Len(g) : d \in Inbox!DatesOf(g[k])
  <2> SUFFICES ASSUME NEW d
    PROVE d \in dates \cup D <=> \E k \in 1..Len(g) : d \in Inbox!DatesOf(g[k])
    OBVIOUS
  <2>1. d \in dates <=> \E k \in 1..Len(h) : d \in Inbox!DatesOf(h[k]) BY DEF Walk
  <2>2. \A k \in 1..Len(g) : k = Len(h) + 1 \/ k \in 1..Len(h) BY <1>4, <1>5
  <2>3. Len(h) + 1 \in 1..Len(g) /\ \A k \in 1..Len(h) : k \in 1..Len(g) BY <1>4, <1>5
  <2>4. Inbox!DatesOf(g[Len(h) + 1]) = D BY <1>3, <1>4
  <2>5. ASSUME d \in dates \cup D PROVE \E k \in 1..Len(g) : d \in Inbox!DatesOf(g[k])
    BY <2>1, <2>3, <2>4, <2>5, <1>4, Zenon
  <2>6. ASSUME NEW k \in 1..Len(g), d \in Inbox!DatesOf(g[k]) PROVE d \in dates \cup D
    BY <2>1, <2>2, <2>4, <2>6, <1>4, Zenon
  <2> QED BY <2>5, <2>6
<1>9. Walk(g, m.to, dates \cup D) BY <1>6, <1>7, <1>8 DEF Walk
<1> QED BY <1>4, <1>9 DEF g, e, D

\* A message that is saved where it is: its dates are those it has.
LEMMA WalkStays ==
  ASSUME NEW h \in Seq(EntryType), NEW m, m.from = m.to, NEW dates, Walk(h, m.from, dates)
  PROVE  Walk(h, m.to, dates \cup Inbox!DatesOf(m))
<1>1. Len(h) \in Nat /\ Len(h) > 0 /\ h[Len(h)].to = m.to BY LenProperties DEF Walk
<1>2. \A d : d \in Inbox!DatesOf(m) => d \in Inbox!DatesOf(h[Len(h)]) BY <1>1 DEF Inbox!DatesOf
<1>3. Len(h) \in 1..Len(h) BY <1>1
<1>4. \A d : d \in Inbox!DatesOf(m) => d \in dates BY <1>2, <1>3 DEF Walk
<1>5. dates \cup Inbox!DatesOf(m) = dates BY <1>4
<1> QED BY <1>5

\* The dates of a walk are those of its entries.
LEMMA WalkTells ==
  ASSUME NEW h, NEW status, NEW dates, Walk(h, status, dates)
  PROVE  dates = UNION {Inbox!DatesOf(h[k]) : k \in 1..Len(h)}
BY DEF Walk

-----------------------------------------------------------------------------
(* What a page and a call become.                                          *)

LEMMA PageFails ==
  ASSUME msgForm \in [Pages -> FormType], NEW p \in Pages, Inbox!Failed(p) \/ msgForm' = msgForm
  PROVE  msgForm' \in [Pages -> FormType] /\ \A q \in Pages : msgForm'[q].shown = msgForm[q].shown
<1>1. CASE msgForm' = msgForm BY <1>1
<1>2. CASE Inbox!Failed(p)
  <2>1. msgForm' = [msgForm EXCEPT ![p].call = Nobody] BY <1>2 DEF Inbox!Failed
  <2> QED BY <2>1 DEF FormType
<1> QED BY <1>1, <1>2

LEMMA PageShows ==
  ASSUME Inbox!ContactAssumption, msgForm \in [Pages -> FormType], NEW p \in Pages, NEW r \in Letters,
         Inbox!Created(p, r) \/ Inbox!AlreadyThere(p, r)
  PROVE  /\ msgForm' \in [Pages -> FormType]
         /\ \A q \in Pages : msgForm'[q].shown = IF q = p THEN r ELSE msgForm[q].shown
<1>1. CASE Inbox!Created(p, r)
  <2> DEFINE f == [text |-> Nobody, draw |-> msgForm[p].draw + 1, call |-> Nobody, shown |-> r]
  <2>1. msgForm' = [msgForm EXCEPT ![p] = f] /\ msgForm[p].draw < MaxDraws
    BY <1>1 DEF Inbox!Created
  <2>2. f \in FormType /\ f.shown = r BY <2>1 DEF FormType, Inbox!ContactAssumption
  <2> HIDE DEF f
  <2> QED BY <2>1, <2>2
<1>2. CASE Inbox!AlreadyThere(p, r)
  <2> DEFINE F == [msgForm EXCEPT ![p].call = Nobody]
             f == F[p]
             g == [text |-> msgForm[p].text, draw |-> msgForm[p].draw, call |-> Nobody, shown |-> r]
  <2>1. msgForm' = [F EXCEPT ![p].shown = r] BY <1>2, Zenon DEF Inbox!AlreadyThere
  <2>2. \A q \in Pages : F[q] = IF q = p THEN [msgForm[p] EXCEPT !.call = Nobody] ELSE msgForm[q]
    BY Zenon
  <2>3. DOMAIN F = Pages BY Zenon
  <2>4. F[p] = [text |-> msgForm[p].text, draw |-> msgForm[p].draw, call |-> Nobody,
                shown |-> msgForm[p].shown]
    BY DEF FormType
  <2> HIDE DEF F
  <2>5. msgForm' = [q \in Pages |-> IF q = p THEN [f EXCEPT !.shown = r] ELSE F[q]]
    BY <2>1, <2>3, Zenon
  <2>6. f = [text |-> msgForm[p].text, draw |-> msgForm[p].draw, call |-> Nobody,
             shown |-> msgForm[p].shown]
    BY <2>4
  <2> HIDE DEF f
  <2>7. [f EXCEPT !.shown = r] = g BY <2>6
  <2>8. g \in FormType /\ g.shown = r BY DEF FormType
  <2> HIDE DEF g
  <2> QED BY <2>2, <2>5, <2>7, <2>8
<1> QED BY <1>1, <1>2

LEMMA NoPostIsTyped == Inbox!NoPost \in PostType
BY DEF Inbox!NoPost, PostType

\* A call that returns leaves the others where they are.
LEMMA CallReturns ==
  ASSUME Inbox!TypeOK, Posted, NEW c \in Handlers, Inbox!Return(c)
  PROVE  /\ msgStage' \in [Handlers -> {"idle", "find", "insert", "conflict"}]
         /\ msgPost' \in [Handlers -> PostType] /\ Posted'
<1>1. /\ msgStage' = [msgStage EXCEPT ![c] = "idle"] /\ msgPost' = [msgPost EXCEPT ![c] = Inbox!NoPost]
      /\ msgStage \in [Handlers -> {"idle", "find", "insert", "conflict"}]
      /\ msgPost \in [Handlers -> PostType]
  BY ContactTyping DEF Inbox!Return
<1>2. \A d \in Handlers : msgStage'[d] # "idle" => msgStage[d] # "idle" /\ msgPost'[d] = msgPost[d]
  BY <1>1
<1>3. Posted' BY <1>2 DEF Posted
<1> QED BY <1>1, <1>3, NoPostIsTyped

\* What a page shows is kept, while nothing happens to the messages.
LEMMA StillKeptOnce ==
  ASSUME Inbox!KeptOnce, UNCHANGED <<msgMessage, msgReceipts>>,
         \A q \in Pages : msgForm'[q].shown = msgForm[q].shown
  PROVE  Inbox!KeptOnce'
<1>1. \A r : Inbox!Kept(r)' <=> Inbox!Kept(r) BY DEF Inbox!Kept
<1>2. \A r \in Letters : msgReceipts'[r] = IF Inbox!Kept(r)' THEN 1 ELSE 0
  BY <1>1 DEF Inbox!KeptOnce
<1>3. \A r, s \in Letters : Inbox!Kept(r)' /\ Inbox!Kept(s)' /\ msgMessage'[r].key = msgMessage'[s].key => r = s
  BY <1>1 DEF Inbox!KeptOnce
<1>4. \A q \in Pages : msgForm'[q].shown # Nobody =>
        msgMessage'[msgForm'[q].shown].status # "none" /\ msgMessage'[msgForm'[q].shown].key[1] = q
  BY DEF Inbox!KeptOnce, Inbox!Kept
<1> QED BY <1>2, <1>3, <1>4 DEF Inbox!KeptOnce, Inbox!Kept

\* Nothing becomes of messages that stay as they are.
LEMMA SameMail ==
  ASSUME UNCHANGED <<msgMessage, msgHistory>>
  PROVE  /\ (Walked => Walked')
         /\ (Edited /\ UNCHANGED msgEditor => Edited') /\ (Changing /\ UNCHANGED msgChange => Changing')
<1>1. Walked => Walked' BY DEF Walked, Inbox!Kept
<1>2. Edited /\ UNCHANGED msgEditor => Edited' BY DEF Edited, Inbox!Kept
<1>3. Changing /\ UNCHANGED msgChange => Changing' BY DEF Changing, Inbox!Kept
<1> QED BY <1>1, <1>2, <1>3

\* A call ends, or goes on, without a message.
LEMMA HandlerWritesNothing ==
  ASSUME ContactInv, UNCHANGED <<msgMessage, msgHistory, msgReceipts, msgEditor, msgChange>>,
         msgForm' \in [Pages -> FormType], \A q \in Pages : msgForm'[q].shown = msgForm[q].shown,
         msgStage' \in [Handlers -> {"idle", "find", "insert", "conflict"}],
         msgPost' \in [Handlers -> PostType], Posted'
  PROVE  ContactInv'
<1>1. Inbox!TypeOK'
  <2>1. /\ msgMessage' \in [Letters -> LetterType] /\ msgHistory' \in [Letters -> Seq(EntryType)]
        /\ msgReceipts' \in [Letters -> Nat] /\ msgEditor' \in [Officers -> EditorType]
        /\ msgChange' \in [Officers -> ChangeType]
    BY ContactTyping DEF ContactInv
  <2> QED
    BY <2>1
    DEF Inbox!TypeOK, LetterType, EntryType, FormType, PostType, EditorType, ChangeType, Dates
<1> QED BY <1>1, StillKeptOnce, SameMail DEF ContactInv

-----------------------------------------------------------------------------

LEMMA ContactInit == ASSUME Inbox!ContactAssumption PROVE Inbox!Init => ContactInv
<1> SUFFICES ASSUME Inbox!Init PROVE ContactInv
  OBVIOUS
<1>1. Inbox!TypeOK
  <2>1. Inbox!Absent \in LetterType BY DEF Inbox!Absent, LetterType, Inbox!RowStatuses
  <2>2. <<>> \in Seq(EntryType) OBVIOUS
  <2>3. [text |-> Nobody, draw |-> 0, call |-> Nobody, shown |-> Nobody] \in FormType
    BY DEF FormType, Inbox!ContactAssumption
  <2>4. Inbox!Closed \in EditorType /\ Inbox!NoChange \in ChangeType
    BY DEF Inbox!Closed, Inbox!NoChange, EditorType, ChangeType, Inbox!RowStatuses
  <2> QED BY <2>1, <2>2, <2>3, <2>4, NoPostIsTyped, ContactTyping DEF Inbox!Init
<1>2. \A r \in Letters : ~Inbox!Kept(r) BY DEF Inbox!Init, Inbox!Kept, Inbox!Absent
<1>3. \A p \in Pages : msgForm[p].shown = Nobody BY DEF Inbox!Init
<1>4. \A c \in Handlers : msgStage[c] = "idle" BY DEF Inbox!Init
<1>5. \A o \in Officers : msgEditor[o].row = Nobody /\ msgChange[o] = Inbox!NoChange
  BY DEF Inbox!Init, Inbox!Closed
<1>6. Inbox!KeptOnce BY <1>2, <1>3 DEF Inbox!KeptOnce, Inbox!Init
<1> QED BY <1>1, <1>2, <1>4, <1>5, <1>6 DEF ContactInv, Walked, Posted, Edited, Changing

LEMMA PageStep ==
  ASSUME Inbox!ContactAssumption, ContactInv, NEW p \in Pages, Inbox!Page(p)
  PROVE  ContactInv'
<1>0. /\ msgForm \in [Pages -> FormType] /\ msgPost \in [Handlers -> PostType]
      /\ msgStage \in [Handlers -> {"idle", "find", "insert", "conflict"}]
      /\ Nobody \notin Letters
  BY ContactTyping DEF ContactInv, Inbox!ContactAssumption
<1>1. ASSUME NEW t \in Texts, Inbox!Type(p, t) PROVE ContactInv'
  <2>1. /\ msgForm' = [msgForm EXCEPT ![p].text = t]
        /\ UNCHANGED <<msgMessage, msgHistory, msgReceipts, msgStage, msgPost, msgEditor, msgChange>>
    BY <1>1 DEF Inbox!Type, Inbox!mailbox, Inbox!handlers, Inbox!office
  <2>2. msgForm' \in [Pages -> FormType] /\ \A q \in Pages : msgForm'[q].shown = msgForm[q].shown
    BY <2>1, <1>0 DEF FormType
  <2>3. Posted' BY <2>1 DEF ContactInv, Posted
  <2> QED BY <2>1, <2>2, <2>3, <1>0, HandlerWritesNothing
<1>2. ASSUME NEW c \in Handlers, Inbox!Send(p, c) PROVE ContactInv'
  <2> DEFINE x == [page |-> p, key |-> <<p, msgForm[p].draw>>, text |-> msgForm[p].text]
  <2>1. /\ msgForm' = [msgForm EXCEPT ![p].call = c] /\ msgStage' = [msgStage EXCEPT ![c] = "find"]
        /\ msgPost' = [msgPost EXCEPT ![c] = x]
        /\ UNCHANGED <<msgMessage, msgHistory, msgReceipts, msgEditor, msgChange>>
    BY <1>2 DEF Inbox!Send, Inbox!mailbox, Inbox!office
  <2>2. msgForm' \in [Pages -> FormType] /\ \A q \in Pages : msgForm'[q].shown = msgForm[q].shown
    BY <2>1, <1>0 DEF FormType
  <2>3. msgForm[p].draw \in 0..MaxDraws /\ msgForm[p].text \in Texts \cup {Nobody}
    BY <1>0 DEF FormType
  <2>4. x \in PostType /\ x.page = p /\ x.key \in Inbox!Keys /\ x.key[1] = p
    BY <2>3 DEF PostType, Inbox!Keys
  <2> HIDE DEF x
  <2>5. msgPost' \in [Handlers -> PostType] /\ msgStage' \in [Handlers -> {"idle", "find", "insert", "conflict"}]
    BY <2>1, <2>4, <1>0
  <2>6. \A d \in Handlers : msgPost'[d] = IF d = c THEN x ELSE msgPost[d] BY <2>1, <1>0
  <2>7. \A d \in Handlers \ {c} : msgStage'[d] = msgStage[d] BY <2>1, <1>0
  <2>8. Posted' BY <2>4, <2>6, <2>7 DEF ContactInv, Posted
  <2> QED BY <2>1, <2>2, <2>5, <2>8, HandlerWritesNothing
<1>3. CASE Inbox!GiveUp(p)
  <2>1. /\ msgForm' = [msgForm EXCEPT ![p].call = Nobody]
        /\ UNCHANGED <<msgMessage, msgHistory, msgReceipts, msgStage, msgPost, msgEditor, msgChange>>
    BY <1>3 DEF Inbox!GiveUp, Inbox!mailbox, Inbox!handlers, Inbox!office
  <2>2. msgForm' \in [Pages -> FormType] /\ \A q \in Pages : msgForm'[q].shown = msgForm[q].shown
    BY <2>1, <1>0 DEF FormType
  <2>3. Posted' BY <2>1 DEF ContactInv, Posted
  <2> QED BY <2>1, <2>2, <2>3, <1>0, HandlerWritesNothing
<1>4. CASE Inbox!WriteAnother(p)
  <2>1. /\ msgForm' = [msgForm EXCEPT ![p].shown = Nobody]
        /\ UNCHANGED <<msgMessage, msgHistory, msgReceipts, msgStage, msgPost, msgEditor, msgChange>>
    BY <1>4 DEF Inbox!WriteAnother, Inbox!mailbox, Inbox!handlers, Inbox!office
  <2>2. /\ msgForm' \in [Pages -> FormType]
        /\ \A q \in Pages : msgForm'[q].shown = IF q = p THEN Nobody ELSE msgForm[q].shown
    BY <2>1, <1>0 DEF FormType
  <2>3. Inbox!TypeOK' BY <2>1, <2>2 DEF ContactInv, Inbox!TypeOK, FormType
  <2>4. Inbox!KeptOnce'
    <3>1. \A r : Inbox!Kept(r)' <=> Inbox!Kept(r) BY <2>1 DEF Inbox!Kept
    <3>2. \A q \in Pages : msgForm'[q].shown # Nobody =>
            msgMessage'[msgForm'[q].shown].status # "none" /\ msgMessage'[msgForm'[q].shown].key[1] = q
      BY <2>1, <2>2 DEF ContactInv, Inbox!KeptOnce, Inbox!Kept
    <3>3. \A r \in Letters : msgReceipts'[r] = IF Inbox!Kept(r)' THEN 1 ELSE 0
      BY <2>1, <3>1 DEF ContactInv, Inbox!KeptOnce
    <3>4. \A r, s \in Letters : Inbox!Kept(r)' /\ Inbox!Kept(s)' /\ msgMessage'[r].key = msgMessage'[s].key => r = s
      BY <2>1, <3>1 DEF ContactInv, Inbox!KeptOnce
    <3> QED BY <3>2, <3>3, <3>4 DEF Inbox!KeptOnce, Inbox!Kept
  <2>5. Posted' BY <2>1 DEF ContactInv, Posted
  <2> QED BY <2>1, <2>3, <2>4, <2>5, SameMail DEF ContactInv
<1> QED BY <1>1, <1>2, <1>3, <1>4 DEF Inbox!Page

\* A page is shown a message that is kept under a key it drew.
LEMMA ShowsKept ==
  ASSUME Inbox!ContactAssumption, Inbox!KeptOnce, NEW p \in Pages, NEW r \in Letters,
         msgForm \in [Pages -> FormType],
         \A q \in Letters : msgReceipts'[q] = IF Inbox!Kept(q)' THEN 1 ELSE 0,
         \A q, s \in Letters : Inbox!Kept(q)' /\ Inbox!Kept(s)' /\ msgMessage'[q].key = msgMessage'[s].key => q = s,
         \A q \in Letters : Inbox!Kept(q) => Inbox!Kept(q)' /\ msgMessage'[q].key = msgMessage[q].key,
         Inbox!Kept(r)', msgMessage'[r].key[1] = p,
         \A q \in Pages : msgForm'[q].shown \in {msgForm[q].shown} \/ (q = p /\ msgForm'[q].shown = r)
  PROVE  Inbox!KeptOnce'
<1>1. \A q \in Pages : msgForm'[q].shown # Nobody =>
        msgMessage'[msgForm'[q].shown].status # "none" /\ msgMessage'[msgForm'[q].shown].key[1] = q
  <2> SUFFICES ASSUME NEW q \in Pages, msgForm'[q].shown # Nobody
               PROVE  msgMessage'[msgForm'[q].shown].status # "none" /\ msgMessage'[msgForm'[q].shown].key[1] = q
    OBVIOUS
  <2>1. CASE q = p /\ msgForm'[q].shown = r BY <2>1 DEF Inbox!Kept
  <2>2. CASE msgForm'[q].shown = msgForm[q].shown
    <3>1. msgForm[q].shown \in Letters BY <2>2 DEF FormType
    <3>2. Inbox!Kept(msgForm[q].shown) /\ msgMessage[msgForm[q].shown].key[1] = q
      BY <2>2 DEF Inbox!KeptOnce
    <3> QED BY <2>2, <3>1, <3>2 DEF Inbox!Kept
  <2> QED BY <2>1, <2>2
<1> QED BY <1>1 DEF Inbox!KeptOnce, Inbox!Kept

LEMMA HandlerStep ==
  ASSUME Inbox!ContactAssumption, ContactInv, NEW c \in Handlers, Inbox!Handler(c)
  PROVE  ContactInv'
<1> DEFINE p == msgPost[c].page
<1>0. /\ msgMessage \in [Letters -> LetterType] /\ msgHistory \in [Letters -> Seq(EntryType)]
      /\ msgReceipts \in [Letters -> Nat] /\ msgForm \in [Pages -> FormType]
      /\ msgPost \in [Handlers -> PostType]
      /\ msgStage \in [Handlers -> {"idle", "find", "insert", "conflict"}]
      /\ Nobody \notin Letters
  BY ContactTyping DEF ContactInv, Inbox!ContactAssumption
<1>1. msgStage[c] # "idle" => p \in Pages /\ msgPost[c].key \in Inbox!Keys /\ msgPost[c].key[1] = p
  BY DEF ContactInv, Posted
<1>2. ASSUME Inbox!Return(c)
      PROVE  /\ msgStage' \in [Handlers -> {"idle", "find", "insert", "conflict"}]
             /\ msgPost' \in [Handlers -> PostType] /\ Posted'
  BY <1>2, CallReturns DEF ContactInv
<1>3. ASSUME UNCHANGED <<msgMessage, msgHistory, msgReceipts, msgEditor, msgChange>>, Inbox!Return(c), msgStage[c] # "idle",
             Inbox!Unheard(c) \/ (Inbox!Waited(c) /\ Inbox!Failed(p))
      PROVE  ContactInv'
  <2>1. msgForm' = msgForm \/ Inbox!Failed(p) BY <1>3 DEF Inbox!Unheard
  <2>2. msgForm' \in [Pages -> FormType] /\ \A q \in Pages : msgForm'[q].shown = msgForm[q].shown
    BY <2>1, <1>0, <1>1, <1>3, PageFails
  <2> QED BY <1>2, <1>3, <2>2, HandlerWritesNothing
<1>4. ASSUME UNCHANGED <<msgMessage, msgHistory, msgReceipts, msgForm, msgPost, msgEditor, msgChange>>,
             NEW s \in {"insert", "conflict"}, msgStage[c] # "idle",
             msgStage' = [msgStage EXCEPT ![c] = s]
      PROVE  ContactInv'
  <2>1. msgStage' \in [Handlers -> {"idle", "find", "insert", "conflict"}] BY <1>0, <1>4
  <2>2. \A d \in Handlers : msgStage'[d] # "idle" => msgStage[d] # "idle" BY <1>0, <1>4
  <2>3. Posted' BY <1>4, <2>2 DEF ContactInv, Posted
  <2> QED BY <1>0, <1>4, <2>1, <2>3, HandlerWritesNothing
<1>5. CASE Inbox!Refused(c) BY <1>3, <1>5 DEF Inbox!Refused, Inbox!mailbox, Inbox!office
<1>6. CASE Inbox!Find(c)
  <2>1. UNCHANGED <<msgMessage, msgHistory, msgReceipts, msgEditor, msgChange>> /\ msgStage[c] \in {"find", "conflict"}
    BY <1>6 DEF Inbox!Find, Inbox!mailbox, Inbox!office
  <2>2. CASE Inbox!Under(msgPost[c].key) # {}
    <3>1. Inbox!Return(c) /\ (Inbox!Unheard(c) \/ (Inbox!Waited(c) /\ \E r \in Inbox!Under(msgPost[c].key) : Inbox!AlreadyThere(p, r)))
      BY <1>6, <2>2 DEF Inbox!Find
    <3>2. CASE Inbox!Unheard(c) BY <1>3, <2>1, <3>1, <3>2
    <3>3. ASSUME NEW r \in Inbox!Under(msgPost[c].key), Inbox!AlreadyThere(p, r) PROVE ContactInv'
      <4>1. r \in Letters /\ Inbox!Kept(r) /\ msgMessage[r].key = msgPost[c].key
        BY <3>3 DEF Inbox!Under
      <4>2. p \in Pages /\ msgPost[c].key[1] = p BY <1>1, <2>1
      <4>3. /\ msgForm' \in [Pages -> FormType]
            /\ \A q \in Pages : msgForm'[q].shown = IF q = p THEN r ELSE msgForm[q].shown
        BY <1>0, <3>3, <4>1, <4>2, PageShows
      <4>4. Inbox!TypeOK' BY <1>2, <2>1, <3>1, <4>3
        DEF ContactInv, Inbox!TypeOK, FormType, PostType
      <4>5. \A q : Inbox!Kept(q)' <=> Inbox!Kept(q) BY <2>1 DEF Inbox!Kept
      <4>6. Inbox!KeptOnce'
        <5>1. \A q \in Letters : msgReceipts'[q] = IF Inbox!Kept(q)' THEN 1 ELSE 0
          BY <2>1, <4>5 DEF ContactInv, Inbox!KeptOnce
        <5>2. \A q, s \in Letters : Inbox!Kept(q)' /\ Inbox!Kept(s)' /\ msgMessage'[q].key = msgMessage'[s].key => q = s
          BY <2>1, <4>5 DEF ContactInv, Inbox!KeptOnce
        <5>3. Inbox!Kept(r)' /\ msgMessage'[r].key[1] = p BY <2>1, <4>1, <4>2, <4>5
        <5>4. Inbox!KeptOnce BY DEF ContactInv
        <5>5. \A q \in Letters : Inbox!Kept(q) => Inbox!Kept(q)' /\ msgMessage'[q].key = msgMessage[q].key
          BY <2>1, <4>5
        <5>6. \A q \in Pages : msgForm'[q].shown \in {msgForm[q].shown} \/ (q = p /\ msgForm'[q].shown = r)
          BY <4>3
        <5> HIDE DEF p
        <5> QED BY <1>0, <4>1, <4>2, <5>1, <5>2, <5>3, <5>4, <5>5, <5>6, ShowsKept
      <4> QED BY <1>2, <2>1, <3>1, <4>4, <4>6, SameMail DEF ContactInv
    <3> QED BY <3>1, <3>2, <3>3
  <2>3. CASE Inbox!Under(msgPost[c].key) = {} /\ msgStage[c] = "find"
    <3>1. msgStage' = [msgStage EXCEPT ![c] = "insert"] /\ UNCHANGED <<msgPost, msgForm>>
      BY <1>6, <2>3 DEF Inbox!Find
    <3> QED BY <1>4, <2>1, <2>3, <3>1
  <2>4. CASE Inbox!Under(msgPost[c].key) = {} /\ msgStage[c] # "find"
    <3>1. Inbox!Return(c) /\ (Inbox!Unheard(c) \/ (Inbox!Waited(c) /\ Inbox!Failed(p)))
      BY <1>6, <2>4 DEF Inbox!Find
    <3> QED BY <1>3, <2>1, <3>1
  <2> QED BY <2>2, <2>3, <2>4
<1>7. CASE Inbox!Insert(c)
  <2>1. msgStage[c] = "insert" /\ Inbox!KeyFree(msgPost[c].key) /\ Inbox!Return(c) /\ UNCHANGED <<msgEditor, msgChange>>
    BY <1>7 DEF Inbox!Insert, Inbox!office
  <2> DEFINE x == [text |-> msgPost[c].text, key |-> msgPost[c].key, status |-> "new", dates |-> {}]
  <2>2. PICK r \in Letters :
          /\ ~Inbox!Kept(r) /\ msgMessage' = [msgMessage EXCEPT ![r] = x]
          /\ msgHistory' = [msgHistory EXCEPT ![r] = <<Inbox!Entry("none", "new")>>]
          /\ msgReceipts' = [msgReceipts EXCEPT ![r] = @ + 1]
          /\ Inbox!Unheard(c) \/ (Inbox!Waited(c) /\ (Inbox!Created(p, r) \/ Inbox!Failed(p)))
    BY <1>7 DEF Inbox!Insert
  <2>3. p \in Pages /\ msgPost[c].key \in Inbox!Keys /\ msgPost[c].key[1] = p BY <1>1, <2>1
  <2>4. msgPost[c].text \in Texts \cup {Nobody} BY <1>0 DEF PostType
  <2>5. /\ x \in LetterType /\ x.key = msgPost[c].key /\ x.status = "new" /\ x.dates = {}
    BY <2>3, <2>4 DEF LetterType, Inbox!RowStatuses, Inbox!ContactMessageStatuses
  <2> HIDE DEF x, p
  <2>6. /\ msgMessage' \in [Letters -> LetterType] /\ msgHistory' \in [Letters -> Seq(EntryType)]
        /\ msgReceipts' \in [Letters -> Nat]
    BY <1>0, <2>2, <2>5, WalkStarts
  <2>7. \A q \in Letters : /\ msgMessage'[q] = IF q = r THEN x ELSE msgMessage[q]
                           /\ msgHistory'[q] = IF q = r THEN <<Inbox!Entry("none", "new")>> ELSE msgHistory[q]
                           /\ msgReceipts'[q] = IF q = r THEN msgReceipts[r] + 1 ELSE msgReceipts[q]
    BY <1>0, <2>2
  <2>8. \A q \in Letters : Inbox!Kept(q)' <=> q = r \/ Inbox!Kept(q) BY <2>5, <2>7 DEF Inbox!Kept
  <2>9. /\ msgForm' \in [Pages -> FormType]
        /\ \A q \in Pages : msgForm'[q].shown = msgForm[q].shown \/ (q = p /\ msgForm'[q].shown = r)
    <3>1. CASE Inbox!Unheard(c) \/ Inbox!Failed(p)
      <4>1. msgForm' = msgForm \/ Inbox!Failed(p) BY <3>1 DEF Inbox!Unheard
      <4> QED BY <4>1, <1>0, <2>3, PageFails
    <3>2. CASE Inbox!Created(p, r) BY <3>2, <1>0, <2>3, PageShows
    <3> QED BY <2>2, <3>1, <3>2
  <2>10. Inbox!TypeOK'
    BY <1>2, <2>1, <2>6, <2>9
    DEF ContactInv, Inbox!TypeOK, LetterType, EntryType, FormType, PostType, Dates
  <2>11. Inbox!KeptOnce'
    <3>1. \A q \in Letters : msgReceipts'[q] = IF Inbox!Kept(q)' THEN 1 ELSE 0
      <4>1. msgReceipts[r] = 0 BY <2>2 DEF ContactInv, Inbox!KeptOnce
      <4> QED BY <2>7, <2>8, <4>1 DEF ContactInv, Inbox!KeptOnce
    <3>2. \A q, s \in Letters : Inbox!Kept(q)' /\ Inbox!Kept(s)' /\ msgMessage'[q].key = msgMessage'[s].key => q = s
      <4>1. \A q \in Letters : Inbox!Kept(q) => msgMessage[q].key # msgPost[c].key
        BY <2>1 DEF Inbox!KeyFree, Inbox!Under
      <4> QED BY <2>5, <2>7, <2>8, <4>1 DEF ContactInv, Inbox!KeptOnce
    <3>3. Inbox!Kept(r)' /\ msgMessage'[r].key[1] = p BY <2>3, <2>5, <2>7, <2>8
    <3>4. Inbox!KeptOnce BY DEF ContactInv
    <3>5. \A q \in Letters : Inbox!Kept(q) => Inbox!Kept(q)' /\ msgMessage'[q].key = msgMessage[q].key
      BY <2>2, <2>7, <2>8
    <3> QED BY <1>0, <2>3, <2>9, <3>1, <3>2, <3>3, <3>4, <3>5, ShowsKept
  <2>12. Walked'
    <3>1. \A q \in Letters : Inbox!Kept(q)' => Walk(msgHistory'[q], msgMessage'[q].status, msgMessage'[q].dates)
      BY <2>5, <2>7, <2>8, WalkStarts DEF ContactInv, Walked
    <3> QED BY <3>1 DEF Walked, Walk, Inbox!DatesOf, Inbox!Entry, Inbox!CanTransition
  <2>13. Edited' BY <2>1, <2>8 DEF ContactInv, Edited
  <2>14. Changing' BY <2>1, <2>8 DEF ContactInv, Changing
  <2> QED BY <1>2, <2>1, <2>10, <2>11, <2>12, <2>13, <2>14 DEF ContactInv
<1>8. CASE Inbox!Conflict(c) BY <1>4, <1>8 DEF Inbox!Conflict, Inbox!mailbox, Inbox!office
<1>9. CASE Inbox!Fails(c) BY <1>3, <1>9 DEF Inbox!Fails, Inbox!mailbox, Inbox!office
<1> QED BY <1>5, <1>6, <1>7, <1>8, <1>9 DEF Inbox!Handler

LEMMA OtherDates ==
  ASSUME NEW t, NEW k, NEW s, NEW d, NEW e, NEW x,
         x = [text |-> t, key |-> k, status |-> s, dates |-> d]
  PROVE  [x EXCEPT !.dates = e] = [text |-> t, key |-> k, status |-> s, dates |-> e]
OBVIOUS

\* The message r is what it was, in another status.
MovesTo(r, s, D) == msgMessage' = [msgMessage EXCEPT ![r].status = s, ![r].dates = @ \cup D]

\* The row of a message that changes.
LEMMA Rewritten ==
  ASSUME msgMessage \in [Letters -> LetterType], NEW r \in Letters,
         NEW s \in Inbox!RowStatuses, NEW D \in SUBSET Dates,
         MovesTo(r, s, D)
  PROVE  msgMessage' = [q \in Letters |->
           IF q = r THEN [text |-> msgMessage[r].text, key |-> msgMessage[r].key, status |-> s,
                          dates |-> msgMessage[r].dates \cup D]
           ELSE msgMessage[q]]
<1> DEFINE M == [msgMessage EXCEPT ![r].status = s]
           x == M[r]
<1>1. msgMessage' = [M EXCEPT ![r].dates = @ \cup D] BY Zenon DEF MovesTo
<1>2. \A q \in Letters : M[q] = IF q = r THEN [msgMessage[r] EXCEPT !.status = s] ELSE msgMessage[q]
  BY Zenon
<1>3. M[r] = [text |-> msgMessage[r].text, key |-> msgMessage[r].key, status |-> s,
              dates |-> msgMessage[r].dates]
  BY DEF LetterType
<1>4. DOMAIN M = Letters BY Zenon
<1> HIDE DEF M
<1>5. msgMessage' = [q \in Letters |-> IF q = r THEN [x EXCEPT !.dates = x.dates \cup D] ELSE M[q]]
  BY <1>1, <1>4, Zenon
<1>6. x = [text |-> msgMessage[r].text, key |-> msgMessage[r].key, status |-> s,
           dates |-> msgMessage[r].dates]
  BY <1>3, Zenon
<1> HIDE DEF x
<1>7. [x EXCEPT !.dates = x.dates \cup D]
      = [text |-> msgMessage[r].text, key |-> msgMessage[r].key, status |-> s,
         dates |-> msgMessage[r].dates \cup D]
  <2>1. x.dates = msgMessage[r].dates BY ONLY <1>6
  <2> DEFINE e == x.dates \cup D
  <2>2. e = msgMessage[r].dates \cup D BY ONLY <2>1
  <2> HIDE DEF e
  <2>3. [x EXCEPT !.dates = e]
        = [text |-> msgMessage[r].text, key |-> msgMessage[r].key, status |-> s, dates |-> e]
    BY ONLY <1>6, OtherDates
  <2>4. [x EXCEPT !.dates = e]
        = [text |-> msgMessage[r].text, key |-> msgMessage[r].key, status |-> s,
           dates |-> msgMessage[r].dates \cup D]
    BY ONLY <2>2, <2>3, Zenon
  <2> QED BY ONLY <2>4, Zenon DEF e
<1>8. \A q \in Letters \ {r} : M[q] = msgMessage[q] BY <1>2
<1> QED BY <1>5, <1>7, <1>8

LEMMA OfficerStep ==
  ASSUME Inbox!ContactAssumption, ContactInv, NEW o \in Officers, Inbox!Officer(o)
  PROVE  ContactInv'
<1>0. /\ msgMessage \in [Letters -> LetterType] /\ msgHistory \in [Letters -> Seq(EntryType)]
      /\ msgEditor \in [Officers -> EditorType] /\ msgChange \in [Officers -> ChangeType]
      /\ Nobody \notin Letters
  BY ContactTyping DEF ContactInv, Inbox!ContactAssumption
<1>1. ASSUME UNCHANGED <<msgMessage, msgHistory, msgReceipts, msgForm, msgStage, msgPost>>,
             msgEditor' \in [Officers -> EditorType], msgChange' \in [Officers -> ChangeType],
             Edited', Changing'
      PROVE  ContactInv'
  <2>1. Inbox!TypeOK' BY <1>1 DEF ContactInv, Inbox!TypeOK, EditorType, ChangeType
  <2>2. Inbox!KeptOnce' BY <1>1, StillKeptOnce DEF ContactInv
  <2>3. Posted' BY <1>1 DEF ContactInv, Posted
  <2> QED BY <1>1, <2>1, <2>2, <2>3, SameMail DEF ContactInv
<1>2. CASE Inbox!Open(o)
  <2>1. UNCHANGED <<msgMessage, msgHistory, msgReceipts, msgForm, msgStage, msgPost, msgChange>>
    BY <1>2 DEF Inbox!Open, Inbox!mailbox, Inbox!handlers
  <2>2. PICK r \in Letters : Inbox!Kept(r) /\ msgEditor' = [msgEditor EXCEPT ![o] = [row |-> r, status |-> msgMessage[r].status]]
    BY <1>2 DEF Inbox!Open
  <2> DEFINE e == [row |-> r, status |-> msgMessage[r].status]
  <2>3. msgMessage[r].status \in Inbox!ContactMessageStatuses
    BY <1>0, <2>2 DEF Inbox!Kept, LetterType, Inbox!RowStatuses
  <2>4. e \in EditorType /\ e.row = r /\ e.status \in Inbox!ContactMessageStatuses
    BY <2>3 DEF EditorType, Inbox!RowStatuses
  <2>5. msgEditor' = [msgEditor EXCEPT ![o] = e] BY <2>2
  <2> HIDE DEF e
  <2>6. msgEditor' \in [Officers -> EditorType] BY <1>0, <2>4, <2>5
  <2>7. \A n \in Officers : msgEditor'[n] = IF n = o THEN e ELSE msgEditor[n] BY <1>0, <2>5
  <2>8. \A q : Inbox!Kept(q)' <=> Inbox!Kept(q) BY <2>1 DEF Inbox!Kept
  <2>9. \A n \in Officers : msgEditor'[n].row # Nobody =>
          msgEditor'[n].row \in Letters /\ Inbox!Kept(msgEditor[n].row)' /\ msgEditor'[n].status \in Inbox!ContactMessageStatuses
    BY <2>1, <2>2, <2>4, <2>7, <2>8 DEF ContactInv, Edited, Inbox!Kept
  <2>10. Edited' BY <2>9 DEF Edited
  <2>11. msgChange' \in [Officers -> ChangeType] /\ Changing'
    BY <1>0, <2>1, SameMail DEF ContactInv
  <2> QED BY <1>1, <2>1, <2>6, <2>10, <2>11
<1>3. CASE Inbox!Save(o)
  <2> DEFINE r == msgEditor[o].row
             s == msgMessage[r].status
  <2>1. UNCHANGED <<msgMessage, msgHistory, msgReceipts, msgForm, msgStage, msgPost, msgEditor>> /\ r # Nobody
    BY <1>3 DEF Inbox!Save, Inbox!mailbox, Inbox!handlers
  <2>2. PICK to \in {msgEditor[o].status} \cup Inbox!Transitions[msgEditor[o].status] :
          /\ s = to \/ Inbox!CanTransition(s, to)
          /\ msgChange' = [msgChange EXCEPT ![o] = [row |-> r, from |-> s, to |-> to]]
    BY <1>3 DEF Inbox!Save
  <2>3. r \in Letters /\ Inbox!Kept(r) /\ msgEditor[o].status \in Inbox!ContactMessageStatuses
    BY <2>1 DEF ContactInv, Edited
  <2>4. s \in Inbox!ContactMessageStatuses
    BY <1>0, <2>3 DEF Inbox!Kept, LetterType, Inbox!RowStatuses
  <2>5. to \in Inbox!ContactMessageStatuses
    BY <2>3, <2>2 DEF Inbox!Transitions, Inbox!ContactMessageStatuses
  <2> DEFINE m == [row |-> r, from |-> s, to |-> to]
  <2>6. /\ m \in ChangeType /\ m.row \in Letters /\ m.row = r
        /\ m.from = s /\ m.to = to
    BY <2>3, <2>4, <2>5 DEF ChangeType, Inbox!RowStatuses
  <2>7. msgChange' = [msgChange EXCEPT ![o] = m] BY <2>2
  <2> HIDE DEF m, r, s
  <2>8. msgChange' \in [Officers -> ChangeType] BY <1>0, <2>6, <2>7
  <2>9. \A n \in Officers : msgChange'[n] = IF n = o THEN m ELSE msgChange[n] BY <1>0, <2>7
  <2>10. \A q : Inbox!Kept(q)' <=> Inbox!Kept(q) BY <2>1 DEF Inbox!Kept
  <2>11. \A n \in Officers : msgChange'[n] # Inbox!NoChange =>
           /\ msgChange'[n].row \in Letters /\ msgMessage'[msgChange'[n].row].status # "none"
           /\ msgChange'[n].from \in Inbox!ContactMessageStatuses /\ msgChange'[n].to \in Inbox!ContactMessageStatuses
           /\ msgChange'[n].from = msgChange'[n].to \/ Inbox!CanTransition(msgChange'[n].from, msgChange'[n].to)
    BY <2>1, <2>2, <2>3, <2>4, <2>5, <2>6, <2>9 DEF ContactInv, Changing, Inbox!Kept
  <2>12. Changing' BY <2>11 DEF Changing, Inbox!Kept, Inbox!CanTransition
  <2>13. msgEditor' \in [Officers -> EditorType] /\ Edited' BY <1>0, <2>1, SameMail DEF ContactInv
  <2> QED BY <1>1, <2>1, <2>8, <2>12, <2>13
<1>4. CASE Inbox!Apply(o)
  <2> DEFINE m == msgChange[o]
             r == m.row
             D == Inbox!DatesOf(m)
             x == [text |-> msgMessage[r].text, key |-> msgMessage[r].key, status |-> m.to,
                   dates |-> msgMessage[r].dates \cup D]
             h == IF m.from = m.to THEN msgHistory[r] ELSE Append(msgHistory[r], Inbox!Entry(m.from, m.to))
  <2>1. /\ m # Inbox!NoChange /\ msgMessage[r].status = m.from
        /\ msgMessage' = [msgMessage EXCEPT ![r].status = m.to, ![r].dates = @ \cup D]
        /\ msgHistory' = [msgHistory EXCEPT ![r] = h]
        /\ msgChange' = [msgChange EXCEPT ![o] = Inbox!NoChange]
        /\ msgEditor' \in {msgEditor, [msgEditor EXCEPT ![o] = [row |-> r, status |-> m.to]]}
        /\ UNCHANGED <<msgReceipts, msgForm, msgStage, msgPost>>
    BY <1>4 DEF Inbox!Apply, Inbox!Unmoved, Inbox!handlers
  <2>2. /\ r \in Letters /\ Inbox!Kept(r) /\ m.from \in Inbox!ContactMessageStatuses
        /\ m.to \in Inbox!ContactMessageStatuses /\ (m.from = m.to \/ Inbox!CanTransition(m.from, m.to))
    BY <2>1 DEF ContactInv, Changing
  <2>4. D \in SUBSET Dates BY DEF Inbox!DatesOf, Dates
  <2>3. msgMessage' = [q \in Letters |-> IF q = r THEN x ELSE msgMessage[q]]
    <3>1. m.to \in Inbox!RowStatuses BY <2>2 DEF Inbox!RowStatuses
    <3>2. MovesTo(r, m.to, D) BY <2>1 DEF MovesTo
    <3> HIDE DEF m, D, r
    <3> QED BY <1>0, <2>2, <2>4, <3>1, <3>2, Rewritten
  <2>5. /\ x \in LetterType /\ x.key = msgMessage[r].key /\ x.status = m.to
        /\ x.dates = msgMessage[r].dates \cup D
    <3>1. msgMessage[r] \in LetterType BY <1>0, <2>2
    <3>2. msgMessage[r].dates \cup D \in SUBSET Dates BY <3>1, <2>4 DEF LetterType
    <3> HIDE DEF D
    <3> QED BY <2>2, <3>1, <3>2 DEF LetterType, Inbox!RowStatuses
  <2>6. Walk(msgHistory[r], m.from, msgMessage[r].dates) BY <2>1, <2>2 DEF ContactInv, Walked
  <2>7. h \in Seq(EntryType) /\ Walk(h, m.to, msgMessage[r].dates \cup D)
    <3>1. msgHistory[r] \in Seq(EntryType) BY <1>0, <2>2
    <3>2. CASE m.from = m.to BY <3>1, <3>2, <2>6, WalkStays
    <3>3. CASE m.from # m.to BY <3>1, <3>3, <2>2, <2>6, WalkGoesOn
    <3> QED BY <3>2, <3>3
  <2> HIDE DEF x, h, D
  <2>8. msgMessage' \in [Letters -> LetterType] /\ msgHistory' \in [Letters -> Seq(EntryType)]
    <3>1. msgMessage' \in [Letters -> LetterType] BY ONLY <1>0, <2>3, <2>5
    <3>2. msgHistory' = [msgHistory EXCEPT ![r] = h] BY ONLY <2>1
    <3>3. msgHistory' \in [Letters -> Seq(EntryType)] BY ONLY <1>0, <2>7, <3>2
    <3> QED BY ONLY <3>1, <3>3
  <2>9. \A q \in Letters : /\ msgMessage'[q] = IF q = r THEN x ELSE msgMessage[q]
                           /\ msgHistory'[q] = IF q = r THEN h ELSE msgHistory[q]
    BY <1>0, <2>1, <2>3
  <2>10. m.to # "none" BY <2>2 DEF Inbox!ContactMessageStatuses
  <2>11. \A q \in Letters : (Inbox!Kept(q)' <=> Inbox!Kept(q)) /\ msgMessage'[q].key = msgMessage[q].key
    BY <2>2, <2>5, <2>9, <2>10 DEF Inbox!Kept
  <2>12. msgChange' \in [Officers -> ChangeType]
         /\ \A n \in Officers : msgChange'[n] # Inbox!NoChange => n # o /\ msgChange'[n] = msgChange[n]
    <3>1. Inbox!NoChange \in ChangeType BY DEF Inbox!NoChange, ChangeType, Inbox!RowStatuses
    <3> QED BY <1>0, <2>1, <3>1
  <2> DEFINE e == [row |-> r, status |-> m.to]
  <2>13. e \in EditorType /\ e.row = r /\ e.status = m.to BY <2>2 DEF EditorType, Inbox!RowStatuses
  <2>14. msgEditor' \in {msgEditor, [msgEditor EXCEPT ![o] = e]} BY <2>1
  <2> HIDE DEF e
  <2>15. /\ msgEditor' \in [Officers -> EditorType]
         /\ \A n \in Officers : msgEditor'[n] = msgEditor[n] \/ msgEditor'[n] = e
    BY <1>0, <2>13, <2>14
  <2>16. Inbox!TypeOK'
    BY <2>1, <2>8, <2>12, <2>15
    DEF ContactInv, Inbox!TypeOK, LetterType, EntryType, EditorType, ChangeType, Dates
  <2>17. Inbox!KeptOnce'
    <3>1. \A q \in Letters : msgReceipts'[q] = IF Inbox!Kept(q)' THEN 1 ELSE 0
      BY <2>1, <2>11 DEF ContactInv, Inbox!KeptOnce
    <3>2. \A q, s \in Letters : Inbox!Kept(q)' /\ Inbox!Kept(s)' /\ msgMessage'[q].key = msgMessage'[s].key => q = s
      BY <2>11 DEF ContactInv, Inbox!KeptOnce
    <3>3. \A q \in Pages : msgForm[q].shown # Nobody => msgForm[q].shown \in Letters
      BY ContactTyping DEF ContactInv, FormType
    <3>4. \A q \in Pages : msgForm'[q].shown # Nobody =>
            msgMessage'[msgForm'[q].shown].status # "none" /\ msgMessage'[msgForm'[q].shown].key[1] = q
      <4> SUFFICES ASSUME NEW q \in Pages, msgForm[q].shown # Nobody
                   PROVE  /\ msgMessage'[msgForm[q].shown].status # "none"
                          /\ msgMessage'[msgForm[q].shown].key[1] = q
        BY <2>1
      <4>1. msgForm[q].shown \in Letters BY <3>3
      <4>2. Inbox!Kept(msgForm[q].shown) /\ msgMessage[msgForm[q].shown].key[1] = q
        BY DEF ContactInv, Inbox!KeptOnce
      <4> QED BY <2>11, <4>1, <4>2 DEF Inbox!Kept
    <3> QED BY <3>1, <3>2, <3>4 DEF Inbox!KeptOnce, Inbox!Kept
  <2>18. Walked'
    <3>1. \A q \in Letters : Inbox!Kept(q)' => Walk(msgHistory'[q], msgMessage'[q].status, msgMessage'[q].dates)
      <4> SUFFICES ASSUME NEW q \in Letters, Inbox!Kept(q)'
                   PROVE  Walk(msgHistory'[q], msgMessage'[q].status, msgMessage'[q].dates)
        OBVIOUS
      <4>1. CASE q = r
        <5>1. msgHistory'[q] = h /\ msgMessage'[q] = x BY ONLY <2>9, <4>1, q \in Letters
        <5>2. x.status = m.to /\ x.dates = msgMessage[r].dates \cup D BY ONLY <2>5
        <5> QED BY ONLY <2>7, <5>1, <5>2
      <4>2. CASE q # r
        <5>1. Walk(msgHistory[q], msgMessage[q].status, msgMessage[q].dates) BY <2>11 DEF ContactInv, Walked
        <5> QED BY <2>9, <4>2, <5>1
      <4> QED BY <4>1, <4>2
    <3> QED BY <3>1 DEF Walked, Walk, Inbox!DatesOf, Inbox!Entry, Inbox!CanTransition
  <2>19. Posted' BY <2>1 DEF ContactInv, Posted
  <2>20. \A n \in Officers : msgEditor'[n].row # Nobody =>
           /\ msgEditor'[n].row \in Letters /\ msgMessage'[msgEditor'[n].row].status # "none"
           /\ msgEditor'[n].status \in Inbox!ContactMessageStatuses
    BY <2>2, <2>11, <2>13, <2>15 DEF ContactInv, Edited, Inbox!Kept
  <2>21. \A n \in Officers : msgChange'[n] # Inbox!NoChange =>
           /\ msgChange'[n].row \in Letters /\ msgMessage'[msgChange'[n].row].status # "none"
           /\ msgChange'[n].from \in Inbox!ContactMessageStatuses /\ msgChange'[n].to \in Inbox!ContactMessageStatuses
           /\ msgChange'[n].from = msgChange'[n].to \/ Inbox!CanTransition(msgChange'[n].from, msgChange'[n].to)
    BY <2>11, <2>12 DEF ContactInv, Changing, Inbox!Kept
  <2>22. Edited' BY <2>20 DEF Edited, Inbox!Kept
  <2>23. Changing' BY <2>21 DEF Changing, Inbox!Kept, Inbox!CanTransition
  <2> QED BY <2>16, <2>17, <2>18, <2>19, <2>22, <2>23 DEF ContactInv
<1>5. CASE Inbox!ApplyFails(o)
  <2>1. /\ UNCHANGED <<msgMessage, msgHistory, msgReceipts, msgForm, msgStage, msgPost, msgEditor>>
        /\ msgChange' = [msgChange EXCEPT ![o] = Inbox!NoChange]
    BY <1>5 DEF Inbox!ApplyFails, Inbox!mailbox, Inbox!handlers
  <2>2. Inbox!NoChange \in ChangeType BY DEF Inbox!NoChange, ChangeType, Inbox!RowStatuses
  <2>3. msgChange' \in [Officers -> ChangeType] BY <1>0, <2>1, <2>2
  <2>4. \A n \in Officers : msgChange'[n] # Inbox!NoChange => msgChange'[n] = msgChange[n]
    BY <1>0, <2>1
  <2>5. Changing' BY <2>1, <2>4 DEF ContactInv, Changing, Inbox!Kept
  <2>6. msgEditor' \in [Officers -> EditorType] /\ Edited' BY <1>0, <2>1, SameMail DEF ContactInv
  <2> QED BY <1>1, <2>1, <2>3, <2>5, <2>6
<1> QED BY <1>2, <1>3, <1>4, <1>5 DEF Inbox!Officer

\* Every step keeps the invariant.
LEMMA ContactStepHolds ==
  ASSUME Inbox!ContactAssumption, ContactInv, [Inbox!Next]_(Inbox!vars)
  PROVE  ContactInv'
<1>1. CASE UNCHANGED Inbox!vars
  <2>1. UNCHANGED <<msgMessage, msgHistory, msgReceipts, msgForm, msgStage, msgPost, msgEditor, msgChange>>
    BY <1>1 DEF Inbox!vars, Inbox!mailbox, Inbox!handlers, Inbox!office
  <2>2. Inbox!TypeOK' BY <2>1 DEF ContactInv, Inbox!TypeOK
  <2>3. Inbox!KeptOnce' BY <2>1, StillKeptOnce DEF ContactInv
  <2>4. Posted' BY <2>1 DEF ContactInv, Posted
  <2> QED BY <2>1, <2>2, <2>3, <2>4, SameMail DEF ContactInv
<1> QED BY <1>1, PageStep, HandlerStep, OfficerStep DEF Inbox!Next

\* What the invariant is for.
LEMMA ContactSafe == ASSUME ContactInv PROVE Inbox!KeptOnce /\ Inbox!HistoryTellsMessage
<1>1. \A r \in Letters : Inbox!Kept(r) => Walk(msgHistory[r], msgMessage[r].status, msgMessage[r].dates)
  BY DEF ContactInv, Walked
<1>2. \A r \in Letters : Inbox!Kept(r) => msgMessage[r].dates = UNION {Inbox!DatesOf(msgHistory[r][k]) : k \in 1..Len(msgHistory[r])}
  BY <1>1, WalkTells
<1> QED BY <1>1, <1>2 DEF ContactInv, Inbox!HistoryTellsMessage, Walk

-----------------------------------------------------------------------------
(* Lists of requests, page by page, and the history of one (RequestLists). *)
(* A row a walk has not shown and has passed had its place taken by one    *)
(* that left.                                                              *)

\* Sizes of sets, as the module takes them.
LEMMA ListsSize == \A S : Lists!Cardinality(S) = Cardinality(S)
BY DEF Cardinality, Lists!Cardinality

-----------------------------------------------------------------------------
(* The place of a row in a list. *)

LEMMA RankProperties ==
  ASSUME NEW L, L \subseteq Nat, IsFiniteSet(L), NEW i \in L
  PROVE  /\ Lists!Rank(L, i) \in Nat /\ 1 <= Lists!Rank(L, i) /\ Lists!Rank(L, i) <= Cardinality(L)
         /\ \A k \in L : i < k => Lists!Rank(L, k) < Lists!Rank(L, i)
<1> DEFINE above(k) == {j \in L : j >= k}
<1>1. \A k \in L : IsFiniteSet(above(k)) /\ Cardinality(above(k)) \in Nat
                   /\ Cardinality(above(k)) <= Cardinality(L)
  <2> SUFFICES ASSUME NEW k \in L PROVE IsFiniteSet(above(k)) /\ Cardinality(above(k)) \in Nat
                   /\ Cardinality(above(k)) <= Cardinality(L)
    OBVIOUS
  <2>1. above(k) \in SUBSET L OBVIOUS
  <2> HIDE DEF above
  <2> QED BY <2>1, FS_Subset, FS_CardinalityType
<1>2. above(i) # {} OBVIOUS
<1>3. Cardinality(above(i)) # 0
  <2> HIDE DEF above
  <2> QED BY <1>1, <1>2, FS_EmptySet
<1>4. ASSUME NEW k \in L, i < k PROVE Cardinality(above(k)) < Cardinality(above(i))
  <2>0. i \in Nat /\ k \in Nat /\ ~(i >= k) /\ i >= i /\ (\A j \in Nat : j >= k => j >= i) BY <1>4
  <2>1. above(k) \subseteq above(i) /\ i \in above(i) /\ i \notin above(k)
    BY <2>0
  <2> HIDE DEF above
  <2>2. above(k) \in SUBSET above(i) /\ above(k) # above(i) BY <2>1
  <2> QED BY <1>1, <2>2, FS_Subset
<1>5. \A k : Lists!Rank(L, k) = Cardinality(above(k)) BY ListsSize DEF Lists!Rank
<1> HIDE DEF above
<1> QED BY <1>1, <1>3, <1>4, <1>5

\* No two rows of a list have one place.
LEMMA RankIsOnes ==
  ASSUME NEW L, L \subseteq Nat, IsFiniteSet(L), NEW i \in L, NEW k \in L, Lists!Rank(L, i) = Lists!Rank(L, k)
  PROVE  i = k
<1>1. i \in Nat /\ k \in Nat /\ Lists!Rank(L, i) \in Nat /\ Lists!Rank(L, k) \in Nat
  BY RankProperties
<1>2. i < k => Lists!Rank(L, k) < Lists!Rank(L, i) BY RankProperties
<1>3. k < i => Lists!Rank(L, i) < Lists!Rank(L, k) BY RankProperties
<1> QED BY <1>1, <1>2, <1>3

\* Rows that leave a list bring the others forward by one place; rows that enter it
\* never do.
LEMMA RankOfRest ==
  ASSUME NEW L, L \subseteq Nat, IsFiniteSet(L), NEW j, NEW i
  PROVE  /\ Lists!Rank(L, i) \in Nat /\ Lists!Rank(L \ {j}, i) \in Nat
         /\ Lists!Rank(L, i) <= Lists!Rank(L \ {j}, i) + 1 /\ Lists!Rank(L \ {j}, i) <= Lists!Rank(L, i)
<1>1. PICK A, C : A = {k \in L : k >= i} /\ C = {k \in L \ {j} : k >= i} OBVIOUS
<1>2. A \in SUBSET L /\ C = A \ {j} BY <1>1
<1>3. IsFiniteSet(A) /\ Cardinality(A) \in Nat BY <1>2, FS_Subset, FS_CardinalityType
<1>4. IsFiniteSet(C) /\ Cardinality(C) = IF j \in A THEN Cardinality(A) - 1 ELSE Cardinality(A)
  BY <1>2, <1>3, FS_RemoveElement
<1>5. Cardinality(C) \in Nat BY <1>4, FS_CardinalityType
<1>6. Lists!Rank(L, i) = Cardinality(A) /\ Lists!Rank(L \ {j}, i) = Cardinality(C)
  BY <1>1, ListsSize DEF Lists!Rank
<1> QED BY <1>3, <1>4, <1>5, <1>6

\* No more rows are beyond a place than the list is longer.
LEMMA RankBeyond ==
  ASSUME NEW L, L \subseteq Nat, IsFiniteSet(L), NEW b \in Nat, NEW more \in Nat,
         Cardinality(L) <= b + more
  PROVE  LET beyond == {i \in L : Lists!Rank(L, i) > b} IN
         IsFiniteSet(beyond) /\ Cardinality(beyond) <= more
<1>1. PICK T : T = {i \in L : Lists!Rank(L, i) > b} OBVIOUS
<1>2. PICK f : f = [i \in T |-> Lists!Rank(L, i)] OBVIOUS
<1>3. PICK n \in Nat : n = Cardinality(L) BY FS_CardinalityType
<1>4. \A i \in T : f[i] \in (b + 1)..n
  <2> SUFFICES ASSUME NEW i \in T PROVE f[i] \in (b + 1)..n
    OBVIOUS
  <2>1. i \in L /\ f[i] = Lists!Rank(L, i) /\ Lists!Rank(L, i) > b BY <1>1, <1>2
  <2>2. Lists!Rank(L, i) \in Nat /\ Lists!Rank(L, i) <= n BY <1>3, <2>1, RankProperties
  <2> QED BY <2>1, <2>2
<1>5. f \in [T -> (b + 1)..n] BY <1>2, <1>4
<1>6. \A i, k \in T : f[i] = f[k] => i = k BY <1>1, <1>2, RankIsOnes
<1>7. f \in Injection(T, (b + 1)..n) BY <1>5, <1>6 DEF Injection, IsInjective
<1>8. IsFiniteSet((b + 1)..n) /\ Cardinality((b + 1)..n) = IF b + 1 > n THEN 0 ELSE n - (b + 1) + 1
  BY FS_Interval
<1>9. Cardinality((b + 1)..n) <= more BY <1>3, <1>8
<1>10. IsFiniteSet(T) /\ Cardinality(T) <= Cardinality((b + 1)..n) BY <1>7, <1>8, FS_Injection
<1>11. Cardinality(T) \in Nat /\ Cardinality((b + 1)..n) \in Nat
  BY <1>8, <1>10, FS_CardinalityType
<1>12. Cardinality(T) <= more BY <1>9, <1>10, <1>11
<1> QED BY <1>1, <1>10, <1>12

\* Sizes of sets.
LEMMA Sizes ==
  ASSUME NEW T, IsFiniteSet(T), NEW S, S \subseteq T
  PROVE  IsFiniteSet(S) /\ Cardinality(S) \in Nat /\ Cardinality(T) \in Nat
         /\ Cardinality(S) <= Cardinality(T)
BY FS_Subset, FS_CardinalityType

LEMMA SizeOfUnion ==
  ASSUME NEW S, IsFiniteSet(S), NEW T, IsFiniteSet(T), NEW U, U \subseteq S \cup T
  PROVE  IsFiniteSet(U) /\ Cardinality(U) \in Nat /\ Cardinality(U) <= Cardinality(S) + Cardinality(T)
<1>1. IsFiniteSet(S \cup T) /\ Cardinality(S \cup T) = Cardinality(S) + Cardinality(T) - Cardinality(S \cap T)
  BY FS_Union
<1>2. Cardinality(S) \in Nat /\ Cardinality(T) \in Nat /\ Cardinality(S \cap T) \in Nat
  BY FS_CardinalityType, FS_Intersection
<1>3. IsFiniteSet(U) /\ Cardinality(U) \in Nat /\ Cardinality(U) <= Cardinality(S \cup T)
  BY <1>1, Sizes
<1>4. Cardinality(S \cup T) \in Nat BY <1>1, FS_CardinalityType
<1> QED BY <1>1, <1>2, <1>3, <1>4

-----------------------------------------------------------------------------
(* A walk. *)

WalkType ==
  [step : {"closed", "reading", "over"}, filter : Filters \cup {"all"}, page : 1..MaxPage,
   items : SUBSET Nat, total : Nat, read : SUBSET {"rows", "total"},
   here : SUBSET Nat, shown : SUBSET Nat, left : Nat, raced : Nat]

\* The rows shown, or about to be, and the place up to which the pages have come.
Seen(w) == w.shown \cup w.items
\* The places a walk has passed.
Reached(w) == (w.page - 1) * PageSize + IF "rows" \in w.read THEN PageSize ELSE 0
\* The rows it has passed and not shown.
Missed(list, w) == {i \in w.here \ Seen(w) : Lists!Rank(list, i) <= Reached(w)}

\* No more rows are missed up to there than have left the list; and where the total
\* says that the page is the last one, no more than have left it or have raced it.
ListsReading(list, w) ==
  /\ w.here \subseteq list
  /\ Cardinality(Missed(list, w)) <= w.left
  /\ w.read = {"total"} => Cardinality(list) <= w.total + w.raced
  /\ w.read = {"rows", "total"} /\ w.total <= w.page * PageSize =>
       Cardinality(w.here \ Seen(w)) <= w.left + w.raced
  /\ "rows" \notin w.read => w.items = {}

LEMMA ReachedIsPlace ==
  ASSUME Lists!ListsAssumption, NEW w \in WalkType
  PROVE  Reached(w) \in Nat
<1>1. w.page \in Nat /\ w.page >= 1 /\ PageSize \in Nat BY DEF WalkType, Lists!ListsAssumption
<1>2. (w.page - 1) * PageSize \in Nat BY <1>1
<1> QED BY <1>1, <1>2 DEF Reached

\* A row leaves the list of a walk.
LEMMA RowLeaves ==
  ASSUME Lists!ListsAssumption, NEW w \in WalkType, NEW L, L \subseteq Nat, IsFiniteSet(L), ListsReading(L, w),
         NEW j \in L, NEW v \in WalkType, v.page = w.page, v.items = w.items, v.total = w.total,
         v.read = w.read, v.shown = w.shown, v.here = w.here \cap (L \ {j}), v.left = w.left + 1,
         v.raced = w.raced
  PROVE  ListsReading(L \ {j}, v)
<1>0. w.left \in Nat /\ w.raced \in Nat /\ w.total \in Nat /\ w.here \subseteq L
  BY DEF WalkType, ListsReading
<1>1. Seen(v) = Seen(w) /\ Reached(v) = Reached(w) BY DEF Seen, Reached
<1>2. PICK M, N : M = Missed(L, w) /\ N = Missed(L \ {j}, v) OBVIOUS
<1>3. PICK b \in Nat : b = Reached(w) BY ReachedIsPlace
<1>4. PICK E : E = {i \in L : Lists!Rank(L, i) = b + 1} OBVIOUS
<1>5. IsFiniteSet(E) /\ Cardinality(E) <= 1 /\ Cardinality(E) \in Nat
  <2>1. CASE E = {} BY <2>1, FS_EmptySet
  <2>2. CASE E # {}
    <3>1. PICK i \in E : TRUE BY <2>2
    <3>2. E = {i}
      <4>1. ASSUME NEW k \in E PROVE k = i
        <5>1. i \in L /\ k \in L /\ Lists!Rank(L, i) = Lists!Rank(L, k) BY ONLY <1>4, <3>1, <4>1
        <5> QED BY ONLY L \subseteq Nat, IsFiniteSet(L), <5>1, RankIsOnes
      <4> QED BY <3>1, <4>1
    <3>3. IsFiniteSet({i}) /\ Cardinality({i}) = 1 BY FS_Singleton
    <3>4. Cardinality(E) = 1 /\ IsFiniteSet(E) BY <3>2, <3>3
    <3> QED BY <3>4
  <2> QED BY <2>1, <2>2
<1>6. N \subseteq M \cup E
  <2>1. ASSUME NEW i \in N PROVE i \in M \cup E
    <3>1. i \in w.here \ Seen(w) /\ i \in L /\ Lists!Rank(L \ {j}, i) <= b
      BY <1>0, <1>1, <1>2, <1>3 DEF Missed
    <3>2. Lists!Rank(L, i) \in Nat /\ Lists!Rank(L \ {j}, i) \in Nat /\ Lists!Rank(L, i) <= Lists!Rank(L \ {j}, i) + 1
      BY RankOfRest
    <3>3. Lists!Rank(L, i) <= b \/ Lists!Rank(L, i) = b + 1 BY <1>3, <3>1, <3>2
    <3> QED BY <1>2, <1>3, <1>4, <3>1, <3>3 DEF Missed
  <2> QED BY <2>1
<1>7. IsFiniteSet(M) /\ Cardinality(M) \in Nat
  <2>1. M \subseteq L BY <1>0, <1>2 DEF Missed
  <2> QED BY <2>1, Sizes
<1>8. Cardinality(M) <= w.left BY <1>2 DEF ListsReading
<1>9. Cardinality(N) <= Cardinality(M) + Cardinality(E) /\ Cardinality(N) \in Nat
  BY <1>5, <1>6, <1>7, SizeOfUnion
<1>10. Cardinality(N) <= v.left BY <1>0, <1>5, <1>7, <1>8, <1>9
<1>11. Cardinality(L \ {j}) <= Cardinality(L) /\ Cardinality(L) \in Nat /\ Cardinality(L \ {j}) \in Nat
  <2>1. L \ {j} \subseteq L OBVIOUS
  <2> QED BY <2>1, Sizes
<1>12. /\ Cardinality(v.here \ Seen(w)) <= Cardinality(w.here \ Seen(w))
       /\ Cardinality(w.here \ Seen(w)) \in Nat /\ Cardinality(v.here \ Seen(w)) \in Nat
  <2>1. v.here \ Seen(w) \subseteq w.here \ Seen(w) /\ w.here \ Seen(w) \subseteq L BY <1>0
  <2>2. IsFiniteSet(w.here \ Seen(w)) BY <2>1, Sizes
  <2> QED BY <2>1, <2>2, Sizes
<1>13. v.here \subseteq L \ {j} OBVIOUS
<1>14. v.read = {"total"} => Cardinality(L \ {j}) <= v.total + v.raced
  <2>1. v.read = {"total"} => Cardinality(L) <= w.total + w.raced BY DEF ListsReading
  <2> QED BY <1>0, <1>11, <2>1
<1>15. v.read = {"rows", "total"} /\ v.total <= v.page * PageSize =>
         Cardinality(v.here \ Seen(v)) <= v.left + v.raced
  <2>1. v.read = {"rows", "total"} /\ v.total <= v.page * PageSize =>
         Cardinality(w.here \ Seen(w)) <= w.left + w.raced
    BY DEF ListsReading
  <2> QED BY <1>0, <1>1, <1>12, <2>1
<1>16. "rows" \notin v.read => v.items = {} BY DEF ListsReading
<1> QED BY <1>2, <1>10, <1>13, <1>14, <1>15, <1>16 DEF ListsReading

\* A row enters it.
LEMMA RowEnters ==
  ASSUME Lists!ListsAssumption, NEW w \in WalkType, NEW L, L \subseteq Nat, IsFiniteSet(L), ListsReading(L, w),
         NEW j \in Nat, j \notin L, NEW v \in WalkType, v.page = w.page, v.items = w.items,
         v.total = w.total, v.read = w.read, v.shown = w.shown, v.here = w.here, v.left = w.left,
         v.raced = w.raced + IF w.read \in {{"rows"}, {"total"}} THEN 1 ELSE 0
  PROVE  ListsReading(L \cup {j}, v)
<1>0. w.left \in Nat /\ w.raced \in Nat /\ w.total \in Nat /\ w.here \subseteq L
  BY DEF WalkType, ListsReading
<1>1. Seen(v) = Seen(w) /\ Reached(v) = Reached(w) BY DEF Seen, Reached
<1>2. PICK K : K = L \cup {j} OBVIOUS
<1>3. IsFiniteSet(K) /\ Cardinality(K) = Cardinality(L) + 1 /\ Cardinality(L) \in Nat
  BY <1>2, FS_AddElement, FS_CardinalityType
<1>4. K \ {j} = L /\ K \subseteq Nat BY <1>2
<1>5. PICK b \in Nat : b = Reached(w) BY ReachedIsPlace
<1>6. Missed(K, v) \subseteq Missed(L, w)
  <2>1. ASSUME NEW i \in Missed(K, v) PROVE i \in Missed(L, w)
    <3>1. i \in w.here \ Seen(w) /\ Lists!Rank(K, i) <= b BY <1>1, <1>5 DEF Missed
    <3>2. Lists!Rank(K, i) \in Nat /\ Lists!Rank(K \ {j}, i) \in Nat /\ Lists!Rank(K \ {j}, i) <= Lists!Rank(K, i)
      BY <1>3, <1>4, RankOfRest
    <3>3. Lists!Rank(L, i) <= b BY <1>4, <1>5, <3>1, <3>2
    <3> QED BY <1>5, <3>1, <3>3 DEF Missed
  <2> QED BY <2>1
<1>7. Cardinality(Missed(K, v)) <= v.left
  <2>1. Missed(L, w) \subseteq L BY <1>0 DEF Missed
  <2>2. IsFiniteSet(Missed(L, w)) /\ Cardinality(Missed(L, w)) \in Nat BY <2>1, Sizes
  <2>3. Cardinality(Missed(K, v)) <= Cardinality(Missed(L, w)) /\ Cardinality(Missed(K, v)) \in Nat
    BY <1>6, <2>2, Sizes
  <2>4. Cardinality(Missed(L, w)) <= w.left BY DEF ListsReading
  <2> QED BY <1>0, <2>2, <2>3, <2>4
<1>8. v.read = {"total"} => Cardinality(K) <= v.total + v.raced
  <2>1. v.read = {"total"} => Cardinality(L) <= w.total + w.raced BY DEF ListsReading
  <2> QED BY <1>0, <1>3, <2>1
<1>9. v.read = {"rows", "total"} /\ v.total <= v.page * PageSize =>
         Cardinality(v.here \ Seen(v)) <= v.left + v.raced
  <2>1. v.read = {"rows", "total"} /\ v.total <= v.page * PageSize =>
         Cardinality(w.here \ Seen(w)) <= w.left + w.raced
    BY DEF ListsReading
  <2>2. w.here \ Seen(w) \subseteq L BY <1>0
  <2>3. Cardinality(w.here \ Seen(w)) \in Nat BY <2>2, Sizes
  <2>4. v.raced \in Nat /\ v.raced >= w.raced BY <1>0
  <2> QED BY <1>0, <1>1, <2>1, <2>3, <2>4
<1>10. "rows" \notin v.read => v.items = {} BY DEF ListsReading
<1>11. v.here \subseteq K BY <1>0, <1>2
<1> QED BY <1>2, <1>7, <1>8, <1>9, <1>10, <1>11 DEF ListsReading

\* The rows of a page are read.
LEMMA RowsRead ==
  ASSUME Lists!ListsAssumption, NEW w \in WalkType, NEW L, L \subseteq Nat, IsFiniteSet(L), ListsReading(L, w),
         "rows" \notin w.read, NEW v \in WalkType, v.page = w.page, v.total = w.total,
         v.shown = w.shown, v.here = w.here, v.left = w.left, v.raced = w.raced,
         v.read = w.read \cup {"rows"},
         v.items = {i \in L : Lists!Rank(L, i) \in (w.page - 1) * PageSize + 1 .. (w.page - 1) * PageSize + PageSize}
  PROVE  ListsReading(L, v)
<1>0. /\ w.left \in Nat /\ w.raced \in Nat /\ w.total \in Nat /\ w.here \subseteq L /\ w.items = {}
      /\ w.page \in Nat /\ w.page >= 1 /\ PageSize \in Nat
  BY DEF WalkType, ListsReading, Lists!ListsAssumption
<1>1. PICK b \in Nat : b = (w.page - 1) * PageSize BY <1>0
<1>2. Reached(w) = b /\ Reached(v) = b + PageSize BY <1>0, <1>1 DEF Reached
<1>3. w.page * PageSize = b + PageSize
  <2>1. ASSUME NEW p \in Nat PROVE (p + 1) * PageSize = p * PageSize + PageSize BY <1>0
  <2>2. PICK p \in Nat : w.page = p + 1 BY <1>0
  <2> QED BY <1>1, <2>1, <2>2
<1>4. Seen(w) = w.shown /\ Seen(v) = w.shown \cup v.items BY <1>0 DEF Seen
<1>5. \A i \in L : Lists!Rank(L, i) \in Nat /\ (i \in v.items <=> Lists!Rank(L, i) > b /\ Lists!Rank(L, i) <= b + PageSize)
  <2> SUFFICES ASSUME NEW i \in L
               PROVE Lists!Rank(L, i) \in Nat /\ (i \in v.items <=> Lists!Rank(L, i) > b /\ Lists!Rank(L, i) <= b + PageSize)
    OBVIOUS
  <2>1. Lists!Rank(L, i) \in Nat BY RankProperties
  <2>2. i \in v.items <=> Lists!Rank(L, i) \in b + 1 .. b + PageSize BY <1>1
  <2> QED BY <1>0, <2>1, <2>2
<1>6. Missed(L, v) = Missed(L, w)
  <2>1. ASSUME NEW i \in w.here PROVE i \in Missed(L, v) <=> i \in Missed(L, w)
    <3>1. i \in L /\ Lists!Rank(L, i) \in Nat BY <1>0, <1>5
    <3>2. i \in Missed(L, v) <=> i \notin w.shown /\ i \notin v.items /\ Lists!Rank(L, i) <= b + PageSize
      BY <1>2, <1>4 DEF Missed
    <3>3. i \in Missed(L, w) <=> i \notin w.shown /\ Lists!Rank(L, i) <= b
      BY <1>2, <1>4 DEF Missed
    <3>4. i \in v.items <=> Lists!Rank(L, i) > b /\ Lists!Rank(L, i) <= b + PageSize BY <1>5, <3>1
    <3>5. Lists!Rank(L, i) <= b => Lists!Rank(L, i) <= b + PageSize /\ ~(Lists!Rank(L, i) > b)
      BY <1>0, <3>1
    <3>6. Lists!Rank(L, i) <= b \/ Lists!Rank(L, i) > b BY <3>1
    <3> QED BY <3>2, <3>3, <3>4, <3>5, <3>6
  <2> QED BY <2>1 DEF Missed
<1>7. Cardinality(Missed(L, v)) <= v.left BY <1>6 DEF ListsReading
<1>8. v.read = {"rows", "total"} /\ v.total <= v.page * PageSize =>
         Cardinality(v.here \ Seen(v)) <= v.left + v.raced
  <2> SUFFICES ASSUME v.read = {"rows", "total"}, v.total <= v.page * PageSize
               PROVE  Cardinality(v.here \ Seen(v)) <= v.left + v.raced
    OBVIOUS
  <2>1. w.read = {"total"} BY DEF WalkType
  <2>2. Cardinality(L) <= w.total + w.raced /\ Cardinality(L) \in Nat
    BY <2>1, FS_CardinalityType DEF ListsReading
  <2>3. Cardinality(L) <= (b + PageSize) + w.raced BY <1>0, <1>3, <2>2
  <2>4. PICK E : E = {i \in L : Lists!Rank(L, i) > b + PageSize} OBVIOUS
  <2>5. b + PageSize \in Nat BY <1>0
  <2>6. IsFiniteSet(E) /\ Cardinality(E) <= w.raced BY <1>0, <2>3, <2>4, <2>5, RankBeyond
  <2>7. v.here \ Seen(v) \subseteq Missed(L, w) \cup E
    <3>1. ASSUME NEW i \in v.here \ Seen(v) PROVE i \in Missed(L, w) \cup E
      <4>1. i \in L /\ i \in w.here \ Seen(w) /\ i \notin v.items BY <1>0, <1>4
      <4>2. Lists!Rank(L, i) <= b \/ Lists!Rank(L, i) > b + PageSize BY <1>0, <1>5, <4>1
      <4> QED BY <1>2, <2>4, <4>1, <4>2 DEF Missed
    <3> QED BY <3>1
  <2>8. Missed(L, w) \subseteq L /\ Cardinality(Missed(L, w)) <= w.left
    BY <1>0 DEF Missed, ListsReading
  <2>9. IsFiniteSet(Missed(L, w)) /\ Cardinality(Missed(L, w)) \in Nat BY <2>8, Sizes
  <2>10. Cardinality(v.here \ Seen(v)) <= Cardinality(Missed(L, w)) + Cardinality(E)
         /\ Cardinality(v.here \ Seen(v)) \in Nat
    BY <2>6, <2>7, <2>9, SizeOfUnion
  <2>11. Cardinality(E) \in Nat BY <2>6, FS_CardinalityType
  <2> QED BY <1>0, <2>6, <2>8, <2>9, <2>10, <2>11
<1> QED BY <1>0, <1>7, <1>8 DEF ListsReading

\* The total of a page is read.
LEMMA TotalRead ==
  ASSUME Lists!ListsAssumption, NEW w \in WalkType, NEW L, L \subseteq Nat, IsFiniteSet(L), ListsReading(L, w),
         "total" \notin w.read, NEW v \in WalkType, v.page = w.page, v.items = w.items,
         v.shown = w.shown, v.here = w.here, v.left = w.left, v.raced = w.raced,
         v.read = w.read \cup {"total"}, v.total = Cardinality(L)
  PROVE  ListsReading(L, v)
<1>0. /\ w.left \in Nat /\ w.raced \in Nat /\ w.here \subseteq L
      /\ w.page \in Nat /\ w.page >= 1 /\ PageSize \in Nat /\ Cardinality(L) \in Nat
  BY FS_CardinalityType DEF WalkType, ListsReading, Lists!ListsAssumption
<1>1. Seen(v) = Seen(w) /\ Reached(v) = Reached(w) BY DEF Seen, Reached
<1>2. Missed(L, v) = Missed(L, w) BY <1>1 DEF Missed
<1>3. Cardinality(Missed(L, w)) <= w.left BY DEF ListsReading
<1>4. v.read = {"rows", "total"} /\ v.total <= v.page * PageSize =>
         Cardinality(v.here \ Seen(v)) <= v.left + v.raced
  <2> SUFFICES ASSUME v.read = {"rows", "total"}, v.total <= v.page * PageSize
               PROVE  Cardinality(v.here \ Seen(v)) <= v.left + v.raced
    OBVIOUS
  <2>1. "rows" \in w.read OBVIOUS
  <2>2. Reached(w) = w.page * PageSize
    <3>1. ASSUME NEW p \in Nat PROVE (p + 1) * PageSize = p * PageSize + PageSize /\ (p + 1) - 1 = p
      BY <1>0
    <3>2. PICK p \in Nat : w.page = p + 1 BY <1>0
    <3> QED BY <2>1, <3>1, <3>2 DEF Reached
  <2>3. w.page * PageSize \in Nat BY <1>0
  <2>4. w.here \ Seen(w) \subseteq Missed(L, w)
    <3>1. ASSUME NEW i \in w.here \ Seen(w) PROVE i \in Missed(L, w)
      <4>1. Lists!Rank(L, i) \in Nat /\ Lists!Rank(L, i) <= Cardinality(L) BY <1>0, RankProperties
      <4>2. Lists!Rank(L, i) <= Reached(w) BY <1>0, <2>2, <2>3, <4>1
      <4> QED BY <4>2 DEF Missed
    <3> QED BY <3>1
  <2>5. Missed(L, w) \subseteq L BY <1>0 DEF Missed
  <2>6. IsFiniteSet(Missed(L, w)) /\ Cardinality(Missed(L, w)) \in Nat BY <2>5, Sizes
  <2>7. Cardinality(w.here \ Seen(w)) \in Nat
        /\ Cardinality(w.here \ Seen(w)) <= Cardinality(Missed(L, w))
    BY <2>4, <2>6, Sizes
  <2> QED BY <1>0, <1>1, <1>3, <2>6, <2>7
<1>5. v.read = {"total"} => Cardinality(L) <= v.total + v.raced BY <1>0
<1>6. "rows" \notin v.read => v.items = {} BY DEF ListsReading
<1> QED BY <1>0, <1>2, <1>3, <1>4, <1>5, <1>6 DEF ListsReading

\* The pages of a list.
LEMMA LastPage ==
  ASSUME Lists!ListsAssumption, NEW page \in Nat, page >= 1, NEW total \in Nat, ~(page < Lists!PageCount(total))
  PROVE  total <= page * PageSize
<1>0. PageSize \in Nat /\ PageSize >= 1 BY DEF Lists!ListsAssumption
<1>1. CASE total = 0
  <2>1. page * PageSize \in Nat BY <1>0
  <2> QED BY <1>1, <2>1
<1>2. CASE total # 0
  <2>1. PICK n \in Nat : n = total + PageSize - 1 BY <1>0
  <2>2. PICK q : q = n \div PageSize OBVIOUS
  <2>3. q \in Nat /\ n < PageSize * q + PageSize BY <1>0, <2>1, <2>2
  <2>4. Lists!PageCount(total) = q BY <1>2, <2>1, <2>2 DEF Lists!PageCount
  <2>5. q <= page BY <2>3, <2>4
  <2>6. PICK d \in Nat : page = q + d BY <2>3, <2>5
  <2>7. page * PageSize = PageSize * q + d * PageSize /\ d * PageSize \in Nat /\ PageSize * q \in Nat
    BY <1>0, <2>3, <2>6
  <2> QED BY <1>0, <2>1, <2>3, <2>7
<1> QED BY <1>1, <1>2

\* The next page, or the first one when the query string may not ask for more.
LEMMA NextPage ==
  ASSUME Lists!ListsAssumption, NEW w \in WalkType, NEW L, L \subseteq Nat, IsFiniteSet(L), ListsReading(L, w),
         w.read = {"rows", "total"}, NEW v \in WalkType, v.page = Lists!Pagination(w.page + 1),
         v.items = {}, v.shown = w.shown \cup w.items, v.here = w.here, v.left = w.left,
         v.raced = w.raced, v.read = {}
  PROVE  ListsReading(L, v)
<1>0. /\ w.left \in Nat /\ w.here \subseteq L /\ w.page \in 1..MaxPage /\ w.page \in Nat
      /\ w.page >= 1 /\ PageSize \in Nat /\ MaxPage \in Nat
  BY DEF WalkType, ListsReading, Lists!ListsAssumption
<1>1. Seen(v) = Seen(w) BY DEF Seen
<1>2. Reached(w) = w.page * PageSize
  <2>1. ASSUME NEW p \in Nat PROVE (p + 1) * PageSize = p * PageSize + PageSize /\ (p + 1) - 1 = p
    BY <1>0
  <2>2. PICK p \in Nat : w.page = p + 1 BY <1>0
  <2> QED BY <2>1, <2>2 DEF Reached
<1>3. CASE v.page = w.page + 1
  <2>1. Reached(v) = ((w.page + 1) - 1) * PageSize + 0 BY <1>3 DEF Reached
  <2>2. (w.page + 1) - 1 = w.page BY <1>0
  <2>3. w.page * PageSize \in Nat BY <1>0
  <2>4. Reached(v) = Reached(w) BY <1>2, <2>1, <2>2, <2>3
  <2>5. Missed(L, v) = Missed(L, w) BY <1>1, <2>4 DEF Missed
  <2> QED BY <1>0, <2>5 DEF ListsReading
<1>4. CASE v.page = 1
  <2>1. Reached(v) = 0 BY <1>0, <1>4 DEF Reached
  <2>2. Missed(L, v) = {}
    <3>1. ASSUME NEW i \in Missed(L, v) PROVE FALSE
      <4>1. i \in L /\ Lists!Rank(L, i) <= 0 BY <1>0, <2>1 DEF Missed
      <4>2. Lists!Rank(L, i) \in Nat /\ 1 <= Lists!Rank(L, i) BY <4>1, RankProperties
      <4> QED BY <4>1, <4>2
    <3> QED BY <3>1
  <2>3. Cardinality(Missed(L, v)) = 0 BY <2>2, FS_EmptySet
  <2> QED BY <1>0, <2>3 DEF ListsReading
<1> QED BY <1>3, <1>4 DEF Lists!Pagination

\* A list is opened at its first page.
LEMMA ListOpened ==
  ASSUME Lists!ListsAssumption, NEW L, L \subseteq Nat, NEW v \in WalkType, v.page = 1, v.here = L,
         v.read = {}, v.left = 0, v.items = {}, IsFiniteSet(L)
  PROVE  ListsReading(L, v)
<1>1. Reached(v) = 0 BY DEF Reached, Lists!ListsAssumption
<1>2. Missed(L, v) = {}
  <2>1. ASSUME NEW i \in Missed(L, v) PROVE FALSE
    <3>1. i \in L /\ Lists!Rank(L, i) <= 0 BY <1>1 DEF Missed
    <3>2. Lists!Rank(L, i) \in Nat /\ 1 <= Lists!Rank(L, i) BY <3>1, RankProperties
    <3> QED BY <3>1, <3>2
  <2> QED BY <2>1
<1>3. Cardinality(Missed(L, v)) = 0 BY <1>2, FS_EmptySet
<1> QED BY <1>3 DEF ListsReading

-----------------------------------------------------------------------------
(* The invariant. *)

\* The history of a row tells how it came to its status, move by move.
RowsInv ==
  /\ rqRows \in Seq(Lists!Rows) /\ rqMoves \in 0..MaxMoves
  /\ \A i \in Lists!Ids :
       LET h == rqRows[i].history IN
       /\ Len(h) >= 1 /\ Len(h) <= rqMoves + 1
       /\ rqRows[i].status # "gone" => h[Len(h)].newStatus = rqRows[i].status
       /\ \A k \in 1..(Len(h) - 1) : h[k + 1].previousStatus = h[k].newStatus

\* What was read is what is there, or was: the rows missed are at most those that left.
WalkInv ==
  /\ rqWalk \in WalkType
  /\ rqWalk.here \cup rqWalk.shown \cup rqWalk.items \subseteq Lists!Ids
  /\ rqWalk.step # "reading" => rqWalk.read = {}
  /\ rqWalk.step = "reading" => ListsReading(Lists!Listed(rqRows, rqWalk.filter), rqWalk)
  /\ Lists!MissedOnlyByRaces

DetailType ==
  [reader : {"client", "office"}, request : Nat,
   reads : {<<>>, <<"history">>, <<"row", "history">>},
   status : Statuses \cup {Lists!NotRead}, history : Seq(Lists!Entries)]

\* A detail whose history comes after its row has read an earlier status of it.
DetailInv ==
  /\ rqDetail \in DetailType
  /\ rqDetail.reads # <<>> \/ rqDetail.status # Lists!NotRead => rqDetail.request \in Lists!Ids
  /\ rqDetail.reads = <<"history">> =>
       \E m \in 1..Len(rqRows[rqDetail.request].history) :
         rqRows[rqDetail.request].history[m].newStatus = rqDetail.status

\* Together, inductive.
ListsInv == RowsInv /\ WalkInv /\ DetailInv

LEMMA NoWalkIsWalk ==
  ASSUME Lists!ListsAssumption
  PROVE  Lists!NoWalk \in WalkType /\ Lists!NoWalk.step = "closed" /\ Lists!NoWalk.here \cup Lists!NoWalk.shown \cup Lists!NoWalk.items = {}
         /\ Lists!NoWalk.read = {}
BY DEF Lists!ListsAssumption, Lists!NoWalk, WalkType

LEMMA NoDetailIsDetail ==
  Lists!NoDetail \in DetailType /\ Lists!NoDetail.reads = <<>> /\ Lists!NoDetail.status = Lists!NotRead
BY DEF Lists!NoDetail, DetailType

LEMMA NotReadIsNone == ASSUME Lists!ListsAssumption
  PROVE Lists!NotRead \notin Statuses /\ "gone" \notin Statuses
BY DEF Lists!ListsAssumption, Lists!QuoteRequestStatuses, Lists!NotRead

LEMMA ListsInit ==
  ASSUME Lists!ListsAssumption PROVE Lists!Init => ListsInv /\ Lists!StatusIsExplained
<1> SUFFICES ASSUME Lists!Init PROVE ListsInv /\ Lists!StatusIsExplained
  OBVIOUS
<1>1. rqRows = <<>> /\ rqMoves = 0 /\ rqWalk = Lists!NoWalk /\ rqDetail = Lists!NoDetail
  BY DEF Lists!Init
<1>2. RowsInv BY <1>1 DEF RowsInv, Lists!Ids, Lists!ListsAssumption
<1>3. WalkInv BY <1>1, NoWalkIsWalk DEF WalkInv, Lists!MissedOnlyByRaces
<1>4. DetailInv /\ Lists!StatusIsExplained
  BY <1>1, NoDetailIsDetail DEF DetailInv, Lists!StatusIsExplained
<1> QED BY <1>2, <1>3, <1>4 DEF ListsInv

-----------------------------------------------------------------------------
(* Steps that change a row. *)

LEMMA ListedIsFinite ==
  ASSUME NEW all, all \in Seq(Lists!Rows), NEW filter
  PROVE  /\ Lists!Listed(all, filter) \subseteq 1..Len(all) /\ Lists!Listed(all, filter) \subseteq Nat
         /\ IsFiniteSet(Lists!Listed(all, filter))
<1>1. DOMAIN all = 1..Len(all) /\ Len(all) \in Nat OBVIOUS
<1>2. Lists!Listed(all, filter) \subseteq 1..Len(all) BY <1>1 DEF Lists!Listed
<1>3. IsFiniteSet(1..Len(all)) BY <1>1, FS_Interval
<1>4. IsFiniteSet(Lists!Listed(all, filter)) BY <1>2, <1>3, FS_Subset
<1> QED BY <1>1, <1>2, <1>4

\* A walk that watches a change of the rows.
WatchedBecomes(v, w, h, l, r) == v = [w EXCEPT !.here = h, !.left = l, !.raced = r]

LEMMA WatchedFields ==
  ASSUME NEW w \in WalkType, NEW h \in SUBSET Nat, NEW l \in Nat, NEW r \in Nat,
         NEW v, WatchedBecomes(v, w, h, l, r)
  PROVE  /\ v \in WalkType /\ v.here = h /\ v.left = l /\ v.raced = r
         /\ v.step = w.step /\ v.filter = w.filter /\ v.page = w.page /\ v.items = w.items
         /\ v.total = w.total /\ v.read = w.read /\ v.shown = w.shown
BY DEF WalkType, WatchedBecomes

\* A row that changes or appears raises the places of the others by one at most, and is
\* counted when it leaves a place the walk had still to pass.
LEMMA WalkWatches ==
  ASSUME Lists!ListsAssumption, RowsInv, WalkInv, NEW new, new \in Seq(Lists!Rows), Len(new) >= Len(rqRows), NEW j \in Nat,
         \A filter : Lists!Listed(new, filter) \ {j} = Lists!Listed(rqRows, filter) \ {j},
         rqRows' = new, rqWalk' = Lists!Watched(new)
  PROVE  WalkInv'
<1>0. rqRows \in Seq(Lists!Rows) /\ rqWalk \in WalkType BY DEF RowsInv, WalkInv
<1>1. Lists!Ids \subseteq Lists!Ids'
  <2>1. Lists!Ids = 1..Len(rqRows) /\ Lists!Ids' = 1..Len(new) BY <1>0 DEF Lists!Ids
  <2>2. Len(rqRows) \in Nat /\ Len(new) \in Nat BY <1>0
  <2> QED BY <2>1, <2>2
<1>2. CASE rqWalk.step # "reading"
  <2>1. rqWalk' = rqWalk BY <1>2 DEF Lists!Watched
  <2> QED BY <1>1, <1>2, <2>1 DEF WalkInv, Lists!MissedOnlyByRaces
<1>3. CASE rqWalk.step = "reading"
  <2>1. PICK L, K : L = Lists!Listed(rqRows, rqWalk.filter) /\ K = Lists!Listed(new, rqWalk.filter) OBVIOUS
  <2>2. /\ L \subseteq Nat /\ IsFiniteSet(L) /\ K \subseteq Nat /\ IsFiniteSet(K)
        /\ K \ {j} = L \ {j} /\ ListsReading(L, rqWalk) /\ rqWalk.here \subseteq L
    BY <1>0, <1>3, <2>1, ListedIsFinite DEF WalkInv, ListsReading
  <2>3. PICK h, l, r : /\ h = rqWalk.here \cap K
                       /\ l = rqWalk.left + Cardinality(L \ K)
                       /\ r = rqWalk.raced + IF Cardinality(rqWalk.read) = 1 THEN Cardinality(K \ L) ELSE 0
    OBVIOUS
  <2>4. rqWalk' = [rqWalk EXCEPT !.here = h, !.left = l, !.raced = r]
    BY <1>3, <2>1, <2>3, ListsSize DEF Lists!Watched
  <2>5. rqWalk.left \in Nat /\ rqWalk.raced \in Nat /\ rqWalk.read \in SUBSET {"rows", "total"}
        /\ rqWalk.here \in SUBSET Nat
    BY <1>0 DEF WalkType
  <2>6. Cardinality(rqWalk.read) = 1 <=> rqWalk.read \in {{"rows"}, {"total"}}
    <3>1. rqWalk.read \in {{}, {"rows"}, {"total"}, {"rows", "total"}} BY <2>5
    <3>2. Cardinality({}) = 0 BY FS_EmptySet
    <3>3. IsFiniteSet({"rows"}) /\ Cardinality({"rows"}) = 1 BY FS_Singleton
    <3>4. IsFiniteSet({"total"}) /\ Cardinality({"total"}) = 1 BY FS_Singleton
    <3>5. Cardinality({"rows"} \cup {"total"}) = 2
      <4>1. Cardinality({"rows"} \cup {"total"}) = IF "total" \in {"rows"} THEN 1 ELSE 1 + 1
        BY <3>3, FS_AddElement
      <4> QED BY <4>1
    <3>6. {"rows"} \cup {"total"} = {"rows", "total"} OBVIOUS
    <3>7. 0 # 1 /\ 2 # 1 OBVIOUS
    <3> QED BY <3>1, <3>2, <3>3, <3>4, <3>5, <3>6, <3>7
  <2>7. PICK d, e : d = Cardinality(L \ K) /\ e = Cardinality(K \ L) OBVIOUS
  <2>8. \/ L = K /\ d = 0 /\ e = 0
        \/ j \in L /\ K = L \ {j} /\ d = 1 /\ e = 0
        \/ j \notin L /\ K = L \cup {j} /\ d = 0 /\ e = 1
    <3>1. Cardinality({}) = 0 /\ Cardinality({j}) = 1 BY FS_EmptySet, FS_Singleton
    <3>2. CASE (j \in L /\ j \in K) \/ (j \notin L /\ j \notin K)
      <4>0. \A x : x \in L \ {j} <=> x \in K \ {j} BY <2>2
      <4>3. \A x : x \in L <=> x \in K BY <3>2, <4>0
      <4>1. L = K BY <4>3
      <4>2. L \ K = {} /\ K \ L = {} BY <4>1
      <4> QED BY <2>7, <3>1, <4>1, <4>2
    <3>3. CASE j \in L /\ j \notin K
      <4>1. K = L \ {j} BY <2>2, <3>3
      <4>2. L \ K = {j} /\ K \ L = {} BY <3>3, <4>1
      <4> QED BY <2>7, <3>1, <3>3, <4>1, <4>2
    <3>4. CASE j \notin L /\ j \in K
      <4>1. K = L \cup {j} BY <2>2, <3>4
      <4>2. L \ K = {} /\ K \ L = {j} BY <3>4, <4>1
      <4> QED BY <2>7, <3>1, <3>4, <4>1, <4>2
    <3> QED BY <3>2, <3>3, <3>4
  <2>9. l = rqWalk.left + d /\ r = rqWalk.raced + (IF rqWalk.read \in {{"rows"}, {"total"}} THEN e ELSE 0)
    BY <2>3, <2>6, <2>7
  <2>10. h \in SUBSET Nat /\ l \in Nat /\ r \in Nat BY <2>3, <2>5, <2>8, <2>9
  <2>11. PICK v : v = rqWalk' OBVIOUS
  <2>12. /\ v \in WalkType /\ v.here = h /\ v.left = l /\ v.raced = r
         /\ v.step = rqWalk.step /\ v.filter = rqWalk.filter /\ v.page = rqWalk.page /\ v.items = rqWalk.items
         /\ v.total = rqWalk.total /\ v.read = rqWalk.read /\ v.shown = rqWalk.shown
    <3>1. WatchedBecomes(v, rqWalk, h, l, r) BY <2>4, <2>11 DEF WatchedBecomes
    <3> QED BY <1>0, <2>10, <3>1, WatchedFields
  <2>13. ListsReading(K, v)
    <3>1. CASE L = K /\ d = 0 /\ e = 0
      <4>1. v.here = rqWalk.here /\ v.left = rqWalk.left /\ v.raced = rqWalk.raced
        BY <2>2, <2>3, <2>5, <2>9, <2>12, <3>1
      <4>2. Seen(v) = Seen(rqWalk) /\ Reached(v) = Reached(rqWalk) BY <2>12 DEF Seen, Reached
      <4>3. Missed(L, v) = Missed(L, rqWalk) BY <4>1, <4>2 DEF Missed
      <4> QED BY <2>2, <2>12, <3>1, <4>1, <4>2, <4>3 DEF ListsReading
    <3>2. CASE j \in L /\ K = L \ {j} /\ d = 1 /\ e = 0
      <4>1. v.here = rqWalk.here \cap (L \ {j}) /\ v.left = rqWalk.left + 1 /\ v.raced = rqWalk.raced
        BY <2>3, <2>5, <2>9, <2>12, <3>2
      <4> QED BY <1>0, <2>2, <2>12, <3>2, <4>1, RowLeaves
    <3>3. CASE j \notin L /\ K = L \cup {j} /\ d = 0 /\ e = 1
      <4>1. v.here = rqWalk.here /\ v.left = rqWalk.left
            /\ v.raced = rqWalk.raced + IF rqWalk.read \in {{"rows"}, {"total"}} THEN 1 ELSE 0
        BY <2>2, <2>3, <2>5, <2>9, <2>12, <3>3
      <4> QED BY <1>0, <2>2, <2>12, <3>3, <4>1, RowEnters
    <3> QED BY <2>8, <3>1, <3>2, <3>3
  <2>14. v.here \cup v.shown \cup v.items \subseteq Lists!Ids'
    BY <1>1, <2>3, <2>12 DEF WalkInv
  <2> QED BY <1>3, <2>1, <2>11, <2>12, <2>13, <2>14 DEF WalkInv, Lists!MissedOnlyByRaces
<1> QED BY <1>2, <1>3

\* Rows only ever gain entries of their history.
LEMMA DetailStands ==
  ASSUME Lists!ListsAssumption, RowsInv, DetailInv, rqDetail' = rqDetail, RowsInv', Len(rqRows') >= Len(rqRows),
         \A i \in Lists!Ids :
           /\ Len(rqRows'[i].history) >= Len(rqRows[i].history)
           /\ \A m \in 1..Len(rqRows[i].history) : rqRows'[i].history[m] = rqRows[i].history[m]
  PROVE  DetailInv' /\ (Lists!StatusIsExplained => Lists!StatusIsExplained')
<1>0. \A i \in Lists!Ids : Len(rqRows[i].history) \in Nat /\ Len(rqRows'[i].history) \in Nat
  <2>1. rqRows \in Seq(Lists!Rows) /\ rqRows' \in Seq(Lists!Rows) BY DEF RowsInv
  <2>2. Lists!Ids = 1..Len(rqRows) /\ Len(rqRows) \in Nat /\ Len(rqRows') \in Nat
    BY <2>1 DEF Lists!Ids
  <2>3. \A i \in Lists!Ids : rqRows[i] \in Lists!Rows /\ rqRows'[i] \in Lists!Rows BY <2>1, <2>2
  <2> QED BY <2>3 DEF Lists!Rows
<1>1. Lists!Ids \subseteq Lists!Ids'
  <2>1. rqRows \in Seq(Lists!Rows) /\ rqRows' \in Seq(Lists!Rows) BY DEF RowsInv
  <2>2. Lists!Ids = 1..Len(rqRows) /\ Lists!Ids' = 1..Len(rqRows') BY <2>1 DEF Lists!Ids
  <2>3. Len(rqRows) \in Nat /\ Len(rqRows') \in Nat BY <2>1
  <2> QED BY <2>2, <2>3
<1>2. DetailInv'
  <2>1. rqDetail \in DetailType /\ (rqDetail.reads # <<>> \/ rqDetail.status # Lists!NotRead => rqDetail.request \in Lists!Ids)
    BY DEF DetailInv
  <2>2. ASSUME rqDetail.reads = <<"history">>
        PROVE  \E m \in 1..Len(rqRows'[rqDetail.request].history) :
                 rqRows'[rqDetail.request].history[m].newStatus = rqDetail.status
    <3>1. rqDetail.request \in Lists!Ids BY <2>1, <2>2
    <3>2. PICK m \in 1..Len(rqRows[rqDetail.request].history) :
            rqRows[rqDetail.request].history[m].newStatus = rqDetail.status
      BY <2>2 DEF DetailInv
    <3>3. m \in 1..Len(rqRows'[rqDetail.request].history) BY <1>0, <3>1, <3>2
    <3> QED BY <3>1, <3>2, <3>3
  <2> QED BY <1>1, <2>1, <2>2 DEF DetailInv
<1>3. ASSUME Lists!StatusIsExplained PROVE Lists!StatusIsExplained'
  <2>1. rqDetail.status # Lists!NotRead => rqDetail.request \in Lists!Ids BY DEF DetailInv
  <2>2. rqDetail.status # Lists!NotRead /\ Len(rqRows'[rqDetail.request].history) <= HistoryLimit /\ HistoryLimit \in Int =>
          Len(rqRows[rqDetail.request].history) <= HistoryLimit
    BY <1>0, <2>1
  <2>3. CASE rqDetail.reader = "client" BY <1>3, <2>3 DEF Lists!StatusIsExplained
  <2>4. CASE rqDetail.reader # "client"
    <3>1. HistoryLimit \in Int BY DEF Lists!ListsAssumption
    <3> QED BY <1>3, <2>2, <2>4, <3>1 DEF Lists!StatusIsExplained
  <2> QED BY <2>3, <2>4
<1> QED BY <1>2, <1>3
-----------------------------------------------------------------------------
(* Steps. *)

LEMMA RowTyping ==
  ASSUME RowsInv
  PROVE  /\ Lists!Ids = 1..Len(rqRows) /\ Len(rqRows) \in Nat /\ rqRows \in Seq(Lists!Rows) /\ rqMoves \in Nat
         /\ \A i \in Lists!Ids : /\ i \in Nat
                                /\ rqRows[i] \in Lists!Rows /\ rqRows[i].status \in Statuses \cup {"gone"}
                                /\ rqRows[i].history \in Seq(Lists!Entries) /\ Len(rqRows[i].history) \in Nat
<1>1. rqRows \in Seq(Lists!Rows) /\ rqMoves \in 0..MaxMoves BY DEF RowsInv
<1>2. Lists!Ids = 1..Len(rqRows) /\ Len(rqRows) \in Nat BY <1>1 DEF Lists!Ids
<1>3. \A i \in Lists!Ids : rqRows[i] \in Lists!Rows BY <1>1, <1>2
<1>4. \A i \in Lists!Ids : rqRows[i].status \in Statuses \cup {"gone"}
                           /\ rqRows[i].history \in Seq(Lists!Entries) /\ Len(rqRows[i].history) \in Nat
  BY <1>3 DEF Lists!Rows
<1>5. rqMoves \in Nat
  <2>1. MaxMoves \in Nat \/ MaxMoves \notin Nat OBVIOUS
  <2> QED BY <1>1
<1> QED BY <1>1, <1>2, <1>3, <1>4, <1>5

\* Facts of a sequence that is appended to.
LEMMA Appended ==
  ASSUME NEW S, NEW s \in Seq(S), NEW x \in S
  PROVE  /\ Append(s, x) \in Seq(S) /\ Len(Append(s, x)) = Len(s) + 1 /\ Len(s) \in Nat
         /\ \A k \in 1..Len(s) : Append(s, x)[k] = s[k]
         /\ Append(s, x)[Len(s) + 1] = x
BY AppendProperties

LEMMA CreateKeeps ==
  ASSUME Lists!ListsAssumption, ListsInv, Lists!Create
  PROVE  ListsInv' /\ (Lists!StatusIsExplained => Lists!StatusIsExplained')
<1>0. RowsInv /\ WalkInv /\ DetailInv BY DEF ListsInv
<1>1. PICK status \in {"draft", "submitted"} :
        Lists!Change(Append(rqRows, [status |-> status, history |-> <<Lists!Entry("none", status)>>]))
  BY DEF Lists!Create
<1>2. PICK e : e = Lists!Entry("none", status) OBVIOUS
<1>3. PICK row : row = [status |-> status, history |-> <<e>>] OBVIOUS
<1>4. PICK new : new = Append(rqRows, row) OBVIOUS
<1>5. rqRows' = new /\ rqWalk' = Lists!Watched(new) /\ rqDetail' = rqDetail /\ rqMoves' = rqMoves
  BY <1>1, <1>2, <1>3, <1>4 DEF Lists!Change, Lists!Create
<1>6. e \in Lists!Entries /\ e.newStatus = status
  BY <1>2 DEF Lists!Entry, Lists!Entries, Lists!ListsAssumption
<1>7. row \in Lists!Rows /\ row.history = <<e>> /\ row.status = status
  BY <1>3, <1>6 DEF Lists!Rows, Lists!ListsAssumption
<1>8. /\ new \in Seq(Lists!Rows) /\ Len(new) = Len(rqRows) + 1 /\ Len(rqRows) \in Nat
      /\ \A k \in 1..Len(rqRows) : new[k] = rqRows[k]
      /\ new[Len(rqRows) + 1] = row
  BY <1>0, <1>4, <1>7, RowTyping, Appended
<1>9. DOMAIN rqRows = 1..Len(rqRows) /\ DOMAIN new = 1..(Len(rqRows) + 1)
  BY <1>0, <1>8, RowTyping
<1>10. RowsInv'
  <2>1. rqRows' \in Seq(Lists!Rows) /\ rqMoves' \in 0..MaxMoves BY <1>0, <1>5, <1>8 DEF RowsInv
  <2>2. rqMoves \in Nat BY <1>0, RowTyping
  <2>3. ASSUME NEW i \in DOMAIN new
        PROVE LET h == new[i].history IN
              /\ Len(h) >= 1 /\ Len(h) <= rqMoves + 1
              /\ new[i].status # "gone" => h[Len(h)].newStatus = new[i].status
              /\ \A k \in 1..(Len(h) - 1) : h[k + 1].previousStatus = h[k].newStatus
    <3>1. CASE i \in 1..Len(rqRows)
      <4>1. i \in Lists!Ids /\ new[i] = rqRows[i] BY <1>8, <1>9, <3>1 DEF Lists!Ids
      <4> QED BY <1>0, <4>1 DEF RowsInv
    <3>2. CASE i = Len(rqRows) + 1
      <4>1. new[i].history = <<e>> /\ new[i].status = status BY <1>7, <1>8, <3>2
      <4>2. Len(<<e>>) = 1 /\ <<e>>[1] = e /\ 1..(1 - 1) = {} OBVIOUS
      <4> QED BY <1>6, <2>2, <4>1, <4>2
    <3> QED BY <1>8, <1>9, <3>1, <3>2
  <2> QED BY <1>5, <2>1, <2>3 DEF RowsInv, Lists!Ids
<1>11. WalkInv'
  <2>1. PICK j \in Nat : j = Len(rqRows) + 1 BY <1>8
  <2>2. ASSUME NEW filter
    PROVE Lists!Listed(new, filter) \ {j} = Lists!Listed(rqRows, filter) \ {j}
    <3>1. ASSUME NEW i
      PROVE i \in Lists!Listed(new, filter) \ {j} <=> i \in Lists!Listed(rqRows, filter) \ {j}
      <4>1. i \in DOMAIN new /\ i # j <=> i \in DOMAIN rqRows /\ i # j BY <1>8, <1>9, <2>1
      <4>2. i \in DOMAIN rqRows => new[i] = rqRows[i] BY <1>8, <1>9
      <4> QED BY <4>1, <4>2 DEF Lists!Listed
    <3> QED BY <3>1
  <2>3. Len(new) >= Len(rqRows) BY <1>8
  <2> QED BY <1>0, <1>5, <1>8, <2>2, <2>3, WalkWatches
<1>12. DetailInv' /\ (Lists!StatusIsExplained => Lists!StatusIsExplained')
  <2>1. ASSUME NEW i \in Lists!Ids
        PROVE  /\ Len(rqRows'[i].history) >= Len(rqRows[i].history)
               /\ \A m \in 1..Len(rqRows[i].history) : rqRows'[i].history[m] = rqRows[i].history[m]
    <3>1. rqRows'[i] = rqRows[i] BY <1>5, <1>8, <1>9 DEF Lists!Ids
    <3>2. Len(rqRows[i].history) \in Nat BY <1>0, RowTyping
    <3> QED BY <3>1, <3>2
  <2>2. Len(rqRows') >= Len(rqRows) BY <1>5, <1>8
  <2> QED BY <1>0, <1>5, <1>10, <2>1, <2>2, DetailStands
<1> QED BY <1>10, <1>11, <1>12 DEF ListsInv

\* A row is replaced by one that tells its history, with the same entries and maybe more.
Continues(row, former, count) ==
  LET h == row.history IN
  /\ Len(h) >= Len(former.history) /\ Len(h) <= count + 1
  /\ row.status # "gone" => h[Len(h)].newStatus = row.status
  /\ \A k \in 1..(Len(h) - 1) : h[k + 1].previousStatus = h[k].newStatus
  /\ \A k \in 1..Len(former.history) : h[k] = former.history[k]

\* One row changes: what it was told in its history stays there.
LEMMA RowChanges ==
  ASSUME Lists!ListsAssumption, ListsInv, NEW i \in Lists!Ids, NEW row \in Lists!Rows, NEW new,
         new = [rqRows EXCEPT ![i] = row], rqRows' = new, rqWalk' = Lists!Watched(new), rqDetail' = rqDetail,
         rqMoves' \in 0..MaxMoves, rqMoves' >= rqMoves, Continues(row, rqRows[i], rqMoves')
  PROVE  ListsInv' /\ (Lists!StatusIsExplained => Lists!StatusIsExplained')
<1>0. RowsInv /\ WalkInv /\ DetailInv BY DEF ListsInv
<1>1. /\ new \in Seq(Lists!Rows) /\ Len(new) = Len(rqRows) /\ DOMAIN new = Lists!Ids /\ new[i] = row
      /\ \A k \in Lists!Ids : k # i => new[k] = rqRows[k]
      /\ DOMAIN rqRows = Lists!Ids
  BY <1>0, RowTyping DEF Lists!Ids
<1>2. \A k \in Lists!Ids : Len(rqRows[k].history) \in Nat /\ Len(rqRows[k].history) >= 1
                           /\ Len(rqRows[k].history) <= rqMoves + 1
  BY <1>0, RowTyping DEF RowsInv
<1>3. rqMoves \in Nat /\ rqMoves' \in Nat
  BY <1>0, RowTyping DEF Lists!ListsAssumption
<1>4. Len(row.history) \in Nat BY DEF Lists!Rows
<1>5. RowsInv'
  <2>1. ASSUME NEW k \in DOMAIN new
        PROVE LET h == new[k].history IN
              /\ Len(h) >= 1 /\ Len(h) <= rqMoves' + 1
              /\ new[k].status # "gone" => h[Len(h)].newStatus = new[k].status
              /\ \A n \in 1..(Len(h) - 1) : h[n + 1].previousStatus = h[n].newStatus
    <3>1. CASE k # i
      <4>1. new[k] = rqRows[k] /\ k \in Lists!Ids BY <1>1, <3>1
      <4>2. Len(rqRows[k].history) <= rqMoves' + 1 BY <1>2, <1>3, <4>1
      <4>3. LET h == rqRows[k].history IN
              /\ Len(h) >= 1 /\ (rqRows[k].status # "gone" => h[Len(h)].newStatus = rqRows[k].status)
              /\ \A n \in 1..(Len(h) - 1) : h[n + 1].previousStatus = h[n].newStatus
        BY ONLY <1>0, <4>1 DEF RowsInv
      <4> QED BY ONLY <4>1, <4>2, <4>3
    <3>2. CASE k = i
      <4>1. Len(row.history) >= 1
        <5>1. Len(row.history) >= Len(rqRows[i].history) BY DEF Continues
        <5> QED BY <1>2, <1>4, <5>1
      <4> QED BY <1>1, <3>2, <4>1 DEF Continues
    <3> QED BY <3>1, <3>2
  <2> QED BY <1>1, <2>1 DEF RowsInv, Lists!Ids
<1>6. WalkInv'
  <2>1. i \in Nat BY <1>0, RowTyping
  <2>2. ASSUME NEW filter
    PROVE Lists!Listed(new, filter) \ {i} = Lists!Listed(rqRows, filter) \ {i}
    <3>1. ASSUME NEW k
      PROVE k \in Lists!Listed(new, filter) \ {i} <=> k \in Lists!Listed(rqRows, filter) \ {i}
      <4>1. k \in DOMAIN new <=> k \in DOMAIN rqRows BY <1>1
      <4>2. k \in DOMAIN rqRows /\ k # i => new[k] = rqRows[k] BY <1>1
      <4> QED BY <4>1, <4>2 DEF Lists!Listed
    <3> QED BY <3>1
  <2>3. Len(new) >= Len(rqRows) BY <1>0, <1>1, RowTyping
  <2> QED BY <1>0, <1>1, <2>1, <2>2, <2>3, WalkWatches
<1>7. DetailInv' /\ (Lists!StatusIsExplained => Lists!StatusIsExplained')
  <2>1. ASSUME NEW k \in Lists!Ids
        PROVE  /\ Len(rqRows'[k].history) >= Len(rqRows[k].history)
               /\ \A m \in 1..Len(rqRows[k].history) : rqRows'[k].history[m] = rqRows[k].history[m]
    <3>1. CASE k # i
      <4>1. rqRows'[k] = rqRows[k] BY <1>1, <3>1
      <4> QED BY <1>2, <4>1
    <3>2. CASE k = i
      <4>1. rqRows'[k] = row BY <1>1, <3>2
      <4> QED BY <3>2, <4>1 DEF Continues
    <3> QED BY <3>1, <3>2
  <2>2. Len(rqRows') >= Len(rqRows) BY <1>0, <1>1, RowTyping
  <2> QED BY <1>0, <1>5, <2>1, <2>2, DetailStands
<1> QED BY <1>5, <1>6, <1>7 DEF ListsInv

LEMMA MoveKeeps ==
  ASSUME Lists!ListsAssumption, ListsInv, NEW i \in Lists!Ids, Lists!Move(i)
  PROVE  ListsInv' /\ (Lists!StatusIsExplained => Lists!StatusIsExplained')
<1>0. RowsInv BY DEF ListsInv
<1>1. PICK to \in Statuses :
        Lists!Change([rqRows EXCEPT ![i] = [status |-> to,
                                            history |-> Append(@.history, Lists!Entry(@.status, to))]])
  BY DEF Lists!Move
<1>2. PICK h : h = rqRows[i].history OBVIOUS
<1>3. PICK e : e = Lists!Entry(rqRows[i].status, to) OBVIOUS
<1>4. PICK row : row = [status |-> to, history |-> Append(h, e)] OBVIOUS
<1>5. PICK new : new = [rqRows EXCEPT ![i] = row] OBVIOUS
<1>6. /\ rqRows' = new /\ rqWalk' = Lists!Watched(new) /\ rqDetail' = rqDetail
      /\ rqMoves < MaxMoves /\ rqMoves' = rqMoves + 1 /\ rqRows[i].status # "gone"
  BY <1>1, <1>2, <1>3, <1>4, <1>5 DEF Lists!Change, Lists!Move
<1>7. /\ h \in Seq(Lists!Entries) /\ Len(h) \in Nat /\ Len(h) >= 1 /\ Len(h) <= rqMoves + 1
      /\ h[Len(h)].newStatus = rqRows[i].status /\ rqMoves \in Nat
      /\ \A k \in 1..(Len(h) - 1) : h[k + 1].previousStatus = h[k].newStatus
      /\ rqRows[i].status \in Statuses
  BY <1>0, <1>2, <1>6, RowTyping DEF RowsInv
<1>8. e \in Lists!Entries /\ e.newStatus = to /\ e.previousStatus = rqRows[i].status
  BY <1>3, <1>7 DEF Lists!Entry, Lists!Entries
<1>9. PICK g : g = Append(h, e) OBVIOUS
<1>10. /\ g \in Seq(Lists!Entries) /\ Len(g) = Len(h) + 1
       /\ \A k \in 1..Len(h) : g[k] = h[k]
       /\ g[Len(h) + 1] = e
  BY <1>7, <1>8, <1>9, Appended
<1>11. row \in Lists!Rows /\ row.history = g /\ row.status = to
  BY <1>4, <1>9, <1>10 DEF Lists!Rows
<1>12. Continues(row, rqRows[i], rqMoves')
  <2>1. ASSUME NEW k \in 1..(Len(g) - 1) PROVE g[k + 1].previousStatus = g[k].newStatus
    <3>0. k \in 1..Len(h) BY <1>7, <1>10
    <3>1. CASE k = Len(h)
      <4>1. g[k] = h[Len(h)] /\ g[k + 1] = e BY <1>10, <3>0, <3>1
      <4> QED BY <1>7, <1>8, <4>1
    <3>2. CASE k # Len(h)
      <4>1. k \in 1..(Len(h) - 1) /\ k + 1 \in 1..Len(h) BY <1>7, <3>0, <3>2
      <4>2. g[k] = h[k] /\ g[k + 1] = h[k + 1] BY <1>10, <3>0, <4>1
      <4> QED BY <1>7, <4>1, <4>2
    <3> QED BY <3>1, <3>2
  <2>2. g[Len(g)].newStatus = to BY <1>8, <1>10
  <2>3. Len(g) >= Len(h) /\ Len(g) <= rqMoves' + 1 BY <1>6, <1>7, <1>10
  <2> QED BY <1>2, <1>10, <1>11, <2>1, <2>2, <2>3 DEF Continues
<1>13. rqMoves' \in 0..MaxMoves /\ rqMoves' >= rqMoves BY <1>6, <1>7 DEF Lists!ListsAssumption
<1> QED BY <1>5, <1>6, <1>11, <1>12, <1>13, RowChanges

LEMMA PurgeKeeps ==
  ASSUME Lists!ListsAssumption, ListsInv, NEW i \in Lists!Ids, Lists!Purge(i)
  PROVE  ListsInv' /\ (Lists!StatusIsExplained => Lists!StatusIsExplained')
<1>0. RowsInv BY DEF ListsInv
<1>1. PICK row : row = [rqRows[i] EXCEPT !.status = "gone"] OBVIOUS
<1>2. PICK new : new = [rqRows EXCEPT ![i] = row] OBVIOUS
<1>3. rqRows' = new /\ rqWalk' = Lists!Watched(new) /\ rqDetail' = rqDetail /\ rqMoves' = rqMoves
  BY <1>1, <1>2 DEF Lists!Change, Lists!Purge
<1>4. rqRows[i] \in Lists!Rows BY <1>0, RowTyping
<1>5. row \in Lists!Rows /\ row.history = rqRows[i].history /\ row.status = "gone"
  BY <1>1, <1>4 DEF Lists!Rows
<1>6. /\ rqMoves \in 0..MaxMoves /\ rqMoves \in Nat /\ Len(rqRows[i].history) \in Nat
      /\ Len(rqRows[i].history) <= rqMoves + 1
      /\ LET h == rqRows[i].history IN
           \A k \in 1..(Len(h) - 1) : h[k + 1].previousStatus = h[k].newStatus
  BY <1>0, RowTyping DEF RowsInv
<1>7. Continues(row, rqRows[i], rqMoves')
  <2> DEFINE former == rqRows[i]
             h == former.history
  <2>1. row.history = h /\ row.status = "gone" BY ONLY <1>5
  <2>2. Len(h) \in Nat /\ Len(h) <= rqMoves' + 1
        /\ \A k \in 1..(Len(h) - 1) : h[k + 1].previousStatus = h[k].newStatus
    BY ONLY <1>3, <1>6
  <2>3. former.history = h OBVIOUS
  <2> HIDE DEF h
  <2> HIDE DEF former
  <2>4. Continues(row, former, rqMoves') BY ONLY <2>1, <2>2, <2>3 DEF Continues
  <2> QED BY ONLY <2>4 DEF former
<1>8. rqMoves' \in 0..MaxMoves /\ rqMoves' >= rqMoves BY <1>3, <1>6
<1> QED BY <1>2, <1>3, <1>5, <1>7, <1>8, RowChanges

\* What stands while the readers read.
LEMMA RowsStand ==
  ASSUME rqRows' = rqRows, rqMoves' = rqMoves PROVE RowsInv => RowsInv'
BY DEF RowsInv, Lists!Ids

LEMMA WalkStands ==
  ASSUME rqRows' = rqRows, rqWalk' = rqWalk PROVE WalkInv => WalkInv'
BY DEF WalkInv, Lists!Ids, Lists!MissedOnlyByRaces

LEMMA SameDetail ==
  ASSUME rqRows' = rqRows, rqDetail' = rqDetail
  PROVE  (DetailInv => DetailInv') /\ (Lists!StatusIsExplained => Lists!StatusIsExplained')
BY DEF DetailInv, Lists!Ids, Lists!StatusIsExplained

LEMMA NothingRead ==
  ASSUME rqDetail' = Lists!NoDetail PROVE DetailInv' /\ Lists!StatusIsExplained'
BY NoDetailIsDetail DEF DetailInv, Lists!StatusIsExplained

LEMMA NoWalkLeft ==
  ASSUME Lists!ListsAssumption, rqWalk' = Lists!NoWalk PROVE WalkInv'
BY NoWalkIsWalk DEF WalkInv, Lists!MissedOnlyByRaces

LEMMA OpenListKeeps ==
  ASSUME Lists!ListsAssumption, ListsInv, Lists!OpenList
  PROVE  ListsInv' /\ Lists!StatusIsExplained'
<1>0. RowsInv BY DEF ListsInv
<1>1. PICK filter \in Filters :
        rqWalk' = [Lists!NoWalk EXCEPT !.step = "reading", !.filter = filter, !.here = Lists!Listed(rqRows, filter)]
  BY DEF Lists!OpenList
<1>2. PICK L : L = Lists!Listed(rqRows, filter) OBVIOUS
<1>3. /\ L \subseteq Nat /\ IsFiniteSet(L) /\ L \subseteq Lists!Ids
  BY <1>0, <1>2, ListedIsFinite, RowTyping
<1>4. PICK v : v = [Lists!NoWalk EXCEPT !.step = "reading", !.filter = filter, !.here = L] OBVIOUS
<1>5. Lists!NoWalk \in WalkType /\ Lists!NoWalk.shown = {} BY NoWalkIsWalk DEF Lists!NoWalk
<1>6. /\ v \in WalkType /\ v.page = 1 /\ v.here = L /\ v.read = {} /\ v.left = 0 /\ v.items = {}
      /\ v.shown = {} /\ v.step = "reading" /\ v.filter = filter
  <2>1. v = [step |-> "reading", filter |-> filter, page |-> 1, items |-> {}, total |-> 0,
             read |-> {}, here |-> L, shown |-> {}, left |-> 0, raced |-> 0]
    BY <1>4 DEF Lists!NoWalk
  <2> QED BY <1>3, <2>1 DEF WalkType, Lists!ListsAssumption
<1>7. ListsReading(L, v) BY <1>3, <1>6, ListOpened
<1>8. rqWalk' = v /\ rqRows' = rqRows /\ rqMoves' = rqMoves /\ rqDetail' = Lists!NoDetail
  BY <1>1, <1>2, <1>4 DEF Lists!OpenList
<1>9. WalkInv' BY <1>2, <1>3, <1>6, <1>7, <1>8 DEF WalkInv, Lists!Ids, Lists!MissedOnlyByRaces
<1> QED BY <1>0, <1>8, <1>9, RowsStand, NothingRead DEF ListsInv

LEMMA ReadRowsKeeps ==
  ASSUME Lists!ListsAssumption, ListsInv, Lists!ReadRows
  PROVE  ListsInv' /\ (Lists!StatusIsExplained => Lists!StatusIsExplained')
<1>0. RowsInv /\ WalkInv /\ DetailInv BY DEF ListsInv
<1>1. PICK L : L = Lists!Listed(rqRows, rqWalk.filter) OBVIOUS
<1>2. PICK items : items = {i \in L : Lists!Rank(L, i) \in (rqWalk.page - 1) * PageSize + 1
                                                         .. (rqWalk.page - 1) * PageSize + PageSize}
  OBVIOUS
<1>3. rqWalk \in WalkType /\ rqWalk.step = "reading" /\ "rows" \notin rqWalk.read
  BY <1>0 DEF WalkInv, Lists!ReadRows
<1>4. L \subseteq Nat /\ IsFiniteSet(L) /\ L \subseteq Lists!Ids /\ ListsReading(L, rqWalk)
  BY <1>0, <1>1, <1>3, ListedIsFinite, RowTyping DEF WalkInv
<1>5. PICK v : v = [rqWalk EXCEPT !.read = @ \cup {"rows"}, !.items = items] OBVIOUS
<1>6. rqWalk' = v /\ rqRows' = rqRows /\ rqMoves' = rqMoves /\ rqDetail' = rqDetail
  BY <1>1, <1>2, <1>5 DEF Lists!ReadRows
<1>7. items \subseteq L BY <1>2
<1>8. /\ v \in WalkType /\ v.page = rqWalk.page /\ v.total = rqWalk.total /\ v.shown = rqWalk.shown
      /\ v.here = rqWalk.here /\ v.left = rqWalk.left /\ v.raced = rqWalk.raced
      /\ v.read = rqWalk.read \cup {"rows"} /\ v.items = items /\ v.step = rqWalk.step
      /\ v.filter = rqWalk.filter
  BY <1>3, <1>4, <1>5, <1>7 DEF WalkType
<1>9. ListsReading(L, v) BY <1>2, <1>3, <1>4, <1>8, RowsRead
<1>10. v.here \cup v.shown \cup v.items \subseteq Lists!Ids BY <1>0, <1>4, <1>7, <1>8 DEF WalkInv
<1>11. WalkInv'
  BY <1>1, <1>3, <1>6, <1>8, <1>9, <1>10 DEF WalkInv, Lists!Ids, Lists!MissedOnlyByRaces
<1> QED BY <1>0, <1>6, <1>11, RowsStand, SameDetail DEF ListsInv

LEMMA ReadTotalKeeps ==
  ASSUME Lists!ListsAssumption, ListsInv, Lists!ReadTotal
  PROVE  ListsInv' /\ (Lists!StatusIsExplained => Lists!StatusIsExplained')
<1>0. RowsInv /\ WalkInv /\ DetailInv BY DEF ListsInv
<1>1. PICK L : L = Lists!Listed(rqRows, rqWalk.filter) OBVIOUS
<1>2. rqWalk \in WalkType /\ rqWalk.step = "reading" /\ "total" \notin rqWalk.read
  BY <1>0 DEF WalkInv, Lists!ReadTotal
<1>3. L \subseteq Nat /\ IsFiniteSet(L) /\ ListsReading(L, rqWalk)
  BY <1>0, <1>1, <1>2, ListedIsFinite, RowTyping DEF WalkInv
<1>4. PICK total \in Nat : total = Cardinality(L) BY <1>3, FS_CardinalityType
<1>5. PICK v : v = [rqWalk EXCEPT !.read = @ \cup {"total"}, !.total = total] OBVIOUS
<1>6. rqWalk' = v /\ rqRows' = rqRows /\ rqMoves' = rqMoves /\ rqDetail' = rqDetail
  BY <1>1, <1>4, <1>5, ListsSize DEF Lists!ReadTotal
<1>7. /\ v \in WalkType /\ v.page = rqWalk.page /\ v.items = rqWalk.items /\ v.shown = rqWalk.shown
      /\ v.here = rqWalk.here /\ v.left = rqWalk.left /\ v.raced = rqWalk.raced
      /\ v.read = rqWalk.read \cup {"total"} /\ v.total = total /\ v.step = rqWalk.step
      /\ v.filter = rqWalk.filter
  BY <1>2, <1>5 DEF WalkType
<1>8. ListsReading(L, v) BY <1>2, <1>3, <1>4, <1>7, TotalRead
<1>9. v.here \cup v.shown \cup v.items \subseteq Lists!Ids BY <1>0, <1>7 DEF WalkInv
<1>10. WalkInv'
  BY <1>1, <1>2, <1>6, <1>7, <1>8, <1>9 DEF WalkInv, Lists!Ids, Lists!MissedOnlyByRaces
<1> QED BY <1>0, <1>6, <1>10, RowsStand, SameDetail DEF ListsInv

LEMMA ShowKeeps ==
  ASSUME Lists!ListsAssumption, ListsInv, Lists!Show
  PROVE  ListsInv' /\ (Lists!StatusIsExplained => Lists!StatusIsExplained')
<1>0. RowsInv /\ WalkInv /\ DetailInv BY DEF ListsInv
<1>1. PICK L : L = Lists!Listed(rqRows, rqWalk.filter) OBVIOUS
<1>2. rqWalk \in WalkType /\ rqWalk.read = {"rows", "total"} /\ rqWalk.step = "reading"
  BY <1>0 DEF WalkInv, Lists!Show
<1>3. L \subseteq Nat /\ IsFiniteSet(L) /\ ListsReading(L, rqWalk)
  BY <1>0, <1>1, <1>2, ListedIsFinite, RowTyping DEF WalkInv
<1>4. rqRows' = rqRows /\ rqMoves' = rqMoves /\ rqDetail' = rqDetail BY DEF Lists!Show
<1>5. PICK seen : seen = [rqWalk EXCEPT !.shown = @ \cup rqWalk.items, !.read = {}, !.items = {}, !.total = 0]
  OBVIOUS
<1>6. /\ seen \in WalkType /\ seen.shown = rqWalk.shown \cup rqWalk.items /\ seen.read = {}
      /\ seen.items = {} /\ seen.page = rqWalk.page /\ seen.here = rqWalk.here /\ seen.left = rqWalk.left
      /\ seen.raced = rqWalk.raced /\ seen.filter = rqWalk.filter /\ seen.step = rqWalk.step
  BY <1>2, <1>5 DEF WalkType
<1>7. rqWalk' = IF rqWalk.page < Lists!PageCount(rqWalk.total)
                THEN [seen EXCEPT !.page = Lists!Pagination(@ + 1)] ELSE [seen EXCEPT !.step = "over"]
  BY <1>5 DEF Lists!Show
<1>8. WalkInv'
  <2>0. rqWalk.here \cup rqWalk.shown \cup rqWalk.items \subseteq Lists!Ids BY <1>0 DEF WalkInv
  <2>1. CASE rqWalk.page < Lists!PageCount(rqWalk.total)
    <3>1. PICK page : page = Lists!Pagination(rqWalk.page + 1) OBVIOUS
    <3>2. page \in 1..MaxPage BY <3>1 DEF Lists!Pagination, Lists!ListsAssumption
    <3>3. PICK v : v = [seen EXCEPT !.page = page] OBVIOUS
    <3>4. rqWalk' = v BY <1>6, <1>7, <2>1, <3>1, <3>3
    <3>5. /\ v \in WalkType /\ v.page = page /\ v.items = {} /\ v.shown = rqWalk.shown \cup rqWalk.items
          /\ v.here = rqWalk.here /\ v.left = rqWalk.left /\ v.raced = rqWalk.raced /\ v.read = {}
          /\ v.step = "reading" /\ v.filter = rqWalk.filter
      BY <1>2, <1>6, <3>2, <3>3 DEF WalkType
    <3>6. ListsReading(L, v) BY <1>2, <1>3, <3>1, <3>5, NextPage
    <3> QED BY <1>1, <1>4, <2>0, <3>4, <3>5, <3>6 DEF WalkInv, Lists!Ids, Lists!MissedOnlyByRaces
  <2>2. CASE ~(rqWalk.page < Lists!PageCount(rqWalk.total))
    <3>1. PICK v : v = [seen EXCEPT !.step = "over"] OBVIOUS
    <3>2. rqWalk' = v BY <1>7, <2>2, <3>1
    <3>3. /\ v \in WalkType /\ v.items = {} /\ v.shown = rqWalk.shown \cup rqWalk.items
          /\ v.here = rqWalk.here /\ v.left = rqWalk.left /\ v.raced = rqWalk.raced /\ v.read = {}
          /\ v.step = "over"
      BY <1>6, <3>1 DEF WalkType
    <3>4. rqWalk.page \in Nat /\ rqWalk.page >= 1 /\ rqWalk.total \in Nat
      BY <1>2 DEF WalkType, Lists!ListsAssumption
    <3>5. rqWalk.total <= rqWalk.page * PageSize BY <2>2, <3>4, LastPage
    <3>6. Cardinality(rqWalk.here \ Seen(rqWalk)) <= rqWalk.left + rqWalk.raced
      BY <1>2, <1>3, <3>5 DEF ListsReading
    <3>7. Lists!MissedOnlyByRaces'
      BY <3>2, <3>3, <3>6, ListsSize DEF Lists!MissedOnlyByRaces, Seen
    <3> QED BY <1>4, <2>0, <3>2, <3>3, <3>7 DEF WalkInv, Lists!Ids
  <2> QED BY <2>1, <2>2
<1> QED BY <1>0, <1>4, <1>8, RowsStand, SameDetail DEF ListsInv

LEMMA OpenDetailKeeps ==
  ASSUME Lists!ListsAssumption, ListsInv, NEW i \in Lists!Ids, Lists!OpenDetail(i)
  PROVE  ListsInv' /\ Lists!StatusIsExplained'
<1>0. RowsInv BY DEF ListsInv
<1>1. PICK reader \in {"client", "office"} :
        rqDetail' = [Lists!NoDetail EXCEPT !.reader = reader, !.request = i, !.reads = Lists!ReadOrder]
  BY DEF Lists!OpenDetail
<1>2. rqDetail' = [reader |-> reader, request |-> i, reads |-> <<"row", "history">>,
                   status |-> Lists!NotRead, history |-> <<>>]
  BY <1>1 DEF Lists!NoDetail, Lists!ReadOrder
<1>3. i \in Nat BY <1>0, RowTyping
<1>4. rqDetail' \in DetailType /\ rqDetail'.request = i /\ rqDetail'.reads = <<"row", "history">>
      /\ rqDetail'.status = Lists!NotRead
  BY <1>2, <1>3 DEF DetailType
<1>5. rqRows' = rqRows /\ rqMoves' = rqMoves /\ rqWalk' = Lists!NoWalk BY DEF Lists!OpenDetail
<1>6. DetailInv' /\ Lists!StatusIsExplained'
  BY <1>4, <1>5 DEF DetailInv, Lists!StatusIsExplained, Lists!Ids
<1> QED BY <1>0, <1>5, <1>6, RowsStand, NoWalkLeft DEF ListsInv

LEMMA ReadRowKeeps ==
  ASSUME Lists!ListsAssumption, ListsInv, Lists!ReadRow
  PROVE  ListsInv' /\ Lists!StatusIsExplained'
<1>0. RowsInv /\ WalkInv /\ DetailInv BY DEF ListsInv
<1>1. rqRows' = rqRows /\ rqMoves' = rqMoves /\ rqWalk' = rqWalk BY DEF Lists!ReadRow
<1>2. rqDetail.reads # <<>> /\ Head(rqDetail.reads) = "row" BY DEF Lists!ReadRow
<1>3. rqDetail \in DetailType /\ rqDetail.request \in Lists!Ids BY <1>0, <1>2 DEF DetailInv
<1>4. rqDetail.reads = <<"row", "history">> BY <1>2, <1>3 DEF DetailType
<1>5. PICK row : row = rqRows[rqDetail.request] OBVIOUS
<1>6. CASE row.status = "gone"
  <2>1. rqDetail' = Lists!NoDetail BY <1>5, <1>6 DEF Lists!ReadRow
  <2> QED BY <1>0, <1>1, <2>1, RowsStand, WalkStands, NothingRead DEF ListsInv
<1>7. CASE row.status # "gone"
  <2>1. Tail(rqDetail.reads) = <<"history">> BY <1>4
  <2>2. rqDetail' = [rqDetail EXCEPT !.reads = <<"history">>, !.status = row.status]
    BY <1>5, <1>7, <2>1 DEF Lists!ReadRow
  <2>3. row.status \in Statuses BY <1>0, <1>3, <1>5, <1>7, RowTyping
  <2>4. rqDetail' \in DetailType /\ rqDetail'.reads = <<"history">> /\ rqDetail'.status = row.status
        /\ rqDetail'.request = rqDetail.request
    BY <1>3, <2>2, <2>3 DEF DetailType
  <2>5. PICK h : h = row.history OBVIOUS
  <2>6. Len(h) \in Nat /\ Len(h) >= 1 /\ h[Len(h)].newStatus = row.status
    BY <1>0, <1>3, <1>5, <1>7, <2>5, RowTyping DEF RowsInv
  <2>7. Len(h) \in 1..Len(h) BY <2>6
  <2>8. DetailInv' /\ Lists!StatusIsExplained'
    BY <1>1, <1>3, <1>5, <2>4, <2>5, <2>6, <2>7 DEF DetailInv, Lists!StatusIsExplained, Lists!Ids
  <2> QED BY <1>0, <1>1, <2>8, RowsStand, WalkStands DEF ListsInv
<1> QED BY <1>6, <1>7

\* A part of a sequence.
LEMMA PartOf ==
  ASSUME NEW S, NEW s \in Seq(S), NEW m \in 1..(Len(s) + 1), NEW n \in Nat, n <= Len(s)
  PROVE  /\ SubSeq(s, m, n) \in Seq(S)
         /\ Len(SubSeq(s, m, n)) = IF m <= n THEN n - m + 1 ELSE 0
         /\ \A k \in 1..Len(SubSeq(s, m, n)) : SubSeq(s, m, n)[k] = s[m + k - 1]
<1>1. Len(s) \in Nat /\ m \in Nat /\ m >= 1 OBVIOUS
<1>2. \A k \in m..n : s[k] \in S BY <1>1
<1>3. Len(SubSeq(s, m, n)) = IF m <= n THEN n - m + 1 ELSE 0 BY <1>1, SubSeqProperties
<1>4. SubSeq(s, m, n) \in Seq(S) BY <1>1, SubSeqProperties
<1>5. \A k \in 1..(n - m + 1) : SubSeq(s, m, n)[k] = s[m + k - 1] BY <1>1, SubSeqProperties
<1>6. \A k \in 1..Len(SubSeq(s, m, n)) : k \in 1..(n - m + 1) BY <1>1, <1>3
<1> QED BY <1>3, <1>4, <1>5, <1>6

LEMMA ReadHistoryKeeps ==
  ASSUME Lists!ListsAssumption, ListsInv, Lists!ReadHistory
  PROVE  ListsInv' /\ (Lists!HistoryReaches => Lists!StatusIsExplained')
<1>0. RowsInv /\ WalkInv /\ DetailInv BY DEF ListsInv
<1>1. rqRows' = rqRows /\ rqMoves' = rqMoves /\ rqWalk' = rqWalk BY DEF Lists!ReadHistory
<1>2. rqDetail.reads # <<>> /\ Head(rqDetail.reads) = "history" BY DEF Lists!ReadHistory
<1>3. rqDetail \in DetailType /\ rqDetail.request \in Lists!Ids BY <1>0, <1>2 DEF DetailInv
<1>4. rqDetail.reads = <<"history">> /\ Tail(rqDetail.reads) = <<>>
  <2>1. rqDetail.reads \in {<<>>, <<"history">>, <<"row", "history">>} BY <1>3 DEF DetailType
  <2>2. Head(<<"row", "history">>) # "history" OBVIOUS
  <2>3. rqDetail.reads = <<"history">> BY <1>2, <2>1, <2>2
  <2> QED BY <2>3
<1>5. PICK h : h = rqRows[rqDetail.request].history OBVIOUS
<1>6. PICK beyond : beyond = IF Len(h) > HistoryLimit THEN Len(h) - HistoryLimit ELSE 0 OBVIOUS
<1>7. PICK part : part = IF rqDetail.reader = "client" THEN SubSeq(h, beyond + 1, Len(h))
                         ELSE SubSeq(h, 1, Len(h) - beyond)
  OBVIOUS
<1>8. rqDetail' = [rqDetail EXCEPT !.reads = <<>>, !.history = part]
  BY <1>4, <1>5, <1>6, <1>7 DEF Lists!ReadHistory
<1>9. /\ h \in Seq(Lists!Entries) /\ Len(h) \in Nat /\ Len(h) >= 1 /\ Len(h) <= rqMoves + 1 /\ rqMoves \in Nat
      /\ \A k \in 1..(Len(h) - 1) : h[k + 1].previousStatus = h[k].newStatus
  BY <1>0, <1>3, <1>5, RowTyping DEF RowsInv
<1>10. HistoryLimit \in Nat /\ HistoryLimit >= 1 /\ MaxMoves \in Nat BY DEF Lists!ListsAssumption
<1>11. beyond \in Nat /\ beyond <= Len(h) BY <1>6, <1>9, <1>10
<1>12. beyond + 1 \in 1..(Len(h) + 1) /\ 1 \in 1..(Len(h) + 1) /\ Len(h) - beyond \in Nat
       /\ Len(h) - beyond <= Len(h) /\ Len(h) <= Len(h)
  BY <1>9, <1>11
<1>13. part \in Seq(Lists!Entries)
  <2>1. SubSeq(h, beyond + 1, Len(h)) \in Seq(Lists!Entries) BY <1>9, <1>12, PartOf
  <2>2. SubSeq(h, 1, Len(h) - beyond) \in Seq(Lists!Entries) BY <1>9, <1>12, PartOf
  <2> QED BY <1>7, <2>1, <2>2
<1>14. /\ rqDetail' \in DetailType /\ rqDetail'.reads = <<>> /\ rqDetail'.status = rqDetail.status
       /\ rqDetail'.request = rqDetail.request /\ rqDetail'.history = part /\ rqDetail'.reader = rqDetail.reader
  BY <1>3, <1>8, <1>13 DEF DetailType
<1>15. DetailInv' BY <1>1, <1>3, <1>14 DEF DetailInv, Lists!Ids
<1>16. ASSUME Lists!HistoryReaches PROVE Lists!StatusIsExplained'
  <2>1. PICK m \in 1..Len(h) : h[m].newStatus = rqDetail.status BY <1>0, <1>4, <1>5 DEF DetailInv
  <2>2. rqMoves <= MaxMoves BY <1>0, <1>10 DEF RowsInv
  <2>3. Len(h) <= HistoryLimit + 1 BY <1>9, <1>10, <1>16, <2>2 DEF Lists!HistoryReaches
  <2>4. beyond \in {0, 1} /\ (beyond = 1 <=> Len(h) > HistoryLimit) BY <1>6, <1>9, <1>10, <2>3
  <2>5. CASE beyond = 0
    <3>1. part = SubSeq(h, 1, Len(h))
      <4>1. beyond + 1 = 1 /\ Len(h) - beyond = Len(h) BY <1>9, <2>5
      <4> QED BY <1>7, <4>1
    <3>2. Len(part) = Len(h) /\ part[m] = h[m]
      <4>1. Len(part) = IF 1 <= Len(h) THEN Len(h) - 1 + 1 ELSE 0 BY <1>9, <1>12, <3>1, PartOf
      <4>2. \A k \in 1..Len(part) : part[k] = h[1 + k - 1] BY <1>9, <1>12, <3>1, PartOf
      <4>3. Len(part) = Len(h) BY <1>9, <4>1
      <4>4. 1 + m - 1 = m OBVIOUS
      <4> QED BY <4>2, <4>3, <4>4
    <3> QED BY <1>14, <2>1, <3>2 DEF Lists!StatusIsExplained
  <2>6. CASE beyond = 1 /\ rqDetail.reader = "client"
    <3>1. PICK two \in Nat : two = 2 OBVIOUS
    <3>2. part = SubSeq(h, two, Len(h)) BY <1>7, <2>6, <3>1
    <3>3. Len(h) >= 2 /\ two \in 1..(Len(h) + 1) BY <1>9, <1>10, <2>4, <2>6, <3>1
    <3>4. Len(part) = (IF two <= Len(h) THEN Len(h) - two + 1 ELSE 0)
          /\ \A k \in 1..Len(part) : part[k] = h[two + k - 1]
      BY <1>9, <1>12, <3>2, <3>3, PartOf
    <3>5. Len(part) = Len(h) - 1 BY <1>9, <3>1, <3>3, <3>4
    <3>6. \A k \in 1..(Len(h) - 1) : part[k] = h[k + 1]
      <4> SUFFICES ASSUME NEW k \in 1..(Len(h) - 1) PROVE part[k] = h[k + 1]
        OBVIOUS
      <4>1. two + k - 1 = k + 1 BY <3>1
      <4> QED BY <3>4, <3>5, <4>1
    <3>7. CASE m = 1
      <4>1. PICK one \in 1..(Len(h) - 1) : one = 1 BY <1>9, <3>3
      <4>2. part[one] = h[one + 1] /\ h[one + 1].previousStatus = h[one].newStatus BY <1>9, <3>6
      <4>3. part[one].previousStatus = rqDetail.status BY <2>1, <3>7, <4>1, <4>2
      <4> QED BY <1>14, <3>5, <4>3 DEF Lists!StatusIsExplained
    <3>8. CASE m # 1
      <4>1. PICK k \in 1..(Len(h) - 1) : k + 1 = m
        <5>1. m - 1 \in 1..(Len(h) - 1) /\ (m - 1) + 1 = m BY <1>9, <3>8
        <5> QED BY <5>1
      <4>2. part[k].newStatus = rqDetail.status BY <2>1, <3>6, <4>1
      <4> QED BY <1>14, <3>5, <4>2 DEF Lists!StatusIsExplained
    <3> QED BY <3>7, <3>8
  <2>7. CASE beyond = 1 /\ rqDetail.reader # "client"
    <3>1. ~(Len(rqRows'[rqDetail'.request].history) <= HistoryLimit)
      BY <1>1, <1>5, <1>9, <1>10, <1>14, <2>4, <2>7
    <3> QED BY <1>14, <2>7, <3>1 DEF Lists!StatusIsExplained
  <2> QED BY <2>4, <2>5, <2>6, <2>7
<1> QED BY <1>0, <1>1, <1>15, <1>16, RowsStand, WalkStands DEF ListsInv

\* Every step keeps the invariant, and the explained status too when the history that is read
\* reaches back to the first entry that can be of the status.
LEMMA ListsStep ==
  ASSUME Lists!ListsAssumption
  PROVE  ListsInv /\ [Lists!Next]_(Lists!vars) =>
           ListsInv' /\ (Lists!HistoryReaches /\ Lists!StatusIsExplained => Lists!StatusIsExplained')
<1> SUFFICES ASSUME ListsInv, [Lists!Next]_(Lists!vars)
             PROVE  ListsInv' /\ (Lists!HistoryReaches /\ Lists!StatusIsExplained => Lists!StatusIsExplained')
  OBVIOUS
<1>1. CASE Lists!Create BY <1>1, CreateKeeps
<1>2. ASSUME NEW i \in Lists!Ids, Lists!Move(i)
  PROVE ListsInv' /\ (Lists!StatusIsExplained => Lists!StatusIsExplained')
  BY <1>2, MoveKeeps
<1>3. ASSUME NEW i \in Lists!Ids, Lists!Purge(i)
  PROVE ListsInv' /\ (Lists!StatusIsExplained => Lists!StatusIsExplained')
  BY <1>3, PurgeKeeps
<1>4. CASE Lists!OpenList BY <1>4, OpenListKeeps
<1>5. CASE Lists!ReadRows BY <1>5, ReadRowsKeeps
<1>6. CASE Lists!ReadTotal BY <1>6, ReadTotalKeeps
<1>7. CASE Lists!Show BY <1>7, ShowKeeps
<1>8. ASSUME NEW i \in Lists!Ids, Lists!OpenDetail(i) PROVE ListsInv' /\ Lists!StatusIsExplained'
  BY <1>8, OpenDetailKeeps
<1>9. CASE Lists!ReadRow BY <1>9, ReadRowKeeps
<1>10. CASE Lists!ReadHistory BY <1>10, ReadHistoryKeeps
<1>11. CASE UNCHANGED Lists!vars
  <2>1. rqRows' = rqRows /\ rqMoves' = rqMoves /\ rqWalk' = rqWalk /\ rqDetail' = rqDetail
    BY <1>11 DEF Lists!vars
  <2> QED BY <2>1, RowsStand, WalkStands, SameDetail DEF ListsInv
<1> QED BY <1>1, <1>2, <1>3, <1>4, <1>5, <1>6, <1>7, <1>8, <1>9, <1>10, <1>11 DEF Lists!Next

\* What the invariant is for.
LEMMA ListsSafe == ASSUME Lists!ListsAssumption
  PROVE ListsInv => Lists!TypeOK /\ Lists!MissedOnlyByRaces
<1> SUFFICES ASSUME ListsInv PROVE Lists!TypeOK /\ Lists!MissedOnlyByRaces
  OBVIOUS
<1>1. rqRows \in Seq(Lists!Rows) /\ rqMoves \in 0..MaxMoves BY DEF ListsInv, RowsInv
<1>2. rqWalk \in WalkType /\ rqWalk.here \cup rqWalk.shown \cup rqWalk.items \subseteq Lists!Ids /\ Lists!MissedOnlyByRaces
  BY DEF ListsInv, WalkInv
<1>3. rqDetail \in DetailType BY DEF ListsInv, DetailInv
<1>4. rqWalk.step \in {"closed", "reading", "over"} /\ rqWalk.page \in 1..MaxPage
  BY <1>2 DEF WalkType
<1>5. rqDetail.reader \in {"client", "office"} /\ rqDetail.status \in Statuses \cup {Lists!NotRead}
      /\ rqDetail.history \in Seq(Lists!Entries)
  BY <1>3 DEF DetailType
<1> QED BY <1>1, <1>2, <1>4, <1>5 DEF Lists!TypeOK

-----------------------------------------------------------------------------
(* The pages of a summary (SummaryPages), for texts and tables of any      *)
(* length.                                                                 *)

-----------------------------------------------------------------------------
(* Instructions that keep a page readable. *)

PageHeight == Sheets!BottomLimit - Sheets!Top

\* Lengths of a page, in thousandths of a point.
LEMMA Lengths ==
  /\ Sheets!Top = 54000 /\ Sheets!BottomLimit = 779890 /\ Sheets!FooterTop = 787890 /\ PageHeight = 725890
  /\ Sheets!LineHeight.heading = 16560 /\ Sheets!LineHeight.body = 13110 /\ Sheets!LineHeight.small = 11730
  /\ Sheets!HeaderHeight = 19730
BY DEF Sheets!Top, Sheets!BottomLimit, Sheets!FooterTop, PageHeight, Sheets!LineHeight,
    Sheets!HeaderHeight

Instructions ==
  [op : {"move", "ensure", "draw", "row"},
   what : {"space", "line", "title", "pair", "banner", "header", "row"},
   need : Nat, height : Nat, after : Nat]

\* What is drawn fits a page, in the space that is asked for it, and the cursor goes
\* below it; a row fits one under the header of its table.
FitsAPage(x) ==
  /\ x \in Instructions
  /\ x.op = "draw" => /\ x.what \in {"line", "title", "pair", "banner", "header"}
                      /\ x.need <= PageHeight /\ x.height <= x.need /\ x.height <= x.after
  /\ x.op = "row" => /\ x.what = "row" /\ Sheets!HeaderHeight + x.need <= PageHeight
                     /\ x.height = x.need /\ x.height = x.after

\* Space is made sure of for something that is drawn after a move, and is never too long
\* for a page.
LeadsToDrawing(move, draw) ==
  move.op = "move" /\ draw.op = "draw" /\ move.after + draw.need <= PageHeight

\* The header of a table or a row of it.
OfTable(x) == x.op = "row" \/ (x.op = "draw" /\ x.what = "header")

\* What is written never asks for more than a page, and a title goes with what follows it.
Script(s) ==
  /\ s \in Seq(Instructions)
  /\ \A i \in 1..Len(s) :
       /\ FitsAPage(s[i])
       /\ s[i].op = "ensure" => i + 2 <= Len(s) /\ LeadsToDrawing(s[i + 1], s[i + 2])
  /\ \A i \in 1..(Len(s) - 1) : s[i + 1].op = "row" => OfTable(s[i])

\* It does not start in the middle of a table.
WholeScript(s) == Script(s) /\ (s # <<>> => s[1].op # "row")

LEMMA ScriptOfRest ==
  ASSUME NEW s, Script(s), s # <<>>
  PROVE  /\ Script(Tail(s)) /\ Len(s) \in Nat /\ Len(s) >= 1 /\ Head(s) = s[1]
         /\ Len(Tail(s)) = Len(s) - 1
         /\ \A i \in 1..(Len(s) - 1) : Tail(s)[i] = s[i + 1]
         /\ FitsAPage(s[1]) /\ s[1] \in Instructions
<1>1. s \in Seq(Instructions) BY DEF Script
<1>2. PICK t : t = Tail(s) OBVIOUS
<1>3. /\ t \in Seq(Instructions) /\ Len(s) \in Nat /\ Len(s) >= 1 /\ Head(s) = s[1]
      /\ Len(t) = Len(s) - 1 /\ \A i \in 1..(Len(s) - 1) : t[i] = s[i + 1]
  BY <1>1, <1>2
<1>4. ASSUME NEW i \in 1..Len(t)
      PROVE  /\ FitsAPage(t[i])
             /\ t[i].op = "ensure" => i + 2 <= Len(t) /\ LeadsToDrawing(t[i + 1], t[i + 2])
  <2>1. i \in 1..(Len(s) - 1) /\ i + 1 \in 1..Len(s) /\ t[i] = s[i + 1] BY <1>3
  <2>2. FitsAPage(t[i]) BY <2>1 DEF Script
  <2>3. ASSUME t[i].op = "ensure" PROVE i + 2 <= Len(t) /\ LeadsToDrawing(t[i + 1], t[i + 2])
    <3>1. (i + 1) + 2 <= Len(s) /\ LeadsToDrawing(s[(i + 1) + 1], s[(i + 1) + 2])
      BY <2>1, <2>3 DEF Script
    <3>2. i + 1 \in 1..(Len(s) - 1) /\ i + 2 \in 1..(Len(s) - 1) /\ i + 2 <= Len(t)
          /\ (i + 1) + 1 = i + 2 /\ (i + 1) + 2 = (i + 2) + 1
      BY <1>3, <3>1
    <3>3. t[i + 1] = s[(i + 1) + 1] /\ t[i + 2] = s[(i + 2) + 1] BY <1>3, <3>2
    <3> QED BY <3>1, <3>2, <3>3
  <2> QED BY <2>2, <2>3
<1>5. ASSUME NEW i \in 1..(Len(t) - 1), t[i + 1].op = "row" PROVE OfTable(t[i])
  <2>1. i \in 1..(Len(s) - 1) /\ i + 1 \in 1..(Len(s) - 1) BY <1>3
  <2>2. t[i] = s[i + 1] /\ t[i + 1] = s[(i + 1) + 1] BY <1>3, <2>1
  <2> QED BY <1>5, <2>1, <2>2 DEF Script
<1>6. Script(t) BY <1>3, <1>4, <1>5 DEF Script
<1>7. FitsAPage(s[1]) /\ s[1] \in Instructions BY <1>3 DEF Script, FitsAPage
<1> QED BY <1>2, <1>3, <1>6, <1>7

\* Scripts one after another are a script.
LEMMA ScriptsJoin ==
  ASSUME NEW s, WholeScript(s), NEW t, WholeScript(t)
  PROVE  /\ WholeScript(s \o t) /\ Len(s \o t) = Len(s) + Len(t) /\ Len(s) \in Nat /\ Len(t) \in Nat
         /\ \A i \in 1..Len(s) : (s \o t)[i] = s[i]
<1>1. s \in Seq(Instructions) /\ t \in Seq(Instructions) BY DEF WholeScript, Script
<1>2. PICK u : u = s \o t OBVIOUS
<1>3. /\ u \in Seq(Instructions) /\ Len(u) = Len(s) + Len(t) /\ Len(s) \in Nat /\ Len(t) \in Nat
      /\ \A i \in 1..Len(s) : u[i] = s[i]
      /\ \A i \in 1..Len(t) : u[Len(s) + i] = t[i]
  BY <1>1, <1>2
<1>4. ASSUME NEW i \in 1..Len(u)
      PROVE  /\ FitsAPage(u[i])
             /\ u[i].op = "ensure" => i + 2 <= Len(u) /\ LeadsToDrawing(u[i + 1], u[i + 2])
  <2>1. CASE i \in 1..Len(s)
    <3>1. u[i] = s[i] /\ FitsAPage(s[i]) BY <1>3, <2>1 DEF WholeScript, Script
    <3>2. ASSUME s[i].op = "ensure" PROVE i + 2 <= Len(u) /\ LeadsToDrawing(u[i + 1], u[i + 2])
      <4>1. i + 2 <= Len(s) /\ LeadsToDrawing(s[i + 1], s[i + 2])
        BY <2>1, <3>2 DEF WholeScript, Script
      <4>2. i + 1 \in 1..Len(s) /\ i + 2 \in 1..Len(s) /\ i + 2 <= Len(u) BY <1>3, <4>1
      <4> QED BY <1>3, <4>1, <4>2
    <3> QED BY <3>1, <3>2
  <2>2. CASE i \notin 1..Len(s)
    <3>1. PICK k \in 1..Len(t) : i = Len(s) + k
      <4>1. i - Len(s) \in 1..Len(t) /\ i = Len(s) + (i - Len(s)) BY <1>3, <2>2
      <4> QED BY <4>1
    <3>2. u[i] = t[k] /\ FitsAPage(t[k]) BY <1>3, <3>1 DEF WholeScript, Script
    <3>3. ASSUME t[k].op = "ensure" PROVE i + 2 <= Len(u) /\ LeadsToDrawing(u[i + 1], u[i + 2])
      <4>1. k + 2 <= Len(t) /\ LeadsToDrawing(t[k + 1], t[k + 2]) BY <3>3 DEF WholeScript, Script
      <4>2. k + 1 \in 1..Len(t) /\ k + 2 \in 1..Len(t) /\ i + 2 <= Len(u)
            /\ i + 1 = Len(s) + (k + 1) /\ i + 2 = Len(s) + (k + 2)
        BY <1>3, <3>1, <4>1
      <4> QED BY <1>3, <4>1, <4>2
    <3> QED BY <3>2, <3>3
  <2> QED BY <2>1, <2>2
<1>5. ASSUME NEW i \in 1..(Len(u) - 1), u[i + 1].op = "row" PROVE OfTable(u[i])
  <2>1. CASE i \in 1..(Len(s) - 1)
    <3>1. i \in 1..Len(s) /\ i + 1 \in 1..Len(s) BY <1>3, <2>1
    <3>2. u[i] = s[i] /\ u[i + 1] = s[i + 1] BY <1>3, <3>1
    <3> QED BY <1>5, <2>1, <3>2 DEF WholeScript, Script
  <2>2. CASE i = Len(s)
    <3>1. PICK one \in 1..Len(t) : one = 1 BY <1>3, <2>2
    <3>2. u[Len(s) + one] = t[one] BY <1>3
    <3>3. u[i + 1] = t[1] /\ t # <<>> BY <1>1, <2>2, <3>1, <3>2
    <3> QED BY <1>5, <3>3 DEF WholeScript
  <2>3. CASE i \notin 1..(Len(s) - 1) /\ i # Len(s)
    <3>1. PICK k \in 1..(Len(t) - 1) : i = Len(s) + k
      <4>1. i - Len(s) \in 1..(Len(t) - 1) /\ i = Len(s) + (i - Len(s)) BY <1>3, <2>3
      <4> QED BY <4>1
    <3>2. k \in 1..Len(t) /\ k + 1 \in 1..Len(t) /\ i + 1 = Len(s) + (k + 1) BY <1>3, <3>1
    <3>3. u[i] = t[k] /\ u[i + 1] = t[k + 1] BY <1>3, <3>1, <3>2
    <3> QED BY <1>5, <3>3 DEF WholeScript, Script
  <2> QED BY <2>1, <2>2, <2>3
<1>6. u # <<>> => u[1].op # "row"
  <2>1. CASE s = <<>>
    <3>1. u = t BY <1>1, <1>2, <2>1
    <3> QED BY <3>1 DEF WholeScript
  <2>2. CASE s # <<>>
    <3>1. PICK one \in 1..Len(s) : one = 1 BY <1>1, <2>2
    <3>2. u[one] = s[one] BY <1>3
    <3> QED BY <2>2, <3>1, <3>2 DEF WholeScript
  <2> QED BY <2>1, <2>2
<1>7. WholeScript(u) BY <1>3, <1>4, <1>5, <1>6 DEF WholeScript, Script
<1> QED BY <1>2, <1>3, <1>7

-----------------------------------------------------------------------------
(* The template. *)

\* Instructions that come anywhere, as neither ensureSpace nor a row does.
Plain(x) == FitsAPage(x) /\ x.op \in {"move", "draw"}

LEMMA PlainScript ==
  ASSUME NEW s, s \in Seq(Instructions), \A i \in 1..Len(s) : Plain(s[i])
  PROVE  WholeScript(s)
<1>1. Len(s) \in Nat OBVIOUS
<1>2. ASSUME NEW i \in 1..(Len(s) - 1) PROVE s[i + 1].op # "row"
  <2>1. i + 1 \in 1..Len(s) BY <1>1
  <2> QED BY <2>1 DEF Plain
<1>3. s # <<>> => 1 \in 1..Len(s) BY <1>1
<1> QED BY <1>2, <1>3 DEF WholeScript, Script, Plain

LEMMA MoveIsPlain == ASSUME NEW n \in Nat
  PROVE Plain(Sheets!MoveDown(n)) /\ Sheets!MoveDown(n) \in Instructions
BY DEF Sheets!MoveDown, Sheets!Instruction, Instructions, Plain, FitsAPage

LEMMA DrawingIsPlain ==
  ASSUME NEW what \in {"line", "title", "pair", "banner", "header"}, NEW need \in Nat, NEW height \in Nat,
         NEW after \in Nat, need <= PageHeight, height <= need, height <= after
  PROVE  Plain(Sheets!Drawing(what, need, height, after)) /\ Sheets!Drawing(what, need, height, after) \in Instructions
BY DEF Sheets!Drawing, Sheets!Instruction, Instructions, Plain, FitsAPage

LEMMA TimesIsScript ==
  ASSUME NEW n \in Nat, NEW x, Plain(x) PROVE WholeScript(Sheets!Times(n, x))
<1>1. x \in Instructions BY DEF Plain, FitsAPage
<1>2. PICK s : s = Sheets!Times(n, x) OBVIOUS
<1>3. s \in Seq(Instructions) /\ Len(s) = n /\ \A i \in 1..n : s[i] = x
  BY <1>1, <1>2 DEF Sheets!Times
<1>4. WholeScript(s) BY <1>3, PlainScript
<1> QED BY <1>2, <1>4

LEMMA LineIsPlain ==
  ASSUME NEW what \in {"line", "title"}, NEW size \in {"heading", "body", "small"}
  PROVE  Plain(Sheets!TextLine(what, size)) /\ Sheets!TextLine(what, size) \in Instructions
<1>1. PICK h \in Nat : h = Sheets!LineHeight[size] /\ h <= PageHeight
  <2>1. Sheets!LineHeight[size] \in Nat /\ Sheets!LineHeight[size] <= PageHeight
    <3>1. Sheets!LineHeight["heading"] = 16560 /\ Sheets!LineHeight["body"] = 13110 /\ Sheets!LineHeight["small"] = 11730
          /\ PageHeight = 725890
      BY Lengths
    <3> QED BY <3>1
  <2> QED BY <2>1
<1>2. Sheets!TextLine(what, size) = Sheets!Drawing(what, h, h, h) BY <1>1 DEF Sheets!TextLine
<1>3. h <= h BY <1>1
<1>4. Plain(Sheets!Drawing(what, h, h, h)) /\ Sheets!Drawing(what, h, h, h) \in Instructions
  BY <1>1, <1>3, DrawingIsPlain
<1> QED BY <1>2, <1>4

LEMMA TextIsScript ==
  ASSUME NEW size \in {"heading", "body", "small"}, NEW lines \in Nat
  PROVE  WholeScript(Sheets!Text("line", size, lines))
<1>1. PICK what \in {"line", "title"} : what = "line" OBVIOUS
<1>2. Plain(Sheets!TextLine(what, size)) BY LineIsPlain
<1> QED BY <1>1, <1>2, TimesIsScript DEF Sheets!Text

LEMMA PairsAreScript ==
  ASSUME Sheets!SheetsAssumption, NEW lines \in FieldLines
  PROVE  WholeScript(Sheets!Times(2, Sheets!FieldPair(lines)))
<1>1. PICK b \in Nat : b = Sheets!LineHeight.body BY Lengths
<1>2. lines \in Nat BY DEF Sheets!SheetsAssumption
<1>3. PICK h \in Nat : h = lines * b BY <1>1, <1>2
<1>4. 11730 + h + 6000 <= PageHeight
  <2>1. Sheets!LineHeight.small + lines * Sheets!LineHeight.body + 6000 <= Sheets!BottomLimit - Sheets!Top
    BY DEF Sheets!SheetsAssumption
  <2> QED BY <1>1, <1>3, <2>1, Lengths DEF PageHeight
<1>5. PICK height \in Nat, need \in Nat, after \in Nat :
        height = 11730 + h /\ need = height + 6000 /\ after = height + 8000
  BY <1>3
<1>6. Sheets!FieldPair(lines) = Sheets!Drawing("pair", need, height, after)
  BY <1>1, <1>3, <1>5, Lengths DEF Sheets!FieldPair
<1>7. need <= PageHeight /\ height <= need /\ height <= after BY <1>4, <1>5
<1>8. PICK what \in {"line", "title", "pair", "banner", "header"} : what = "pair" OBVIOUS
<1>9. Plain(Sheets!Drawing(what, need, height, after)) BY <1>7, DrawingIsPlain
<1>10. PICK two \in Nat : two = 2 OBVIOUS
<1>11. WholeScript(Sheets!Times(two, Sheets!Drawing(what, need, height, after)))
  BY <1>9, TimesIsScript
<1> QED BY <1>6, <1>8, <1>10, <1>11

LEMMA BannerIsPlain == Plain(Sheets!Banner) /\ Sheets!Banner \in Instructions /\ Sheets!Banner.op = "draw" /\ Sheets!Banner.need = 34000
<1>1. PICK what \in {"line", "title", "pair", "banner", "header"} : what = "banner" OBVIOUS
<1>2. PICK need \in Nat, height \in Nat, after \in Nat : need = 34000 /\ height = 26000 /\ after = 36000
  OBVIOUS
<1>3. need <= PageHeight /\ height <= need /\ height <= after BY <1>2, Lengths
<1>4. Plain(Sheets!Drawing(what, need, height, after)) /\ Sheets!Drawing(what, need, height, after) \in Instructions
  BY <1>3, DrawingIsPlain
<1>5. Sheets!Banner = Sheets!Drawing(what, need, height, after) BY <1>1, <1>2 DEF Sheets!Banner
<1> QED BY <1>2, <1>4, <1>5 DEF Sheets!Drawing, Sheets!Instruction

LEMMA TitleIsScript == WholeScript(Sheets!SectionTitle)
<1>1. PICK e : e = Sheets!EnsureSpace(Sheets!LineHeight.heading + 2 * Sheets!LineHeight.body + 12000) OBVIOUS
<1>2. PICK t : t = Sheets!TextLine("title", "heading") OBVIOUS
<1>3. PICK a, b, c : a = Sheets!MoveDown(10000) /\ b = Sheets!MoveDown(8000) /\ c = Sheets!MoveDown(3000) OBVIOUS
<1>4. Plain(a) /\ Plain(b) /\ Plain(c) BY <1>3, MoveIsPlain
<1>5. Plain(t)
  <2>1. PICK what \in {"line", "title"}, size \in {"heading", "body", "small"} :
          what = "title" /\ size = "heading"
    OBVIOUS
  <2> QED BY <1>2, <2>1, LineIsPlain
<1>6. e \in Instructions /\ e.op = "ensure"
  BY <1>1, Lengths DEF Sheets!EnsureSpace, Sheets!Instruction, Instructions
<1>7. LeadsToDrawing(b, t)
  <2>1. b.op = "move" /\ b.after = 8000 BY <1>3 DEF Sheets!MoveDown, Sheets!Instruction
  <2>2. t.op = "draw" /\ t.need = 16560
    BY <1>2, Lengths DEF Sheets!TextLine, Sheets!Drawing, Sheets!Instruction
  <2> QED BY <2>1, <2>2, Lengths DEF LeadsToDrawing
<1>8. PICK s : s = <<a, e, b, t, c>> OBVIOUS
<1>9. /\ s \in Seq(Instructions) /\ Len(s) = 5
      /\ s[1] = a /\ s[2] = e /\ s[3] = b /\ s[4] = t /\ s[5] = c
  BY <1>4, <1>5, <1>6, <1>8 DEF Plain, FitsAPage
<1>10. FitsAPage(e) BY <1>6 DEF FitsAPage
<1>11. ASSUME NEW i \in 1..5
       PROVE  /\ FitsAPage(s[i]) /\ s[i].op # "row"
              /\ s[i].op = "ensure" => i + 2 <= 5 /\ LeadsToDrawing(s[i + 1], s[i + 2])
  <2>1. CASE i = 2
    <3>1. i + 1 = 3 /\ i + 2 = 4 /\ i + 2 <= 5 BY <2>1
    <3> QED BY <1>6, <1>7, <1>9, <1>10, <2>1, <3>1
  <2>2. CASE i # 2
    <3>1. s[i] \in {a, b, t, c} BY <1>9, <2>2
    <3> QED BY <1>4, <1>5, <3>1 DEF Plain
  <2> QED BY <2>1, <2>2
<1>12. \A i \in 1..(5 - 1) : s[i + 1].op # "row"
  <2>1. \A i \in 1..(5 - 1) : i + 1 \in 1..5 OBVIOUS
  <2> QED BY <1>11, <2>1
<1>13. s[1].op # "row" BY <1>4, <1>9 DEF Plain
<1>14. WholeScript(s) BY <1>9, <1>11, <1>12, <1>13 DEF WholeScript, Script
<1> QED BY <1>1, <1>2, <1>3, <1>8, <1>14 DEF Sheets!SectionTitle

\* A table of any number of rows is a script.
LEMMA TableIsScript ==
  ASSUME Sheets!SheetsAssumption, NEW rows \in Tables PROVE WholeScript(Sheets!Table(rows))
<1>0. rows \in Seq(Nat) /\ Len(rows) \in Nat BY DEF Sheets!SheetsAssumption
<1>1. PICK h : h = Sheets!Drawing("header", Sheets!HeaderHeight + Sheets!LineHeight.body + 10000, Sheets!HeaderHeight, Sheets!HeaderHeight)
  OBVIOUS
<1>2. PICK m : m = Sheets!MoveDown(6000) OBVIOUS
<1>3. PICK body : body = [i \in 1..Len(rows) |-> Sheets!Row(rows[i])] OBVIOUS
<1>4. Plain(m) BY <1>2, MoveIsPlain
<1>5. Plain(h) /\ h.what = "header" /\ h.op = "draw"
  <2>1. PICK what \in {"line", "title", "pair", "banner", "header"} : what = "header" OBVIOUS
  <2>2. PICK need \in Nat, height \in Nat : need = 42840 /\ height = 19730
    OBVIOUS
  <2>3. need <= PageHeight /\ height <= need /\ height <= height BY <2>2, Lengths
  <2>4. Plain(Sheets!Drawing(what, need, height, height)) BY <2>3, DrawingIsPlain
  <2>5. Sheets!HeaderHeight + Sheets!LineHeight.body + 10000 = 42840 /\ Sheets!HeaderHeight = 19730
    BY Lengths
  <2>6. h = Sheets!Drawing(what, need, height, height) BY <1>1, <2>1, <2>2, <2>5
  <2> QED BY <2>1, <2>4, <2>6 DEF Sheets!Drawing, Sheets!Instruction
<1>6. ASSUME NEW i \in 1..Len(rows)
      PROVE  FitsAPage(Sheets!Row(rows[i])) /\ Sheets!Row(rows[i]).op = "row" /\ Sheets!Row(rows[i]) \in Instructions
  <2>1. PICK b \in Nat : b = Sheets!LineHeight.body BY Lengths
  <2>2. rows[i] \in Nat BY <1>0
  <2>3. PICK k \in Nat : k = rows[i] * b BY <2>1, <2>2
  <2>4. PICK height \in Nat : height = k + 8000 BY <2>3
  <2>5. Sheets!Row(rows[i]) = Sheets!Instruction("row", "row", height, height, height)
    BY <2>1, <2>3, <2>4 DEF Sheets!Row
  <2>6. Sheets!HeaderHeight + height <= PageHeight
    <3>1. Sheets!LineHeight.small + 8000 + rows[i] * Sheets!LineHeight.body + 8000 <= Sheets!BottomLimit - Sheets!Top
      BY DEF Sheets!SheetsAssumption
    <3> QED BY <2>1, <2>3, <2>4, <3>1, Lengths DEF PageHeight
  <2> QED BY <2>5, <2>6 DEF Sheets!Instruction, Instructions, FitsAPage
<1>7. body \in Seq(Instructions) /\ Len(body) = Len(rows) BY <1>0, <1>3, <1>6
<1>8. PICK s : s = <<h>> \o body \o <<m>> OBVIOUS
<1>9. h \in Instructions /\ m \in Instructions BY <1>4, <1>5 DEF Plain, FitsAPage
<1>10. PICK n \in Nat : n = Len(rows) BY <1>0
<1>11. /\ s \in Seq(Instructions) /\ Len(s) = n + 2 /\ s[1] = h /\ s[n + 2] = m
       /\ \A i \in 1..n : s[i + 1] = body[i]
  <2>1. PICK u : u = <<h>> \o body OBVIOUS
  <2>2. u \in Seq(Instructions) /\ Len(u) = n + 1 /\ u[1] = h /\ \A i \in 1..n : u[i + 1] = body[i]
    <3>1. u \in Seq(Instructions) /\ Len(u) = n + 1 /\ u[1] = h BY <1>7, <1>9, <1>10, <2>1
    <3>2. ASSUME NEW i \in 1..n PROVE u[i + 1] = body[i]
      <4>1. i + 1 \in 1..(n + 1) /\ i + 1 > 1 /\ (i + 1) - 1 = i BY <1>10
      <4> QED BY <1>7, <1>9, <1>10, <2>1, <4>1
    <3> QED BY <3>1, <3>2
  <2>3. s = u \o <<m>> BY <1>8, <2>1
  <2>4. s \in Seq(Instructions) /\ Len(s) = n + 2 /\ s[n + 2] = m /\ \A i \in 1..(n + 1) : s[i] = u[i]
    BY <1>9, <2>2, <2>3
  <2>5. 1 \in 1..(n + 1) /\ \A i \in 1..n : i + 1 \in 1..(n + 1) OBVIOUS
  <2> QED BY <2>2, <2>4, <2>5
<1>12. \A i \in 1..n : body[i] = Sheets!Row(rows[i]) BY <1>3, <1>10
<1>13. ASSUME NEW i \in 1..(n + 2)
       PROVE  FitsAPage(s[i]) /\ s[i].op # "ensure" /\ (i <= n + 1 => OfTable(s[i]))
  <2>1. CASE i = 1 BY <1>5, <1>11, <2>1 DEF OfTable, Plain
  <2>2. CASE i = n + 2
    <3>1. ~(i <= n + 1) BY <2>2
    <3> QED BY <1>4, <1>11, <2>2, <3>1 DEF Plain
  <2>3. CASE i # 1 /\ i # n + 2
    <3>1. i - 1 \in 1..n /\ (i - 1) + 1 = i BY <2>3
    <3>2. PICK k \in 1..n : k + 1 = i BY <3>1
    <3>3. s[i] = Sheets!Row(rows[k]) BY <1>11, <1>12, <3>2
    <3>4. k \in 1..Len(rows) BY <1>10
    <3>5. FitsAPage(s[i]) /\ s[i].op = "row" BY <1>6, <3>3, <3>4
    <3> QED BY <3>5 DEF OfTable
  <2> QED BY <2>1, <2>2, <2>3
<1>14. ASSUME NEW i \in 1..(Len(s) - 1) PROVE OfTable(s[i])
  <2>1. i \in 1..(n + 2) /\ i <= n + 1 BY <1>11
  <2> QED BY <1>13, <2>1
<1>15. s[1].op # "row" BY <1>5, <1>11
<1>16. WholeScript(s) BY <1>11, <1>13, <1>14, <1>15 DEF WholeScript, Script
<1> QED BY <1>1, <1>2, <1>3, <1>8, <1>16 DEF Sheets!Table

\* It starts with a move and the banner, in sight of the top of the first page.
Starts(s) == /\ WholeScript(s) /\ Len(s) >= 2 /\ s[1].op = "move" /\ s[2].op = "draw"
             /\ Sheets!Top + s[1].after + s[2].need <= Sheets!BottomLimit

LEMMA StartsJoin ==
  ASSUME NEW s, Starts(s), NEW t, WholeScript(t) PROVE Starts(s \o t)
<1>1. /\ WholeScript(s \o t) /\ Len(s \o t) = Len(s) + Len(t) /\ Len(s) \in Nat /\ Len(t) \in Nat
      /\ \A i \in 1..Len(s) : (s \o t)[i] = s[i]
  BY ScriptsJoin DEF Starts
<1>2. Len(s) >= 2 BY DEF Starts
<1>3. 1 \in 1..Len(s) /\ 2 \in 1..Len(s) BY <1>1, <1>2
<1>4. (s \o t)[1] = s[1] /\ (s \o t)[2] = s[2] BY <1>1, <1>3
<1> QED BY <1>1, <1>2, <1>4 DEF Starts

\* The template of a summary is a script, for texts and tables of any length.
LEMMA TemplateStarts ==
  ASSUME Sheets!SheetsAssumption, NEW headerRows \in {3, 4}, NEW urgent \in BOOLEAN, NEW fields \in FieldLines,
         NEW description \in Descriptions, NEW rows \in Tables
  PROVE  Starts(Sheets!Template(headerRows, urgent, fields, description, rows))
<1>0. PICK start : start = Sheets!MoveDown(Sheets!Title + 8000 + headerRows * 12325 + 14000) OBVIOUS
<1>p. PICK apart : apart = Sheets!MoveDown(4000) OBVIOUS
<1>m. PICK m : m = <<apart>> OBVIOUS
<1>1. PICK a, b, c, d, e, f :
        /\ a = <<start, Sheets!Banner>>
        /\ b = (IF urgent THEN Sheets!Text("line", "small", 1) \o m ELSE <<>>)
        /\ c = Sheets!Times(2, Sheets!FieldPair(fields))
        /\ d = Sheets!Text("line", "body", description)
        /\ e = (IF rows = <<>> THEN Sheets!Text("line", "body", 1) ELSE Sheets!Table(rows) \o Sheets!Text("line", "small", 2))
        /\ f = Sheets!Text("line", "small", NoticeLines)
  OBVIOUS
<1>2. PICK small, body \in {"heading", "body", "small"} : small = "small" /\ body = "body" OBVIOUS
<1>3. PICK one, two \in Nat : one = 1 /\ two = 2 OBVIOUS
<1>4. description \in Nat /\ NoticeLines \in Nat BY DEF Sheets!SheetsAssumption
<1>5. WholeScript(Sheets!Text("line", small, one)) /\ WholeScript(Sheets!Text("line", small, two))
      /\ WholeScript(Sheets!Text("line", body, one))
      /\ WholeScript(Sheets!Text("line", body, description)) /\ WholeScript(Sheets!Text("line", small, NoticeLines))
  BY <1>4, TextIsScript
<1>6. WholeScript(<<>>) BY DEF WholeScript, Script
<1>7. WholeScript(b)
  <2>1. apart \in Instructions /\ Plain(apart) BY <1>p, MoveIsPlain
  <2>2. m \in Seq(Instructions) /\ Len(m) = 1 /\ Plain(m[1])
    BY <1>m, <2>1
  <2>3. \A i \in 1..Len(m) : i = 1 BY <2>2
  <2>4. WholeScript(m) BY <2>2, <2>3, PlainScript
  <2>5. WholeScript(Sheets!Text("line", small, one) \o m) BY <1>5, <2>4, ScriptsJoin
  <2> QED BY <1>1, <1>2, <1>3, <1>6, <2>5
<1>8. WholeScript(c) BY <1>1, PairsAreScript
<1>9. WholeScript(d) /\ WholeScript(f) BY <1>1, <1>2, <1>5
<1>10. WholeScript(e)
  <2>1. WholeScript(Sheets!Table(rows)) BY TableIsScript
  <2>2. WholeScript(Sheets!Table(rows) \o Sheets!Text("line", small, two))
    BY <1>5, <2>1, ScriptsJoin
  <2> QED BY <1>1, <1>2, <1>3, <1>5, <2>2
<1>11. Starts(a)
  <2>1. PICK n \in Nat : n = Sheets!Title + 8000 + headerRows * 12325 + 14000 /\ n <= 90300
    <3>1. Sheets!Title = 19000 BY DEF Sheets!Title
    <3>2. headerRows * 12325 \in {36975, 49300} OBVIOUS
    <3> QED BY <3>1, <3>2
  <2>2. Plain(Sheets!MoveDown(n)) /\ Sheets!MoveDown(n) \in Instructions /\ Sheets!MoveDown(n).op = "move" /\ Sheets!MoveDown(n).after = n
    BY MoveIsPlain DEF Sheets!MoveDown, Sheets!Instruction
  <2>3. a = <<Sheets!MoveDown(n), Sheets!Banner>> BY <1>0, <1>1, <2>1
  <2>4. a \in Seq(Instructions) /\ Len(a) = 2 /\ a[1] = Sheets!MoveDown(n) /\ a[2] = Sheets!Banner
    BY <2>2, <2>3, BannerIsPlain
  <2>5. \A i \in 1..Len(a) : i \in {1, 2} BY <2>4
  <2>6. WholeScript(a) BY <2>2, <2>4, <2>5, BannerIsPlain, PlainScript
  <2>7. Sheets!Top + n + 34000 <= Sheets!BottomLimit BY <2>1, Lengths
  <2> QED BY <2>2, <2>4, <2>6, <2>7, BannerIsPlain DEF Starts
<1>12. PICK t : t = Sheets!SectionTitle OBVIOUS
<1>13. WholeScript(t) BY <1>12, TitleIsScript
<1>14. Starts(a \o b) BY <1>7, <1>11, StartsJoin
<1>15. Starts(a \o b \o t) BY <1>13, <1>14, StartsJoin
<1>16. Starts(a \o b \o t \o c) BY <1>8, <1>15, StartsJoin
<1>17. Starts(a \o b \o t \o c \o t) BY <1>13, <1>16, StartsJoin
<1>18. Starts(a \o b \o t \o c \o t \o c) BY <1>8, <1>17, StartsJoin
<1>19. Starts(a \o b \o t \o c \o t \o c \o t) BY <1>13, <1>18, StartsJoin
<1>20. Starts(a \o b \o t \o c \o t \o c \o t \o d) BY <1>9, <1>19, StartsJoin
<1>21. Starts(a \o b \o t \o c \o t \o c \o t \o d \o t) BY <1>13, <1>20, StartsJoin
<1>22. Starts(a \o b \o t \o c \o t \o c \o t \o d \o t \o e) BY <1>10, <1>21, StartsJoin
<1>23. Starts(a \o b \o t \o c \o t \o c \o t \o d \o t \o e \o t) BY <1>13, <1>22, StartsJoin
<1>24. Starts(a \o b \o t \o c \o t \o c \o t \o d \o t \o e \o t \o f) BY <1>9, <1>23, StartsJoin
<1>25. Sheets!Template(headerRows, urgent, fields, description, rows)
         = a \o b \o t \o c \o t \o c \o t \o d \o t \o e \o t \o f
  BY <1>0, <1>p, <1>m, <1>1, <1>12 DEF Sheets!Template
<1> QED BY <1>24, <1>25

-----------------------------------------------------------------------------
(* What is drawn. *)

SheetsLastPage == IF pgDrawn = <<>> THEN 0 ELSE pgDrawn[Len(pgDrawn)].page

\* All of it is between the margins, in order, and leaves no page out.
SheetsReadable(d) ==
  /\ d \in Seq(Sheets!Things)
  /\ \A i \in 1..Len(d) : Sheets!Top <= d[i].top /\ d[i].bottom <= Sheets!BottomLimit
  /\ \A i \in 1..(Len(d) - 1) :
       /\ IF d[i + 1].page = d[i].page THEN d[i].bottom <= d[i + 1].top ELSE d[i + 1].page = d[i].page + 1
       /\ d[i + 1].what = "row" => d[i].what \in {"header", "row"} /\ d[i].page = d[i + 1].page
  /\ {d[i].page : i \in 1..Len(d)} = 1..(IF d = <<>> THEN 0 ELSE d[Len(d)].page)

\* A thing comes under the last one, or at the top of the next page.
Follows(d, x) ==
  /\ x \in Sheets!Things /\ Sheets!Top <= x.top /\ x.bottom <= Sheets!BottomLimit
  /\ d = <<>> => x.page = 1 /\ x.what # "row"
  /\ d # <<>> => LET last == d[Len(d)] IN
       /\ IF x.page = last.page THEN last.bottom <= x.top ELSE x.page = last.page + 1
       /\ x.what = "row" => last.what \in {"header", "row"} /\ last.page = x.page

\* Pages with one more thing, which follows what they have, stay readable.
LEMMA StillReadable ==
  ASSUME NEW d, SheetsReadable(d), NEW x, Follows(d, x)
  PROVE  /\ SheetsReadable(Append(d, x)) /\ Append(d, x) # <<>>
         /\ Append(d, x)[Len(Append(d, x))] = x
<1>1. d \in Seq(Sheets!Things) /\ x \in Sheets!Things BY DEF SheetsReadable, Follows
<1>2. PICK n \in Nat : n = Len(d) BY <1>1
<1>3. PICK s : s = Append(d, x) OBVIOUS
<1>4. s \in Seq(Sheets!Things) /\ Len(s) = n + 1 /\ s[n + 1] = x /\ \A i \in 1..n : s[i] = d[i]
  BY <1>1, <1>2, <1>3
<1>5. \A i \in 1..Len(s) : Sheets!Top <= s[i].top /\ s[i].bottom <= Sheets!BottomLimit
  <2> SUFFICES ASSUME NEW i \in 1..Len(s)
    PROVE Sheets!Top <= s[i].top /\ s[i].bottom <= Sheets!BottomLimit
    OBVIOUS
  <2>1. i \in 1..n \/ i = n + 1 BY <1>4
  <2> QED BY <1>2, <1>4, <2>1 DEF SheetsReadable, Follows
<1>6. ASSUME NEW i \in 1..(Len(s) - 1)
      PROVE /\ IF s[i + 1].page = s[i].page THEN s[i].bottom <= s[i + 1].top
               ELSE s[i + 1].page = s[i].page + 1
            /\ s[i + 1].what = "row" => s[i].what \in {"header", "row"} /\ s[i].page = s[i + 1].page
  <2>1. i \in 1..n BY <1>4
  <2>2. CASE i = n
    <3>1. s[i] = d[n] /\ s[i + 1] = x BY <1>4, <2>1, <2>2
    <3>2. d # <<>> BY <1>2, <2>1
    <3> QED BY <1>2, <3>1, <3>2 DEF Follows
  <2>3. CASE i # n
    <3>1. i \in 1..(n - 1) /\ i + 1 \in 1..n BY <2>1, <2>3
    <3>2. s[i] = d[i] /\ s[i + 1] = d[i + 1] BY <1>4, <2>1, <3>1
    <3> QED BY <1>2, <3>1, <3>2 DEF SheetsReadable
  <2> QED BY <2>2, <2>3
<1>7. PICK k \in Nat : k = IF d = <<>> THEN 0 ELSE d[Len(d)].page
  <2>1. d # <<>> => d[Len(d)].page \in Nat
    <3>1. d # <<>> => d[n] \in Sheets!Things BY <1>1, <1>2
    <3> QED BY <1>2, <3>1 DEF Sheets!Things
  <2> QED BY <2>1
<1>8. x.page \in Nat /\ x.page \in {k, k + 1} /\ x.page >= 1
  <2>1. x.page \in Nat BY <1>1 DEF Sheets!Things
  <2>2. CASE d = <<>> BY <1>7, <2>1, <2>2 DEF Follows
  <2>3. CASE d # <<>>
    <3>1. x.page \in {k, k + 1} BY <1>7, <2>3 DEF Follows
    <3>2. k >= 1
      <4>1. n \in 1..n BY <1>1, <1>2, <2>3
      <4>2. d[n].page \in {d[i].page : i \in 1..Len(d)} BY <1>2, <4>1
      <4>3. d[n].page \in 1..k BY <1>7, <4>2 DEF SheetsReadable
      <4> QED BY <4>3
    <3> QED BY <2>1, <3>1, <3>2
  <2> QED BY <2>2, <2>3
<1>9. {s[i].page : i \in 1..Len(s)} = 1..x.page
  <2>1. {d[i].page : i \in 1..n} = 1..k BY <1>2, <1>7 DEF SheetsReadable
  <2>2. {s[i].page : i \in 1..Len(s)} = {d[i].page : i \in 1..n} \cup {x.page}
    <3>1. \A i \in 1..Len(s) : i \in 1..n \/ i = n + 1 BY <1>4
    <3>2. \A i \in 1..n : i \in 1..Len(s) BY <1>4
    <3>3. n + 1 \in 1..Len(s) BY <1>4
    <3> QED BY <1>4, <3>1, <3>2, <3>3
  <2>3. (1..k) \cup {x.page} = 1..x.page BY <1>8
  <2> QED BY <2>1, <2>2, <2>3
<1>10. s # <<>> /\ s[Len(s)] = x BY <1>4
<1>11. SheetsReadable(s) BY <1>4, <1>5, <1>6, <1>9, <1>10 DEF SheetsReadable
<1> QED BY <1>3, <1>10, <1>11

-----------------------------------------------------------------------------
(* The invariant. *)

\* What comes next is drawn on a page that is empty yet.
Pending ==
  \/ pgTodo # <<>> /\ pgTodo[1].op = "draw" /\ pgCursorY + pgTodo[1].need <= Sheets!BottomLimit
  \/ Len(pgTodo) >= 2 /\ pgTodo[1].op = "move" /\ pgTodo[2].op = "draw"
     /\ pgCursorY + pgTodo[1].after + pgTodo[2].need <= Sheets!BottomLimit

Footers == [i \in 1..pgPage |-> [number |-> i, total |-> pgPage, top |-> Sheets!FooterTop]]

\* The cursor is below the last thing that was drawn, on its page, or at the top of the
\* next one, where something is drawn before space is asked for again.
SheetsInv ==
  /\ Script(pgTodo) /\ SheetsReadable(pgDrawn)
  /\ pgPage \in Nat \ {0} /\ pgCursorY \in Nat /\ Sheets!Top <= pgCursorY
  /\ \/ pgDrawn # <<>> /\ pgPage = SheetsLastPage /\ pgDrawn[Len(pgDrawn)].bottom <= pgCursorY
     \/ pgPage = SheetsLastPage + 1 /\ Pending
  /\ pgTodo # <<>> /\ pgTodo[1].op = "row" =>
       pgDrawn # <<>> /\ pgPage = SheetsLastPage /\ pgDrawn[Len(pgDrawn)].what \in {"header", "row"}
  /\ pgFooters # <<>> => pgTodo = <<>> /\ pgFooters = Footers

LEMMA SheetsInit == ASSUME Sheets!SheetsAssumption PROVE Sheets!Init => SheetsInv
<1> SUFFICES ASSUME Sheets!Init PROVE SheetsInv
  OBVIOUS
<1>1. Starts(pgTodo) /\ pgPage = 1 /\ pgCursorY = Sheets!Top /\ pgDrawn = <<>> /\ pgFooters = <<>>
  BY TemplateStarts DEF Sheets!Init
<1>2. Script(pgTodo) /\ pgTodo # <<>> /\ pgTodo[1].op = "move"
  <2>1. pgTodo \in Seq(Instructions) /\ Len(pgTodo) >= 2 BY <1>1 DEF Starts, WholeScript, Script
  <2> QED BY <1>1, <2>1 DEF Starts, WholeScript
<1>3. SheetsReadable(pgDrawn)
  <2>1. pgDrawn \in Seq(Sheets!Things) /\ Len(pgDrawn) = 0 BY <1>1
  <2>2. 1..0 = {} /\ 1..(0 - 1) = {} OBVIOUS
  <2> QED BY <1>1, <2>1, <2>2 DEF SheetsReadable
<1>4. pgPage = SheetsLastPage + 1 /\ Pending BY <1>1 DEF SheetsLastPage, Pending, Starts
<1>5. pgPage \in Nat \ {0} /\ pgCursorY \in Nat /\ Sheets!Top <= pgCursorY BY <1>1, Lengths
<1> QED BY <1>1, <1>2, <1>3, <1>4, <1>5 DEF SheetsInv

\* Facts of a state with something left to do.
LEMMA NextThing ==
  ASSUME SheetsInv, pgTodo # <<>>
  PROVE  /\ Script(Tail(pgTodo)) /\ Head(pgTodo) = pgTodo[1] /\ Len(pgTodo) \in Nat /\ Len(pgTodo) >= 1
         /\ Len(Tail(pgTodo)) = Len(pgTodo) - 1
         /\ \A i \in 1..(Len(pgTodo) - 1) : Tail(pgTodo)[i] = pgTodo[i + 1]
         /\ FitsAPage(pgTodo[1]) /\ pgTodo[1] \in Instructions
         /\ Tail(pgTodo) # <<>> => Len(pgTodo) >= 2 /\ Tail(pgTodo)[1] = pgTodo[2]
         /\ Tail(pgTodo) # <<>> /\ pgTodo[2].op = "row" => OfTable(pgTodo[1])
<1>1. Script(pgTodo) BY DEF SheetsInv
<1>2. PICK rest : rest = Tail(pgTodo) OBVIOUS
<1>3. /\ Script(rest) /\ Head(pgTodo) = pgTodo[1] /\ Len(pgTodo) \in Nat /\ Len(pgTodo) >= 1
      /\ Len(rest) = Len(pgTodo) - 1
      /\ \A i \in 1..(Len(pgTodo) - 1) : rest[i] = pgTodo[i + 1]
      /\ FitsAPage(pgTodo[1]) /\ pgTodo[1] \in Instructions
  BY <1>1, <1>2, ScriptOfRest
<1>4. ASSUME rest # <<>> PROVE Len(pgTodo) >= 2 /\ rest[1] = pgTodo[2]
  <2>1. rest \in Seq(Instructions) BY <1>3 DEF Script
  <2>2. Len(rest) >= 1 BY <1>4, <2>1
  <2>3. 1 \in 1..(Len(pgTodo) - 1) /\ 1 + 1 = 2 BY <1>3, <2>2
  <2> QED BY <1>3, <2>2, <2>3
<1>5. ASSUME rest # <<>>, pgTodo[2].op = "row" PROVE OfTable(pgTodo[1])
  <2>1. PICK i \in 1..(Len(pgTodo) - 1) : i = 1 BY <1>3, <1>4, <1>5
  <2>2. i + 1 = 2 BY <2>1
  <2> QED BY <1>1, <1>5, <2>1, <2>2 DEF Script
<1> QED BY <1>2, <1>3, <1>4, <1>5

\* The last page has the last thing drawn.
LEMMA PagesSoFar ==
  ASSUME SheetsInv
  PROVE  /\ SheetsLastPage \in Nat /\ pgDrawn \in Seq(Sheets!Things) /\ Len(pgDrawn) \in Nat
         /\ pgDrawn # <<>> => /\ pgDrawn[Len(pgDrawn)].page = SheetsLastPage /\ pgDrawn[Len(pgDrawn)] \in Sheets!Things
                              /\ SheetsLastPage >= 1
         /\ pgDrawn = <<>> => SheetsLastPage = 0
<1>1. SheetsReadable(pgDrawn) /\ pgDrawn \in Seq(Sheets!Things) BY DEF SheetsInv, SheetsReadable
<1>2. PICK n \in Nat : n = Len(pgDrawn) BY <1>1
<1>3. CASE pgDrawn = <<>> BY <1>1, <1>3 DEF SheetsLastPage
<1>4. CASE pgDrawn # <<>>
  <2>1. n \in 1..n BY <1>1, <1>2, <1>4
  <2>2. pgDrawn[n] \in Sheets!Things BY <1>1, <1>2, <2>1
  <2>3. pgDrawn[n].page \in Nat BY <2>2 DEF Sheets!Things
  <2>4. pgDrawn[n].page \in {pgDrawn[i].page : i \in 1..Len(pgDrawn)} BY <1>2, <2>1
  <2>5. pgDrawn[n].page \in 1..pgDrawn[n].page BY <1>1, <1>2, <1>4, <2>4 DEF SheetsReadable
  <2>6. SheetsLastPage = pgDrawn[n].page BY <1>2, <1>4 DEF SheetsLastPage
  <2> QED BY <1>1, <1>2, <1>4, <2>2, <2>3, <2>5, <2>6
<1> QED BY <1>3, <1>4

LEMMA SheetsMoveKeeps == ASSUME SheetsInv, Sheets!Move PROVE SheetsInv'
<1>0. pgTodo # <<>> /\ pgTodo[1].op = "move" BY NextThing DEF Sheets!Move
<1>1. pgCursorY' = pgCursorY + pgTodo[1].after /\ pgTodo' = Tail(pgTodo) /\ pgPage' = pgPage /\ pgDrawn' = pgDrawn
      /\ pgFooters' = pgFooters
  BY <1>0, NextThing DEF Sheets!Move
<1>2. pgTodo[1].after \in Nat BY <1>0, NextThing DEF Instructions
<1>3. pgCursorY \in Nat /\ Sheets!Top <= pgCursorY /\ pgPage \in Nat \ {0} /\ pgFooters = <<>>
  BY <1>0 DEF SheetsInv
<1>4. SheetsLastPage' = SheetsLastPage BY <1>1 DEF SheetsLastPage
<1>5. pgCursorY' \in Nat /\ Sheets!Top <= pgCursorY' /\ pgCursorY <= pgCursorY'
  BY <1>1, <1>2, <1>3, Lengths
<1>6. \/ pgDrawn' # <<>> /\ pgPage' = SheetsLastPage' /\ pgDrawn'[Len(pgDrawn')].bottom <= pgCursorY'
      \/ pgPage' = SheetsLastPage' + 1 /\ Pending'
  <2>1. CASE pgDrawn # <<>> /\ pgPage = SheetsLastPage /\ pgDrawn[Len(pgDrawn)].bottom <= pgCursorY
    <3>1. pgDrawn[Len(pgDrawn)].bottom \in Nat BY <2>1, PagesSoFar DEF Sheets!Things
    <3> QED BY <1>1, <1>3, <1>4, <1>5, <2>1, <3>1
  <2>2. CASE pgPage = SheetsLastPage + 1 /\ Pending
    <3>1. Len(pgTodo) >= 2 /\ pgTodo[2].op = "draw" /\ pgCursorY + pgTodo[1].after + pgTodo[2].need <= Sheets!BottomLimit
      BY <1>0, <2>2 DEF Pending
    <3>2. Tail(pgTodo) # <<>>
      <4>1. PICK rest : rest = Tail(pgTodo) OBVIOUS
      <4>2. Len(rest) >= 1 BY <1>0, <3>1, <4>1, NextThing
      <4>3. rest # <<>> BY <4>2
      <4> QED BY <4>1, <4>3
    <3>3. pgTodo'[1] = pgTodo[2] /\ pgTodo' # <<>> BY <1>0, <1>1, <3>2, NextThing
    <3> QED BY <1>1, <1>4, <2>2, <3>1, <3>3 DEF Pending
  <2> QED BY <2>1, <2>2 DEF SheetsInv
<1>7. ~(pgTodo' # <<>> /\ pgTodo'[1].op = "row")
  BY <1>0, <1>1, NextThing DEF OfTable
<1>8. Script(pgTodo') BY <1>0, <1>1, NextThing
<1> QED BY <1>1, <1>3, <1>5, <1>6, <1>7, <1>8 DEF SheetsInv

LEMMA EnsureKeeps == ASSUME SheetsInv, Sheets!Ensure PROVE SheetsInv'
<1>0. pgTodo # <<>> /\ pgTodo[1].op = "ensure" BY NextThing DEF Sheets!Ensure
<1>1. pgTodo' = Tail(pgTodo) /\ pgDrawn' = pgDrawn /\ pgFooters' = pgFooters
      /\ pgPage' = Sheets!At(pgTodo[1].need).page /\ pgCursorY' = Sheets!At(pgTodo[1].need).top
  BY <1>0, NextThing DEF Sheets!Ensure
<1>2. pgDrawn # <<>> /\ pgPage = SheetsLastPage /\ pgDrawn[Len(pgDrawn)].bottom <= pgCursorY
  BY <1>0 DEF SheetsInv, Pending
<1>3. pgCursorY \in Nat /\ Sheets!Top <= pgCursorY /\ pgPage \in Nat \ {0} /\ pgFooters = <<>>
  BY <1>0 DEF SheetsInv
<1>4. SheetsLastPage' = SheetsLastPage BY <1>1 DEF SheetsLastPage
<1>5. ~(pgTodo' # <<>> /\ pgTodo'[1].op = "row")
  BY <1>0, <1>1, NextThing DEF OfTable
<1>6. Script(pgTodo') BY <1>0, <1>1, NextThing
<1>7. CASE Sheets!Fits(pgTodo[1].need)
  <2>1. pgPage' = pgPage /\ pgCursorY' = pgCursorY BY <1>1, <1>7 DEF Sheets!At
  <2> QED BY <1>1, <1>2, <1>3, <1>4, <1>5, <1>6, <2>1 DEF SheetsInv
<1>8. CASE ~Sheets!Fits(pgTodo[1].need)
  <2>1. pgPage' = pgPage + 1 /\ pgCursorY' = Sheets!Top BY <1>1, <1>8 DEF Sheets!At
  <2>2. 3 <= Len(pgTodo) /\ LeadsToDrawing(pgTodo[2], pgTodo[3])
    <3>1. PICK i \in 1..Len(pgTodo) : i = 1 BY <1>0, NextThing
    <3>2. i + 2 <= Len(pgTodo) /\ LeadsToDrawing(pgTodo[i + 1], pgTodo[i + 2])
      BY <1>0, <3>1 DEF SheetsInv, Script
    <3>3. i + 1 = 2 /\ i + 2 = 3 BY <3>1
    <3> QED BY <3>2, <3>3
  <2>3. /\ Len(pgTodo') >= 2 /\ pgTodo'[1] = pgTodo[2] /\ pgTodo'[2] = pgTodo[3]
    <3>1. Len(pgTodo) \in Nat /\ 1 \in 1..(Len(pgTodo) - 1) /\ 2 \in 1..(Len(pgTodo) - 1)
          /\ 1 + 1 = 2 /\ 2 + 1 = 3
      BY <1>0, <2>2, NextThing
    <3> QED BY <1>0, <1>1, <2>2, <3>1, NextThing
  <2>4. pgTodo[2] \in Instructions /\ pgTodo[3] \in Instructions
    <3>1. pgTodo \in Seq(Instructions) BY DEF SheetsInv, Script
    <3> QED BY <2>2, <3>1
  <2>5. Sheets!Top + pgTodo[2].after + pgTodo[3].need <= Sheets!BottomLimit
    BY ONLY <2>2, <2>4, Lengths DEF LeadsToDrawing, Instructions
  <2>6. Pending'
    BY <2>1, <2>2, <2>3, <2>5 DEF Pending, LeadsToDrawing, Sheets!Top, Sheets!BottomLimit
  <2>7. pgPage' = SheetsLastPage' + 1 /\ pgPage' \in Nat \ {0} /\ pgCursorY' \in Nat /\ Sheets!Top <= pgCursorY'
    BY <1>2, <1>3, <1>4, <2>1, Lengths
  <2> QED BY <1>1, <1>3, <1>5, <1>6, <2>6, <2>7 DEF SheetsInv
<1> QED BY <1>7, <1>8

\* Where something is drawn that fits a page.
LEMMA PlaceOf ==
  ASSUME SheetsInv, NEW need \in Nat, NEW height \in Nat, NEW what, what \in {"line", "title", "pair", "banner", "header", "row"},
         height <= need, need <= PageHeight, NEW place, place = Sheets!At(need),
         pgPage = SheetsLastPage + 1 => Sheets!Fits(need),
         what = "row" => Sheets!Fits(need) /\ pgDrawn # <<>> /\ pgPage = SheetsLastPage
                         /\ pgDrawn[Len(pgDrawn)].what \in {"header", "row"}
  PROVE  /\ place.page \in Nat \ {0} /\ place.top \in Nat /\ Sheets!Top <= place.top
         /\ Sheets!Put(place, what, height) \in Sheets!Things
         /\ Follows(pgDrawn, Sheets!Put(place, what, height))
<1>0. pgCursorY \in Nat /\ Sheets!Top <= pgCursorY /\ pgPage \in Nat \ {0} /\ Sheets!Top \in Nat
  BY Lengths DEF SheetsInv
<1>1. PICK p, t : p = place.page /\ t = place.top OBVIOUS
<1>2. \/ Sheets!Fits(need) /\ p = pgPage /\ t = pgCursorY
      \/ ~Sheets!Fits(need) /\ p = pgPage + 1 /\ t = Sheets!Top
  BY <1>1 DEF Sheets!At
<1>3. p \in Nat \ {0} /\ t \in Nat /\ Sheets!Top <= t BY <1>0, <1>2
<1>4. t + height <= Sheets!BottomLimit BY <1>0, <1>2, <1>3, Lengths DEF Sheets!Fits
<1>5. PICK x : x = [what |-> what, page |-> p, top |-> t, bottom |-> t + height] OBVIOUS
<1>6. Sheets!Put(place, what, height) = x BY <1>1, <1>5 DEF Sheets!Put
<1>7. x \in Sheets!Things /\ x.page = p /\ x.top = t /\ x.bottom = t + height /\ x.what = what
  BY <1>3, <1>5 DEF Sheets!Things
<1>8. CASE pgDrawn = <<>>
  <2>1. pgPage = 1 /\ Sheets!Fits(need) BY <1>0, <1>8, PagesSoFar DEF SheetsInv
  <2> QED BY <1>1, <1>2, <1>3, <1>4, <1>6, <1>7, <1>8, <2>1 DEF Follows
<1>9. CASE pgDrawn # <<>>
  <2>1. PICK last : last = pgDrawn[Len(pgDrawn)] OBVIOUS
  <2>2. last.page = SheetsLastPage /\ SheetsLastPage \in Nat BY <1>9, <2>1, PagesSoFar
  <2>3. IF x.page = last.page THEN last.bottom <= x.top ELSE x.page = last.page + 1
    <3>1. CASE pgPage = SheetsLastPage /\ last.bottom <= pgCursorY
      BY <1>0, <1>2, <1>7, <2>2, <3>1
    <3>2. CASE pgPage = SheetsLastPage + 1
      BY <1>0, <1>2, <1>7, <2>2, <3>2
    <3> QED BY <2>1, <3>1, <3>2 DEF SheetsInv
  <2>4. x.what = "row" => last.what \in {"header", "row"} /\ last.page = x.page
    BY <1>2, <1>7, <2>1, <2>2
  <2> QED BY <1>1, <1>3, <1>4, <1>6, <1>7, <1>9, <2>1, <2>3, <2>4 DEF Follows
<1> QED BY <1>8, <1>9

LEMMA DrawKeeps == ASSUME SheetsInv, Sheets!Draw PROVE SheetsInv'
<1>0. pgTodo # <<>> /\ pgTodo[1].op = "draw" BY NextThing DEF Sheets!Draw
<1>1. PICK x : x = pgTodo[1] OBVIOUS
<1>2. /\ x \in Instructions /\ x.need \in Nat /\ x.height \in Nat /\ x.after \in Nat
      /\ x.what \in {"line", "title", "pair", "banner", "header"}
      /\ x.need <= PageHeight /\ x.height <= x.need /\ x.height <= x.after
  BY <1>0, <1>1, NextThing DEF FitsAPage, Instructions
<1>3. PICK place : place = Sheets!At(x.need) OBVIOUS
<1>4. PICK thing : thing = Sheets!Put(place, x.what, x.height) OBVIOUS
<1>5. pgDrawn' = Append(pgDrawn, thing) /\ pgPage' = place.page /\ pgCursorY' = place.top + x.after
      /\ pgTodo' = Tail(pgTodo) /\ pgFooters' = pgFooters
  BY <1>0, <1>1, <1>3, <1>4, NextThing DEF Sheets!Draw
<1>6. pgPage = SheetsLastPage + 1 => Sheets!Fits(x.need)
  <2>1. SheetsLastPage \in Nat BY PagesSoFar
  <2> QED BY <1>0, <1>1, <2>1 DEF SheetsInv, Pending, Sheets!Fits
<1>7. /\ place.page \in Nat \ {0} /\ place.top \in Nat /\ Sheets!Top <= place.top
      /\ thing \in Sheets!Things /\ Follows(pgDrawn, thing)
  BY <1>2, <1>3, <1>4, <1>6, PlaceOf
<1>8. thing.page = place.page /\ thing.bottom = place.top + x.height /\ thing.what = x.what
  BY <1>4 DEF Sheets!Put
<1>9. SheetsReadable(pgDrawn') /\ pgDrawn' # <<>> /\ pgDrawn'[Len(pgDrawn')] = thing
  BY <1>5, <1>7, StillReadable DEF SheetsInv
<1>10. SheetsLastPage' = place.page BY <1>8, <1>9 DEF SheetsLastPage
<1>11. pgCursorY' \in Nat /\ Sheets!Top <= pgCursorY' /\ thing.bottom <= pgCursorY'
  BY <1>2, <1>5, <1>7, <1>8, Lengths
<1>12. pgTodo' # <<>> /\ pgTodo'[1].op = "row" => thing.what = "header"
  BY <1>0, <1>1, <1>5, <1>8, NextThing DEF OfTable
<1>13. Script(pgTodo') /\ pgFooters' = <<>> BY <1>0, <1>5, NextThing DEF SheetsInv
<1> QED BY <1>5, <1>7, <1>9, <1>10, <1>11, <1>12, <1>13 DEF SheetsInv

LEMMA DrawRowKeeps == ASSUME SheetsInv, Sheets!DrawRow PROVE SheetsInv'
<1>0. pgTodo # <<>> /\ pgTodo[1].op = "row" BY NextThing DEF Sheets!DrawRow
<1>1. PICK x : x = pgTodo[1] OBVIOUS
<1>2. /\ x \in Instructions /\ x.need \in Nat /\ x.height = x.need /\ x.after = x.need /\ x.what = "row"
      /\ Sheets!HeaderHeight + x.need <= PageHeight
  BY <1>0, <1>1, NextThing DEF FitsAPage, Instructions
<1>3. PICK place : place = Sheets!At(x.need) OBVIOUS
<1>4. PICK under : under = [place EXCEPT !.top = @ + Sheets!HeaderHeight] OBVIOUS
<1>5. /\ IF place.page # pgPage
         THEN /\ pgDrawn' = pgDrawn \o << Sheets!Put(place, "header", Sheets!HeaderHeight), Sheets!Put(under, "row", x.height) >>
              /\ pgCursorY' = under.top + x.after
         ELSE /\ pgDrawn' = Append(pgDrawn, Sheets!Put(place, "row", x.height))
              /\ pgCursorY' = place.top + x.after
      /\ pgPage' = place.page /\ pgTodo' = Tail(pgTodo) /\ pgFooters' = pgFooters
  BY <1>0, <1>1, <1>3, <1>4, NextThing DEF Sheets!DrawRow, Sheets!Repeated
<1>6. /\ pgDrawn # <<>> /\ pgPage = SheetsLastPage /\ pgDrawn[Len(pgDrawn)].what \in {"header", "row"}
      /\ pgPage \in Nat \ {0} /\ pgCursorY \in Nat /\ Sheets!Top <= pgCursorY /\ pgFooters = <<>> /\ SheetsReadable(pgDrawn)
      /\ SheetsLastPage \in Nat
  BY <1>0, PagesSoFar DEF SheetsInv
<1>7. x.need <= PageHeight /\ x.need <= x.need BY <1>2, Lengths
<1>8. Script(pgTodo') BY <1>0, <1>5, NextThing
<1>9. CASE Sheets!Fits(x.need)
  <2>1. place = [page |-> pgPage, top |-> pgCursorY] BY <1>3, <1>9 DEF Sheets!At
  <2>2. PICK thing : thing = Sheets!Put(place, "row", x.need) OBVIOUS
  <2>3. PICK what \in {"line", "title", "pair", "banner", "header", "row"} : what = "row" OBVIOUS
  <2>4. thing \in Sheets!Things /\ Follows(pgDrawn, thing)
    <3>1. Sheets!Put(place, what, x.need) \in Sheets!Things /\ Follows(pgDrawn, Sheets!Put(place, what, x.need))
      BY <1>2, <1>3, <1>6, <1>7, <1>9, PlaceOf
    <3> QED BY <2>2, <2>3, <3>1
  <2>5. pgDrawn' = Append(pgDrawn, thing) /\ pgPage' = pgPage /\ pgCursorY' = pgCursorY + x.need
    BY <1>2, <1>5, <2>1, <2>2
  <2>6. thing.page = pgPage /\ thing.bottom = pgCursorY + x.need /\ thing.what = "row"
    BY <2>1, <2>2 DEF Sheets!Put
  <2>7. SheetsReadable(pgDrawn') /\ pgDrawn' # <<>> /\ pgDrawn'[Len(pgDrawn')] = thing
    BY <1>6, <2>4, <2>5, StillReadable
  <2>8. SheetsLastPage' = pgPage' BY <2>5, <2>6, <2>7 DEF SheetsLastPage
  <2>9. pgCursorY' \in Nat /\ Sheets!Top <= pgCursorY' /\ thing.bottom <= pgCursorY'
    BY ONLY <1>2, <1>6, <2>5, <2>6, Lengths
  <2> QED BY <1>5, <1>6, <1>8, <2>5, <2>6, <2>7, <2>8, <2>9 DEF SheetsInv
<1>10. CASE ~Sheets!Fits(x.need)
  <2>1. place = [page |-> pgPage + 1, top |-> Sheets!Top] BY <1>3, <1>10 DEF Sheets!At
  <2>2. place.page # pgPage /\ under = [page |-> pgPage + 1, top |-> Sheets!Top + Sheets!HeaderHeight]
    BY <1>4, <1>6, <2>1
  <2>3. PICK head, thing : head = Sheets!Put(place, "header", Sheets!HeaderHeight) /\ thing = Sheets!Put(under, "row", x.need)
    OBVIOUS
  <2>4. pgDrawn' = pgDrawn \o <<head, thing>> /\ pgPage' = pgPage + 1 /\ pgCursorY' = Sheets!Top + Sheets!HeaderHeight + x.need
    BY <1>2, <1>5, <2>1, <2>2, <2>3
  <2>5. head = [what |-> "header", page |-> pgPage + 1, top |-> Sheets!Top, bottom |-> Sheets!Top + Sheets!HeaderHeight]
    BY <2>1, <2>3 DEF Sheets!Put
  <2>6. thing = [what |-> "row", page |-> pgPage + 1, top |-> Sheets!Top + Sheets!HeaderHeight,
                 bottom |-> Sheets!Top + Sheets!HeaderHeight + x.need]
    BY <2>2, <2>3 DEF Sheets!Put
  <2>7. head \in Sheets!Things /\ thing \in Sheets!Things
    BY <1>2, <1>6, <2>5, <2>6, Lengths DEF Sheets!Things
  <2>8. Follows(pgDrawn, head)
    <3>1. Sheets!Top + Sheets!HeaderHeight <= Sheets!BottomLimit BY Lengths
    <3>2. pgDrawn[Len(pgDrawn)].page = pgPage BY <1>6, PagesSoFar
    <3>3. Sheets!Top <= Sheets!Top BY Lengths
    <3> QED BY <1>6, <2>5, <2>7, <3>1, <3>2, <3>3 DEF Follows
  <2>9. PICK d : d = Append(pgDrawn, head) OBVIOUS
  <2>10. SheetsReadable(d) /\ d # <<>> /\ d[Len(d)] = head BY <1>6, <2>8, <2>9, StillReadable
  <2>11. Follows(d, thing)
    <3>1. Sheets!Top + Sheets!HeaderHeight + x.need <= Sheets!BottomLimit /\ Sheets!Top <= Sheets!Top + Sheets!HeaderHeight
      BY <1>2, Lengths
    <3>2. Sheets!Top + Sheets!HeaderHeight <= Sheets!Top + Sheets!HeaderHeight BY Lengths
    <3> QED BY <2>5, <2>6, <2>7, <2>10, <3>1, <3>2 DEF Follows
  <2>12. pgDrawn' = Append(d, thing)
    <3>1. pgDrawn \in Seq(Sheets!Things) BY PagesSoFar
    <3> QED BY <2>4, <2>7, <2>9, <3>1
  <2>13. SheetsReadable(pgDrawn') /\ pgDrawn' # <<>> /\ pgDrawn'[Len(pgDrawn')] = thing
    BY <2>10, <2>11, <2>12, StillReadable
  <2>14. SheetsLastPage' = pgPage' BY <2>4, <2>6, <2>13 DEF SheetsLastPage
  <2>15. pgPage' \in Nat \ {0} /\ pgCursorY' \in Nat /\ Sheets!Top <= pgCursorY' /\ thing.bottom <= pgCursorY'
    BY ONLY <1>2, <1>6, <2>4, <2>6, Lengths
  <2> QED BY <1>5, <1>6, <1>8, <2>6, <2>13, <2>14, <2>15 DEF SheetsInv
<1> QED BY <1>9, <1>10

LEMMA StampKeeps == ASSUME SheetsInv, Sheets!StampFooters PROVE SheetsInv'
<1>1. pgTodo = <<>> /\ pgFooters' = Footers /\ pgTodo' = pgTodo /\ pgPage' = pgPage /\ pgCursorY' = pgCursorY
      /\ pgDrawn' = pgDrawn
  BY DEF Sheets!StampFooters, Footers
<1>2. ~Pending
  <2>1. Len(<<>>) = 0 /\ ~(0 >= 2) OBVIOUS
  <2> QED BY <1>1, <2>1 DEF Pending
<1>3. pgFooters' = Footers' BY <1>1 DEF Footers
<1>4. SheetsLastPage' = SheetsLastPage BY <1>1 DEF SheetsLastPage
<1> QED BY <1>1, <1>2, <1>3, <1>4 DEF SheetsInv

\* Every step keeps the invariant.
LEMMA SheetsStep == SheetsInv /\ [Sheets!Next]_(Sheets!vars) => SheetsInv'
<1> SUFFICES ASSUME SheetsInv, [Sheets!Next]_(Sheets!vars) PROVE SheetsInv'
  OBVIOUS
<1>1. CASE UNCHANGED Sheets!vars
  BY <1>1 DEF SheetsInv, Sheets!vars, SheetsLastPage, Pending, Footers
<1> QED BY <1>1, SheetsMoveKeeps, EnsureKeeps, DrawKeeps, DrawRowKeeps, StampKeeps DEF Sheets!Next

\* What the invariant is for.
LEMMA SheetsSafe == SheetsInv => Sheets!TypeOK /\ Sheets!PagesAreReadable
<1> SUFFICES ASSUME SheetsInv PROVE Sheets!TypeOK /\ Sheets!PagesAreReadable
  OBVIOUS
<1>1. SheetsReadable(pgDrawn) /\ pgDrawn \in Seq(Sheets!Things) /\ pgPage \in Nat \ {0} /\ pgCursorY \in Nat
  BY DEF SheetsInv, SheetsReadable
<1>2. PICK F : F = [number : Nat, total : Nat, top : Nat] OBVIOUS
<1>3. pgFooters # <<>> => pgFooters = Footers /\ pgFooters \in Seq(F) /\ Len(pgFooters) = pgPage
                          /\ \A n \in 1..pgPage : /\ pgFooters[n].number = n /\ pgFooters[n].total = pgPage
                                                  /\ pgFooters[n].top = Sheets!FooterTop
  <2> SUFFICES ASSUME pgFooters # <<>>
               PROVE pgFooters = Footers /\ pgFooters \in Seq(F) /\ Len(pgFooters) = pgPage
                        /\ \A n \in 1..pgPage : /\ pgFooters[n].number = n /\ pgFooters[n].total = pgPage
                                                /\ pgFooters[n].top = Sheets!FooterTop
    OBVIOUS
  <2>1. pgFooters = Footers BY DEF SheetsInv
  <2>2. \A i \in 1..pgPage : [number |-> i, total |-> pgPage, top |-> Sheets!FooterTop] \in F
    BY <1>1, <1>2, Lengths
  <2> QED BY <1>1, <2>1, <2>2 DEF Footers
<1>4. Sheets!TypeOK
  <2>1. <<>> \in Seq(F) OBVIOUS
  <2> QED BY <1>1, <1>2, <1>3, <2>1 DEF Sheets!TypeOK
<1>5. ASSUME pgFooters # <<>>
      PROVE  LET pages == {pgDrawn[i].page : i \in 1..Len(pgDrawn)} IN
             /\ pages = 1..Len(pgFooters)
             /\ \A n \in pages : pgFooters[n].number = n /\ pgFooters[n].total = Len(pgFooters)
             /\ \A i \in 1..Len(pgDrawn) : pgDrawn[i].bottom < pgFooters[pgDrawn[i].page].top
  <2>1. pgTodo = <<>> BY <1>5 DEF SheetsInv
  <2>2. ~Pending
    <3>1. Len(<<>>) = 0 /\ ~(0 >= 2) OBVIOUS
    <3> QED BY <2>1, <3>1 DEF Pending
  <2>3. pgPage = SheetsLastPage BY <2>2 DEF SheetsInv
  <2>4. PICK pages : pages = {pgDrawn[i].page : i \in 1..Len(pgDrawn)} OBVIOUS
  <2>5. pages = 1..pgPage BY <1>1, <2>3, <2>4 DEF SheetsReadable, SheetsLastPage
  <2>6. ASSUME NEW i \in 1..Len(pgDrawn) PROVE pgDrawn[i].bottom < pgFooters[pgDrawn[i].page].top
    <3>1. pgDrawn[i].page \in 1..pgPage BY <2>4, <2>5
    <3>2. pgFooters[pgDrawn[i].page].top = Sheets!FooterTop BY <1>3, <1>5, <3>1
    <3>3. pgDrawn[i] \in Sheets!Things BY <1>1
    <3>4. pgDrawn[i].bottom \in Nat BY <3>3 DEF Sheets!Things
    <3>5. pgDrawn[i].bottom <= Sheets!BottomLimit BY <1>1 DEF SheetsReadable
    <3> QED BY <3>2, <3>4, <3>5, Lengths
  <2> QED BY <1>3, <1>5, <2>4, <2>5, <2>6
<1>6. Sheets!PagesAreReadable BY <1>1, <1>5 DEF Sheets!PagesAreReadable, SheetsReadable
<1> QED BY <1>4, <1>6

-----------------------------------------------------------------------------
(* The lines of a text (PdfText).                                          *)

\* A line that holds something: it fits, from a letter to a letter.
GoodLine(text, maxWidth, line) ==
  /\ line \in Seq(0..Len(text)) /\ line # <<>>
  /\ line[1] # 0 /\ line[Len(line)] # 0
  /\ Printed!Fits(text, maxWidth, line) /\ Printed!WordsApart(text, line)

\* The letters of the lines, up to position n, in their order.
LettersInOrder(lines) ==
  \A i, k \in 1..Len(lines) : \A j \in 1..Len(lines[i]), l \in 1..Len(lines[k]) :
    /\ lines[i][j] # 0 /\ lines[k][l] # 0
    /\ i < k \/ (i = k /\ j < l)
    => lines[i][j] < lines[k][l]
LettersUpTo(text, lines, n) ==
  \A i \in 1..Len(lines) : \A j \in 1..Len(lines[i]) :
    lines[i][j] # 0 => lines[i][j] <= n /\ Printed!Solid(text, lines[i][j])
AllPlaced(text, lines, n) ==
  \A p \in 1..n : Printed!Solid(text, p) =>
    \E i \in 1..Len(lines) : \E j \in 1..Len(lines[i]) : lines[i][j] = p
BrokenWell(text, maxWidth, lines) ==
  \A i \in 1..(Len(lines) - 1) : Printed!BrokenBefore(text, maxWidth, lines[i], lines[i + 1][1])

\* Lines that hold the first n characters of a text.
Laid(text, maxWidth, lines, n) ==
  /\ n \in 0..Len(text) /\ lines \in Seq(Seq(0..Len(text)))
  /\ \A i \in 1..Len(lines) : GoodLine(text, maxWidth, lines[i])
  /\ BrokenWell(text, maxWidth, lines)
  /\ LettersInOrder(lines) /\ LettersUpTo(text, lines, n) /\ AllPlaced(text, lines, n)

\* The word that is being chopped fits no line, nor behind the line before it.
TooLong(text, maxWidth, lines, unfinished, n) ==
  \E from, to \in 1..Len(text) :
    /\ Printed!IsWord(text, from, to) /\ n + 1 \in from..to
    /\ ~Printed!Fits(text, maxWidth, Printed!Positions(from, to))
    /\ unfinished = <<>> <=> n + 1 = from
    /\ unfinished = <<>> /\ lines # <<>> =>
         ~Printed!Fits(text, maxWidth,
            Printed!Joined(lines[Len(lines)], Printed!Positions(from, to)))

\* The lines hold what has been dealt with; the last of them is under way.
TextInv ==
  /\ Printed!TypeOK
  /\ txStep = "typing" => txAt = 0 /\ txLines = <<>> /\ txCurrent = <<>>
  /\ txStep \in {"words", "chopping"} =>
       /\ Laid(txSafe, txWidth, Printed!Flushed, txAt)
       /\ txCurrent # <<>> => txCurrent[Len(txCurrent)] = txAt
  /\ txStep = "words" =>
       IF txCurrent = <<>> THEN txLines = <<>> /\ txAt = 0 ELSE Printed!Ends(txSafe, txAt)
  /\ txStep = "chopping" => TooLong(txSafe, txWidth, txLines, txCurrent, txAt)
  /\ txStep = "done" =>
       /\ txCurrent = <<>> /\ Printed!Skipped(txSafe, txAt + 1, Len(txSafe))
       /\ \/ Laid(txSafe, txWidth, txLines, txAt)
          \/ txLines = << <<>> >> /\ txAt = 0

\* The positions from a letter to another.
LEMMA PositionsAre ==
  ASSUME NEW a \in Nat, NEW b \in Nat, a <= b, NEW n \in Nat, b <= n
  PROVE  /\ Printed!Positions(a, b) \in Seq(0..n) /\ Printed!Positions(a, b) # <<>>
         /\ Len(Printed!Positions(a, b)) = b - a + 1
         /\ \A k \in 1..(b - a + 1) : Printed!Positions(a, b)[k] = a + k - 1
<1> DEFINE P == Printed!Positions(a, b)
<1>1. b - a + 1 \in Nat \ {0} OBVIOUS
<1>2. P = [k \in 1..(b - a + 1) |-> a + k - 1] BY DEF Printed!Positions
<1>3. \A k \in 1..(b - a + 1) : a + k - 1 \in 0..n OBVIOUS
<1>4. P \in [1..(b - a + 1) -> 0..n] BY <1>2, <1>3
<1>5. P \in Seq(0..n) BY <1>1, <1>4
<1>6. Len(P) = b - a + 1 BY <1>1, <1>2
<1> QED BY <1>1, <1>2, <1>5, <1>6

\* A word behind a line.
LEMMA JoinedIs ==
  ASSUME NEW n \in Nat, NEW line \in Seq(0..n), line # <<>>, NEW word \in Seq(0..n)
  PROVE  /\ Printed!Joined(line, word) \in Seq(0..n)
         /\ Len(Printed!Joined(line, word)) = Len(line) + 1 + Len(word)
         /\ \A j \in 1..Len(line) : Printed!Joined(line, word)[j] = line[j]
         /\ Printed!Joined(line, word)[Len(line) + 1] = 0
         /\ \A k \in 1..Len(word) : Printed!Joined(line, word)[Len(line) + 1 + k] = word[k]
<1> DEFINE J == Printed!Joined(line, word)
<1>1. J = line \o <<0>> \o word BY DEF Printed!Joined, Printed!Joint
<1>2. <<0>> \in Seq(0..n) /\ Len(<<0>>) = 1 /\ <<0>>[1] = 0 OBVIOUS
<1>3. line \o <<0>> \in Seq(0..n) /\ Len(line \o <<0>>) = Len(line) + 1 BY <1>2
<1>4. (line \o <<0>>)[Len(line) + 1] = 0 /\ \A j \in 1..Len(line) : (line \o <<0>>)[j] = line[j]
  BY <1>2
<1>5. J \in Seq(0..n) /\ Len(J) = Len(line) + 1 + Len(word) BY <1>1, <1>3
<1>6. \A j \in 1..(Len(line) + 1) : J[j] = (line \o <<0>>)[j] BY <1>1, <1>3
<1>7. \A k \in 1..Len(word) : J[Len(line) + 1 + k] = word[k] BY <1>1, <1>3
<1>8. Len(line) \in Nat OBVIOUS
<1> HIDE DEF J
<1>9. J[Len(line) + 1] = 0
  <2>1. Len(line) + 1 \in 1..(Len(line) + 1) BY ONLY <1>8
  <2> QED BY ONLY <1>4, <1>6, <2>1
<1>10. \A j \in 1..Len(line) : J[j] = line[j]
  <2>1. \A j \in 1..Len(line) : j \in 1..(Len(line) + 1) BY ONLY <1>8
  <2> QED BY ONLY <1>4, <1>6, <2>1
<1> QED BY ONLY <1>5, <1>7, <1>9, <1>10 DEF J

\* A letter alone, and nothing at all, fit.
LEMMA LetterFits ==
  ASSUME Printed!TextAssumption, NEW text \in Seq(Printed!Encodable), NEW w \in Widths
  PROVE  /\ Printed!Fits(text, w, <<>>)
         /\ \A p \in 1..Len(text) : Printed!Fits(text, w, <<p>>)
<1>1. Printed!Shown(text, <<>>) = <<>>
  <2> DEFINE shown == Printed!Shown(text, <<>>)
  <2>1. shown = [j \in 1..0 |-> IF <<>>[j] = 0 THEN " " ELSE text[<<>>[j]]]
    BY DEF Printed!Shown, Printed!Joint
  <2>2. Len(<<>>) = 0 OBVIOUS
  <2> QED BY <2>2 DEF Printed!Shown
<1>2. ASSUME NEW p \in 1..Len(text) PROVE Printed!Fits(text, w, <<p>>)
  <2>1. Printed!Shown(text, <<p>>) = <<text[p]>>
    <3> DEFINE line == <<p>>
               Of(j) == IF line[j] = 0 THEN " " ELSE text[line[j]]
    <3>1. Len(line) = 1 /\ line[1] = p /\ p # 0 OBVIOUS
    <3>2. Printed!Shown(text, line) = [j \in 1..Len(line) |-> Of(j)]
      BY DEF Printed!Shown, Printed!Joint
    <3> HIDE DEF line
    <3>3. \A j \in 1..1 : Of(j) = text[p]
      <4>1. Of(1) = text[p] BY ONLY <3>1, Zenon
      <4>2. \A j \in 1..1 : j = 1 BY ONLY SMT
      <4> QED BY ONLY <4>1, <4>2, Zenon
    <3> HIDE DEF Of
    <3>4. Printed!Shown(text, line) = [j \in 1..1 |-> text[p]] BY ONLY <3>1, <3>2, <3>3
    <3>5. [j \in 1..1 |-> text[p]] = <<text[p]>> OBVIOUS
    <3> QED BY ONLY <3>4, <3>5 DEF line
  <2>2. text[p] \in Printed!Encodable OBVIOUS
  <2>3. WidthOf(<<text[p]>>) <= w BY <2>2 DEF Printed!TextAssumption
  <2> QED BY <2>1, <2>3 DEF Printed!Fits
<1>3. WidthOf(<<>>) <= w BY DEF Printed!TextAssumption
<1> QED BY <1>1, <1>2, <1>3 DEF Printed!Fits

\* A line more: a word, or a letter, that the line before it had no room for.
LEMMA NewLine ==
  ASSUME NEW text \in Seq(Printed!Encodable), NEW w, NEW lines, NEW n, Laid(text, w, lines, n),
         NEW a \in 1..Len(text), NEW b \in a..Len(text), n < a,
         Printed!Skipped(text, n + 1, a - 1), \A p \in a..b : Printed!Solid(text, p),
         Printed!Fits(text, w, Printed!Positions(a, b)),
         lines # <<>> => Printed!BrokenBefore(text, w, lines[Len(lines)], a)
  PROVE  Laid(text, w, Append(lines, Printed!Positions(a, b)), b)
<1> DEFINE P == Printed!Positions(a, b)
           T == Append(lines, P)
           m == Len(lines)
           N == Len(text)
<1>1. /\ N \in Nat /\ a \in Nat /\ b \in Nat /\ 1 <= a /\ a <= b /\ b <= N
  OBVIOUS
<1>2. n \in Nat /\ n < a /\ n <= N BY <1>1 DEF Laid
<1>3. lines \in Seq(Seq(0..N)) /\ m \in Nat BY DEF Laid
<1>4. \A i \in 1..m : lines[i] \in Seq(0..N) BY <1>3
<1>5. \A i \in 1..m : Len(lines[i]) \in Nat /\ \A j \in 1..Len(lines[i]) : lines[i][j] \in Nat
  BY <1>1, <1>4
<1>6. /\ P \in Seq(0..N) /\ P # <<>> /\ Len(P) = b - a + 1
      /\ \A k \in 1..(b - a + 1) : P[k] = a + k - 1
  BY ONLY PositionsAre, <1>1
<1> HIDE DEF P, N
<1>7. /\ T \in Seq(Seq(0..N)) /\ Len(T) = m + 1 /\ T[m + 1] = P
      /\ \A i \in 1..m : T[i] = lines[i]
  BY ONLY <1>3, <1>6
<1> HIDE DEF T, m
<1>8. \A k \in 1..Len(P) : P[k] \in Nat /\ a <= P[k] /\ P[k] <= b
  BY ONLY <1>1, <1>6
<1>9. \A i \in 1..Len(T) : i \in 1..m \/ i = m + 1 BY ONLY <1>3, <1>7
<1>10. ASSUME NEW i \in 1..Len(T) PROVE GoodLine(text, w, T[i])
  <2>1. CASE i \in 1..m BY <2>1, <1>7 DEF Laid, m
  <2>2. CASE i = m + 1
    <3>1. P[1] # 0 /\ P[Len(P)] # 0 BY ONLY <1>1, <1>6
    <3>2. ASSUME NEW j \in 1..(Len(P) - 1) PROVE P[j] # 0 /\ P[j + 1] = P[j] + 1
      <4> DEFINE L == b - a + 1
      <4>1. L \in Nat /\ Len(P) = L BY ONLY <1>1, <1>6
      <4> HIDE DEF L
      <4>2. j \in Nat /\ 1 <= j /\ j \in 1..L /\ j + 1 \in 1..L BY ONLY <3>2, <4>1
      <4>3. \A k \in 1..L : P[k] = a + k - 1 BY ONLY <1>6 DEF L
      <4>4. P[j] = a + j - 1 /\ P[j + 1] = a + (j + 1) - 1 BY ONLY <4>2, <4>3
      <4> QED BY ONLY <4>2, <4>4, <1>1
    <3>3. Printed!WordsApart(text, P) BY ONLY <3>2 DEF Printed!WordsApart, Printed!Joint
    <3> QED BY ONLY <2>2, <1>6, <1>7, <3>1, <3>3, Printed!Fits(text, w, P), N = Len(text) DEF GoodLine, P, N
  <2> QED BY ONLY <2>1, <2>2, <1>9
<1>11. BrokenWell(text, w, T)
  <2>1. ASSUME NEW i \in 1..(Len(T) - 1) PROVE Printed!BrokenBefore(text, w, T[i], T[i + 1][1])
    <3>1. CASE i \in 1..(m - 1)
      <4>1. T[i] = lines[i] /\ T[i + 1] = lines[i + 1] BY ONLY <3>1, <1>3, <1>7
      <4>2. BrokenWell(text, w, lines) BY DEF Laid
      <4> QED BY ONLY <3>1, <4>1, <4>2 DEF BrokenWell, m
    <3>2. CASE i = m
      <4>1. m \in 1..m /\ P[1] = a
        <5>1. Len(T) = m + 1 BY ONLY <1>7
        <5>2. m \in 1..m BY ONLY <2>1, <3>2, <1>3, <5>1
        <5>3. 1 \in 1..(b - a + 1) BY ONLY <1>1
        <5>4. P[1] = a + 1 - 1 BY ONLY <1>6, <5>3
        <5> QED BY ONLY <1>1, <5>2, <5>4
      <4>2. lines # <<>> BY ONLY <4>1, <1>3 DEF m
      <4>3. T[i] = lines[m] /\ T[i + 1] = P BY ONLY <4>1, <3>2, <1>7
      <4> QED BY <4>1, <4>2, <4>3 DEF m
    <3>3. i \in 1..(m - 1) \/ i = m BY ONLY <2>1, <1>3, <1>7
    <3> QED BY ONLY <3>1, <3>2, <3>3
  <2> QED BY ONLY <2>1 DEF BrokenWell
<1>12. \A i \in 1..m : \A j \in 1..Len(lines[i]) :
         lines[i][j] # 0 => lines[i][j] <= n /\ Printed!Solid(text, lines[i][j])
  BY DEF Laid, LettersUpTo, m
<1>13. LettersInOrder(T)
  <2> SUFFICES ASSUME NEW i \in 1..Len(T), NEW k \in 1..Len(T),
                      NEW j \in 1..Len(T[i]), NEW l \in 1..Len(T[k]),
                      T[i][j] # 0, T[k][l] # 0, i < k \/ (i = k /\ j < l)
               PROVE  T[i][j] < T[k][l]
    BY DEF LettersInOrder
  <2>1. CASE k \in 1..m
    <3>1. i \in 1..m BY ONLY <2>1, <1>3, <1>7, i \in 1..Len(T), i < k \/ (i = k /\ j < l)
    <3>2. T[i] = lines[i] /\ T[k] = lines[k] BY ONLY <2>1, <3>1, <1>7
    <3>3. LettersInOrder(lines) BY DEF Laid
    <3> QED BY <3>1, <3>2, <3>3, <2>1 DEF LettersInOrder, m
  <2>2. CASE k = m + 1 /\ i \in 1..m
    <3>1. T[i] = lines[i] /\ T[k] = P BY ONLY <2>2, <1>7
    <3>2. lines[i][j] <= n /\ lines[i][j] \in Nat BY ONLY <3>1, <2>2, <1>5, <1>12, j \in 1..Len(T[i]), T[i][j] # 0
    <3>3. a <= P[l] /\ P[l] \in Nat BY ONLY <3>1, <1>8, l \in 1..Len(T[k])
    <3>4. T[i][j] = lines[i][j] /\ T[k][l] = P[l] BY ONLY <3>1
    <3>5. lines[i][j] < P[l] BY ONLY <3>2, <3>3, <1>1, <1>2
    <3> QED BY ONLY <3>4, <3>5
  <2>3. CASE k = m + 1 /\ i = m + 1
    <3>1. j < l BY ONLY <2>3, <1>3, i < k \/ (i = k /\ j < l)
    <3>2. T[i] = P /\ T[k] = P BY ONLY <2>3, <1>7
    <3>3. j \in 1..(b - a + 1) /\ l \in 1..(b - a + 1)
      BY ONLY <3>2, <1>6, j \in 1..Len(T[i]), l \in 1..Len(T[k])
    <3>4. P[j] = a + j - 1 /\ P[l] = a + l - 1 BY ONLY <3>3, <1>6
    <3> QED BY ONLY <3>1, <3>2, <3>3, <3>4, <1>1
  <2>4. i \in 1..m \/ i = m + 1 BY ONLY <1>9, i \in 1..Len(T)
  <2>5. k \in 1..m \/ k = m + 1 BY ONLY <1>9, k \in 1..Len(T)
  <2>6. ~(i = m + 1 /\ k \in 1..m) BY ONLY <1>3, i < k \/ (i = k /\ j < l)
  <2> QED BY ONLY <2>1, <2>2, <2>3, <2>4, <2>5, <2>6
<1>14. LettersUpTo(text, T, b)
  <2> SUFFICES ASSUME NEW i \in 1..Len(T), NEW j \in 1..Len(T[i]), T[i][j] # 0
               PROVE  T[i][j] <= b /\ Printed!Solid(text, T[i][j])
    BY DEF LettersUpTo
  <2>1. CASE i \in 1..m
    <3>1. T[i] = lines[i] BY ONLY <2>1, <1>7
    <3>2. lines[i][j] \in Nat /\ lines[i][j] <= n /\ Printed!Solid(text, lines[i][j])
      BY ONLY <3>1, <2>1, <1>5, <1>12, j \in 1..Len(T[i]), T[i][j] # 0
    <3> QED BY ONLY <3>1, <3>2, <1>1, <1>2
  <2>2. CASE i = m + 1
    <3>1. T[i] = P BY ONLY <2>2, <1>7
    <3>2. P[j] \in Nat /\ a <= P[j] /\ P[j] <= b BY ONLY <3>1, <1>8, j \in 1..Len(T[i])
    <3>3. P[j] \in a..b BY ONLY <3>2, <1>1
    <3>4. Printed!Solid(text, P[j]) BY <3>3
    <3> QED BY ONLY <3>1, <3>2, <3>4
  <2> QED BY ONLY <2>1, <2>2, <1>9, i \in 1..Len(T)
<1>15. AllPlaced(text, T, b)
  <2> SUFFICES ASSUME NEW p \in 1..b, Printed!Solid(text, p)
               PROVE  \E i \in 1..Len(T) : \E j \in 1..Len(T[i]) : T[i][j] = p
    BY DEF AllPlaced
  <2>1. CASE p \in 1..n
    <3>1. PICK i \in 1..m : \E j \in 1..Len(lines[i]) : lines[i][j] = p
      BY <2>1 DEF Laid, AllPlaced, m
    <3>2. i \in 1..Len(T) /\ T[i] = lines[i] BY ONLY <1>3, <1>7, i \in 1..m
    <3> QED BY ONLY <3>1, <3>2
  <2>2. CASE p \in (n + 1)..(a - 1) BY <2>2 DEF Printed!Skipped
  <2>3. CASE p \in a..b
    <3>1. p - a + 1 \in 1..Len(P) BY ONLY <2>3, <1>1, <1>6
    <3>2. P[p - a + 1] = p BY ONLY <2>3, <3>1, <1>1, <1>6
    <3>3. m + 1 \in 1..Len(T) /\ T[m + 1] = P BY ONLY <1>3, <1>7
    <3> QED BY ONLY <3>1, <3>2, <3>3
  <2>4. p \in 1..n \/ p \in (n + 1)..(a - 1) \/ p \in a..b BY ONLY <1>1, <1>2, p \in 1..b
  <2> QED BY ONLY <2>1, <2>2, <2>3, <2>4
<1>16. b \in 0..Len(text) BY ONLY <1>1 DEF N
<1>17. T \in Seq(Seq(0..Len(text))) BY ONLY <1>7 DEF N
<1> QED BY ONLY <1>16, <1>17, <1>10, <1>11, <1>13, <1>14, <1>15 DEF Laid, T, P

\* The elements of a line are numbers.
LEMMA LineNumbers ==
  ASSUME NEW n \in Nat, NEW line \in Seq(0..n)
  PROVE  Len(line) \in Nat /\ \A j \in 1..Len(line) : line[j] \in Nat
OBVIOUS

\* The last line goes on: with a word behind it, or a letter.
LEMMA LongerLine ==
  ASSUME NEW text \in Seq(Printed!Encodable), NEW w, NEW lines, NEW n, Laid(text, w, lines, n),
         NEW a \in 1..Len(text), NEW b \in a..Len(text), n < a,
         Printed!Skipped(text, n + 1, a - 1), \A p \in a..b : Printed!Solid(text, p),
         NEW T \in Seq(Seq(0..Len(text))), Len(T) = Len(lines), NEW m \in 1..Len(lines),
         m = Len(lines), \A i \in 1..(m - 1) : T[i] = lines[i],
         GoodLine(text, w, T[m]), Len(lines[m]) <= Len(T[m]),
         \A j \in 1..Len(lines[m]) : T[m][j] = lines[m][j],
         \A j \in (Len(lines[m]) + 1)..Len(T[m]) : T[m][j] # 0 => T[m][j] \in a..b,
         \A j, l \in (Len(lines[m]) + 1)..Len(T[m]) :
           T[m][j] # 0 /\ T[m][l] # 0 /\ j < l => T[m][j] < T[m][l],
         \A p \in a..b : \E j \in 1..Len(T[m]) : T[m][j] = p
  PROVE  Laid(text, w, T, b)
<1> DEFINE N == Len(text)
           L == T[m]
           old == lines[m]
<1>1. /\ N \in Nat /\ a \in Nat /\ b \in Nat /\ 1 <= a /\ a <= b /\ b <= N
  OBVIOUS
<1>2. n \in Nat /\ n < a /\ n <= N BY <1>1 DEF Laid
<1>3. lines \in Seq(Seq(0..N)) BY DEF Laid
<1>4. m \in Nat /\ 1 <= m /\ Len(T) = m /\ Len(lines) = m BY <1>3
<1>5. \A i \in 1..m : lines[i] \in Seq(0..N) BY <1>3, <1>4
<1>6. \A i \in 1..m : Len(lines[i]) \in Nat /\ \A j \in 1..Len(lines[i]) : lines[i][j] \in Nat
  <2> SUFFICES ASSUME NEW i \in 1..m
               PROVE  Len(lines[i]) \in Nat /\ \A j \in 1..Len(lines[i]) : lines[i][j] \in Nat
    OBVIOUS
  <2>1. N \in Nat /\ lines[i] \in Seq(0..N) BY ONLY <1>1, <1>5, i \in 1..m
  <2> QED BY ONLY <2>1, LineNumbers
<1>7. /\ old \in Seq(0..N) /\ Len(old) \in Nat /\ \A j \in 1..Len(old) : old[j] \in Nat
      /\ old # <<>>
  BY <1>4, <1>5, <1>6 DEF Laid, GoodLine
<1>8. L \in Seq(0..N) /\ Len(L) \in Nat /\ \A j \in 1..Len(L) : L[j] \in Nat
  <2>1. L \in Seq(0..N) BY DEF GoodLine
  <2>2. N \in Nat BY ONLY <1>1
  <2> HIDE DEF L, N
  <2> QED BY ONLY <2>1, <2>2, LineNumbers
<1>9. /\ Len(old) <= Len(L) /\ \A j \in 1..Len(old) : L[j] = old[j]
      /\ \A j \in (Len(old) + 1)..Len(L) : L[j] # 0 => L[j] \in a..b
      /\ \A j, l \in (Len(old) + 1)..Len(L) : L[j] # 0 /\ L[l] # 0 /\ j < l => L[j] < L[l]
      /\ \A p \in a..b : \E j \in 1..Len(L) : L[j] = p
  OBVIOUS
<1>10. \A i \in 1..(m - 1) : T[i] = lines[i] OBVIOUS
<1>11. T[m] = L /\ lines[m] = old OBVIOUS
<1> HIDE DEF L, old, N
<1>12. \A i \in 1..Len(T) : i \in 1..(m - 1) \/ i = m BY ONLY <1>4
<1>0. \A x, y \in Nat : x <= n /\ a <= y => x < y BY ONLY <1>1, <1>2
<1>13. ASSUME NEW i \in 1..Len(T) PROVE GoodLine(text, w, T[i])
  <2>1. CASE i \in 1..(m - 1)
    <3>1. i \in 1..Len(lines) /\ T[i] = lines[i] BY ONLY <2>1, <1>4, <1>10
    <3> QED BY <3>1 DEF Laid
  <2>2. CASE i = m BY <2>2
  <2> QED BY ONLY <2>1, <2>2, <1>12, i \in 1..Len(T)
<1>14. BrokenWell(text, w, T)
  <2>1. ASSUME NEW i \in 1..(Len(T) - 1) PROVE Printed!BrokenBefore(text, w, T[i], T[i + 1][1])
    <3>1. i \in 1..(Len(lines) - 1) /\ T[i] = lines[i] BY ONLY <2>1, <1>4, <1>10
    <3>2. T[i + 1][1] = lines[i + 1][1]
      <4>1. CASE i + 1 = m
        <5>1. Len(old) # 0 BY ONLY <1>7
        <5>2. 1 \in 1..Len(old) BY ONLY <5>1, <1>7
        <5> QED BY ONLY <4>1, <5>2, <1>9, <1>11
      <4>2. CASE i + 1 # m
        <5>1. i + 1 \in 1..(m - 1) BY ONLY <2>1, <4>2, <1>4
        <5> QED BY ONLY <5>1, <1>10
      <4> QED BY ONLY <4>1, <4>2
    <3>3. BrokenWell(text, w, lines) BY DEF Laid
    <3> QED BY ONLY <3>1, <3>2, <3>3 DEF BrokenWell
  <2> QED BY ONLY <2>1 DEF BrokenWell
<1>15. \A i \in 1..m : \A j \in 1..Len(lines[i]) :
         lines[i][j] # 0 => lines[i][j] <= n /\ Printed!Solid(text, lines[i][j])
  BY <1>4 DEF Laid, LettersUpTo
<1>16. ASSUME NEW j \in 1..Len(L)
       PROVE  \/ j \in 1..Len(old) /\ L[j] = old[j]
              \/ j \in (Len(old) + 1)..Len(L) /\ (L[j] # 0 => L[j] \in Nat /\ a <= L[j] /\ L[j] <= b)
  <2>1. j \in 1..Len(old) \/ j \in (Len(old) + 1)..Len(L) BY ONLY <1>7, <1>8, j \in 1..Len(L)
  <2>2. \A x \in a..b : x \in Nat /\ a <= x /\ x <= b BY ONLY <1>1
  <2> QED BY ONLY <2>1, <2>2, <1>9
<1>17. LettersInOrder(T)
  <2> SUFFICES ASSUME NEW i \in 1..Len(T), NEW k \in 1..Len(T),
                      NEW j \in 1..Len(T[i]), NEW l \in 1..Len(T[k]),
                      T[i][j] # 0, T[k][l] # 0, i < k \/ (i = k /\ j < l)
               PROVE  T[i][j] < T[k][l]
    BY DEF LettersInOrder
  <2>0. LettersInOrder(lines) BY DEF Laid
  <2>1. CASE k \in 1..(m - 1)
    <3>1. i \in 1..(m - 1) BY ONLY <2>1, <1>4, i \in 1..Len(T), i < k \/ (i = k /\ j < l)
    <3>2. T[i] = lines[i] /\ T[k] = lines[k] BY ONLY <2>1, <3>1, <1>10
    <3>3. i \in 1..Len(lines) /\ k \in 1..Len(lines) BY ONLY <2>1, <3>1, <1>4
    <3> QED BY <2>0, <3>2, <3>3 DEF LettersInOrder
  <2>2. CASE k = m /\ i \in 1..(m - 1)
    <3>1. T[i] = lines[i] /\ T[k] = L BY ONLY <2>2, <1>10, <1>11
    <3>2. i \in 1..Len(lines) /\ m \in 1..Len(lines) /\ i \in 1..m /\ i < m BY ONLY <2>2, <1>4
    <3>3. j \in 1..Len(lines[i]) /\ lines[i][j] # 0 BY ONLY <3>1, j \in 1..Len(T[i]), T[i][j] # 0
    <3>4. lines[i][j] \in Nat /\ lines[i][j] <= n BY ONLY <3>2, <3>3, <1>6, <1>15
    <3>5. l \in 1..Len(L) /\ L[l] # 0 BY ONLY <3>1, l \in 1..Len(T[k]), T[k][l] # 0
    <3>6. CASE l \in 1..Len(old) /\ L[l] = old[l]
      <4>1. l \in 1..Len(lines[m]) /\ lines[m][l] # 0 BY ONLY <3>5, <3>6, <1>11
      <4>2. lines[i][j] < lines[m][l] BY ONLY <2>0, <3>2, <3>3, <4>1 DEF LettersInOrder
      <4> QED BY ONLY <3>1, <3>6, <4>2, <1>11
    <3>7. CASE L[l] \in Nat /\ a <= L[l]
      <4>1. lines[i][j] < L[l] BY ONLY <3>4, <3>7, <1>0
      <4> QED BY ONLY <3>1, <4>1
    <3> QED BY ONLY <3>5, <3>6, <3>7, <1>16
  <2>3. CASE k = m /\ i = m
    <3>1. j < l BY ONLY <2>3, <1>4, i < k \/ (i = k /\ j < l)
    <3>2. T[i] = L /\ T[k] = L BY ONLY <2>3, <1>11
    <3>3. /\ j \in 1..Len(L) /\ L[j] # 0 /\ l \in 1..Len(L) /\ L[l] # 0
          /\ j \in Nat /\ l \in Nat
      BY ONLY <3>2, <1>8, j \in 1..Len(T[i]), T[i][j] # 0, l \in 1..Len(T[k]), T[k][l] # 0
    <3>4. CASE l \in 1..Len(old)
      <4>1. j \in 1..Len(old) BY ONLY <3>1, <3>3, <3>4, <1>7
      <4>2. L[j] = old[j] /\ L[l] = old[l] BY ONLY <3>4, <4>1, <1>9
      <4>3. m \in 1..Len(lines) /\ j \in 1..Len(lines[m]) /\ l \in 1..Len(lines[m])
            /\ lines[m][j] # 0 /\ lines[m][l] # 0
        BY ONLY <4>1, <4>2, <3>3, <3>4, <1>4, <1>11
      <4>4. lines[m][j] < lines[m][l] BY ONLY <2>0, <3>1, <4>3 DEF LettersInOrder
      <4> QED BY ONLY <3>2, <4>2, <4>4, <1>11
    <3>5. CASE j \in 1..Len(old) /\ l \in (Len(old) + 1)..Len(L)
      <4>1. L[j] = old[j] /\ j \in 1..Len(lines[m]) /\ m \in 1..m BY ONLY <3>5, <1>4, <1>9, <1>11
      <4>2. lines[m][j] # 0 BY ONLY <4>1, <3>3, <1>11
      <4>3. lines[m][j] \in Nat /\ lines[m][j] <= n BY ONLY <4>1, <4>2, <1>6, <1>15
      <4>4. \A x \in a..b : x \in Nat /\ a <= x BY ONLY <1>1
      <4>5. L[l] \in Nat /\ a <= L[l] BY ONLY <3>3, <3>5, <4>4, <1>9
      <4>6. lines[m][j] < L[l] BY ONLY <4>3, <4>5, <1>0
      <4> QED BY ONLY <3>2, <4>1, <4>6, <1>11
    <3>6. CASE j \in (Len(old) + 1)..Len(L) /\ l \in (Len(old) + 1)..Len(L)
      BY ONLY <3>1, <3>2, <3>3, <3>6, <1>9
    <3>7. \/ l \in 1..Len(old)
          \/ j \in 1..Len(old) /\ l \in (Len(old) + 1)..Len(L)
          \/ j \in (Len(old) + 1)..Len(L) /\ l \in (Len(old) + 1)..Len(L)
      <4>1. \A x \in 1..Len(L) : x \in 1..Len(old) \/ x \in (Len(old) + 1)..Len(L)
        BY ONLY <1>7, <1>8
      <4> QED BY ONLY <3>3, <4>1
    <3> QED BY ONLY <3>4, <3>5, <3>6, <3>7
  <2>4. i \in 1..(m - 1) \/ i = m BY ONLY <1>12, i \in 1..Len(T)
  <2>5. k \in 1..(m - 1) \/ k = m BY ONLY <1>12, k \in 1..Len(T)
  <2>6. ~(i = m /\ k \in 1..(m - 1)) BY ONLY <1>4, i < k \/ (i = k /\ j < l)
  <2> QED BY ONLY <2>1, <2>2, <2>3, <2>4, <2>5, <2>6
<1>18. LettersUpTo(text, T, b)
  <2> SUFFICES ASSUME NEW i \in 1..Len(T), NEW j \in 1..Len(T[i]), T[i][j] # 0
               PROVE  T[i][j] <= b /\ Printed!Solid(text, T[i][j])
    BY DEF LettersUpTo
  <2>1. CASE \E j2 \in 1..Len(lines[i]) : i \in 1..m /\ T[i][j] = lines[i][j2]
    <3>1. PICK x \in 1..Len(lines[i]) : i \in 1..m /\ T[i][j] = lines[i][x] BY ONLY <2>1
    <3>2. /\ lines[i][x] \in Nat /\ lines[i][x] <= n /\ Printed!Solid(text, lines[i][x])
      BY ONLY <3>1, <1>6, <1>15, T[i][j] # 0
    <3>3. lines[i][x] <= b BY ONLY <3>2, <1>1, <1>2
    <3> QED BY ONLY <3>1, <3>2, <3>3
  <2>2. CASE T[i][j] \in a..b
    <3>1. Printed!Solid(text, T[i][j]) BY <2>2
    <3>2. T[i][j] <= b BY ONLY <2>2, <1>1
    <3> QED BY ONLY <3>1, <3>2
  <2>3. CASE i \in 1..(m - 1)
    <3>1. T[i] = lines[i] /\ i \in 1..m BY ONLY <2>3, <1>4, <1>10
    <3> QED BY ONLY <2>1, <3>1, j \in 1..Len(T[i])
  <2>4. CASE i = m
    <3>1. T[i] = L /\ j \in 1..Len(L) /\ m \in 1..m BY ONLY <2>4, <1>4, <1>11, j \in 1..Len(T[i])
    <3>2. CASE j \in 1..Len(old) /\ L[j] = old[j] BY ONLY <2>1, <2>4, <3>1, <3>2, <1>11
    <3>3. CASE j \in (Len(old) + 1)..Len(L) BY ONLY <2>2, <3>1, <3>3, <1>9, T[i][j] # 0
    <3> QED BY ONLY <3>1, <3>2, <3>3, <1>16
  <2> QED BY ONLY <2>3, <2>4, <1>12, i \in 1..Len(T)
<1>19. AllPlaced(text, T, b)
  <2> SUFFICES ASSUME NEW p \in 1..b, Printed!Solid(text, p)
               PROVE  \E i \in 1..Len(T) : \E j \in 1..Len(T[i]) : T[i][j] = p
    BY DEF AllPlaced
  <2>1. CASE p \in 1..n
    <3>1. PICK i \in 1..m : \E j \in 1..Len(lines[i]) : lines[i][j] = p
      BY <2>1, <1>4 DEF Laid, AllPlaced
    <3>2. PICK j \in 1..Len(lines[i]) : lines[i][j] = p BY ONLY <3>1
    <3>3. i \in 1..Len(T) BY ONLY <1>4, i \in 1..m
    <3>4. CASE i \in 1..(m - 1) BY ONLY <3>1, <3>3, <3>4, <1>10
    <3>5. CASE i = m
      <4>1. j \in 1..Len(old) /\ old[j] = p BY ONLY <3>2, <3>5, <1>11
      <4>2. j \in 1..Len(L) /\ L[j] = p BY ONLY <4>1, <1>7, <1>8, <1>9
      <4> QED BY ONLY <3>3, <3>5, <4>2, <1>11
    <3> QED BY ONLY <3>3, <3>4, <3>5, <1>12
  <2>2. CASE p \in (n + 1)..(a - 1) BY <2>2 DEF Printed!Skipped
  <2>3. CASE p \in a..b
    <3>1. m \in 1..Len(T) BY ONLY <1>4
    <3> QED BY ONLY <2>3, <3>1, <1>9, <1>11
  <2>4. p \in 1..n \/ p \in (n + 1)..(a - 1) \/ p \in a..b BY ONLY <1>1, <1>2, p \in 1..b
  <2> QED BY ONLY <2>1, <2>2, <2>3, <2>4
<1>20. b \in 0..Len(text) BY ONLY <1>1 DEF N
<1> QED BY ONLY <1>20, T \in Seq(Seq(0..Len(text))), <1>13, <1>14, <1>17, <1>18, <1>19 DEF Laid

\* A character is printed with characters of the fonts.
LEMMA Printable ==
  ASSUME NEW c PROVE Printed!SafeCharacter(c) \in Seq(Printed!Encodable)
<1>1. /\ <<"-", ">">> \in Seq(Printed!Encodable) /\ <<" ">> \in Seq(Printed!Encodable)
      /\ <<"?">> \in Seq(Printed!Encodable) /\ <<"a">> \in Seq(Printed!Encodable)
      /\ <<>> \in Seq(Printed!Encodable)
  BY DEF Printed!Encodable
<1>2. ASSUME c \in DOMAIN Printed!Transliterations
      PROVE  Printed!Transliterations[c] \in Seq(Printed!Encodable)
  <2>1. c \in {"arrow", "thin", "joiner"} BY ONLY <1>2 DEF Printed!Transliterations
  <2>2. CASE c = "arrow" BY ONLY <2>2, <1>1 DEF Printed!Transliterations
  <2>3. CASE c = "thin" BY ONLY <2>3, <1>1 DEF Printed!Transliterations
  <2>4. CASE c = "joiner" BY ONLY <2>4, <1>1 DEF Printed!Transliterations
  <2> QED BY ONLY <2>1, <2>2, <2>3, <2>4
<1>3. ASSUME c \in DOMAIN Printed!Accented
      PROVE  <<Printed!Accented[c]>> \in Seq(Printed!Encodable)
  <2>1. c = "amacron" BY ONLY <1>3 DEF Printed!Accented
  <2>2. Printed!Accented[c] = "a" BY ONLY <2>1 DEF Printed!Accented
  <2> QED BY ONLY <2>2, <1>1
<1>4. c \in Printed!Encodable => <<c>> \in Seq(Printed!Encodable) OBVIOUS
<1> QED BY ONLY <1>1, <1>2, <1>3, <1>4 DEF Printed!SafeCharacter

\* Blanks are no part of a line.
LEMMA BlanksSkipped ==
  ASSUME NEW text \in Seq(Printed!Encodable), NEW w, NEW lines, NEW n, Laid(text, w, lines, n),
         NEW m \in n..Len(text), Printed!Skipped(text, n + 1, m)
  PROVE  Laid(text, w, lines, m)
<1>1. n \in Nat /\ m \in Nat /\ n <= m /\ m <= Len(text) BY DEF Laid
<1>2. LettersUpTo(text, lines, m)
  <2> SUFFICES ASSUME NEW i \in 1..Len(lines), NEW j \in 1..Len(lines[i]), lines[i][j] # 0
               PROVE  lines[i][j] <= m /\ Printed!Solid(text, lines[i][j])
    BY DEF LettersUpTo
  <2>1. lines[i][j] <= n /\ Printed!Solid(text, lines[i][j]) BY DEF Laid, LettersUpTo
  <2>2. lines[i] \in Seq(0..Len(text)) /\ Len(text) \in Nat BY DEF Laid
  <2>3. lines[i][j] \in Nat BY ONLY <2>2, LineNumbers, j \in 1..Len(lines[i])
  <2> QED BY ONLY <2>1, <2>3, <1>1
<1>3. AllPlaced(text, lines, m)
  <2> SUFFICES ASSUME NEW p \in 1..m, Printed!Solid(text, p)
               PROVE  \E i \in 1..Len(lines) : \E j \in 1..Len(lines[i]) : lines[i][j] = p
    BY DEF AllPlaced
  <2>1. p \in 1..n \/ p \in (n + 1)..m BY ONLY <1>1, p \in 1..m
  <2>2. p \in 1..n BY <2>1 DEF Printed!Skipped
  <2> QED BY <2>2 DEF Laid, AllPlaced
<1>4. m \in 0..Len(text) BY <1>1
<1> QED BY <1>2, <1>3, <1>4 DEF Laid

\* No line holds no character.
LEMMA NothingLaid ==
  ASSUME NEW text \in Seq(Printed!Encodable), NEW w PROVE Laid(text, w, <<>>, 0)
<1>1. <<>> \in Seq(Seq(0..Len(text))) /\ Len(<<>>) = 0 /\ 0 \in 0..Len(text) OBVIOUS
<1>2. 1..0 = {} /\ 1..(0 - 1) = {} OBVIOUS
<1> QED BY ONLY <1>1, <1>2 DEF Laid, BrokenWell, LettersInOrder, LettersUpTo, AllPlaced

\* Complete lines, with the line under way when there is one.
LEMMA FlushedIs ==
  /\ txCurrent = <<>> => Printed!Flushed = txLines
  /\ txCurrent # <<>> => Printed!Flushed = Append(txLines, txCurrent)
BY DEF Printed!Flushed

\* When the work begins nothing is typed.
LEMMA TextInit == Printed!Init => TextInv
<1> SUFFICES ASSUME Printed!Init PROVE TextInv OBVIOUS
<1>1. Printed!TypeOK
  <2>1. <<>> \in Seq(Printed!Encodable) /\ <<>> \in Seq(Seq(0..0)) /\ <<>> \in Seq(0..0)
        /\ Len(<<>>) = 0 /\ 0 \in 0..0
    OBVIOUS
  <2> QED BY <2>1 DEF Printed!Init, Printed!TypeOK
<1> QED BY <1>1 DEF Printed!Init, TextInv

\* A character is typed.
LEMMA TypingKeeps == TextInv /\ Printed!TypeCharacter => TextInv'
<1> SUFFICES ASSUME TextInv, Printed!TypeCharacter PROVE TextInv' OBVIOUS
<1>1. /\ txStep = "typing" /\ txAt = 0 /\ txLines = <<>> /\ txCurrent = <<>>
      /\ txSafe \in Seq(Printed!Encodable) /\ txWidth \in Widths
  BY DEF TextInv, Printed!TypeOK, Printed!TypeCharacter
<1>2. PICK c \in Typed : txSafe' = txSafe \o Printed!SafeCharacter(c) BY DEF Printed!TypeCharacter
<1>3. UNCHANGED <<txWidth, txStep, txAt, txLines, txCurrent>> BY DEF Printed!TypeCharacter
<1>4. txSafe' \in Seq(Printed!Encodable) BY <1>1, <1>2, Printable
<1>5. Printed!TypeOK'
  <2>1. /\ Len(txSafe') \in Nat /\ 0 \in 0..Len(txSafe')
        /\ <<>> \in Seq(0..Len(txSafe')) /\ <<>> \in Seq(Seq(0..Len(txSafe')))
    BY <1>4
  <2> QED BY <1>1, <1>3, <1>4, <2>1 DEF Printed!TypeOK
<1> QED BY <1>1, <1>3, <1>5 DEF TextInv

\* The text is complete.
LEMMA WrapKeeps == TextInv /\ Printed!Wrap => TextInv'
<1> SUFFICES ASSUME TextInv, Printed!Wrap PROVE TextInv' OBVIOUS
<1>1. /\ txStep = "typing" /\ txAt = 0 /\ txLines = <<>> /\ txCurrent = <<>>
      /\ txSafe \in Seq(Printed!Encodable)
  BY DEF TextInv, Printed!TypeOK, Printed!Wrap
<1>2. txStep' = "words" /\ UNCHANGED <<txSafe, txWidth, txAt, txLines, txCurrent>>
  BY DEF Printed!Wrap
<1>3. Printed!TypeOK' BY <1>2 DEF TextInv, Printed!TypeOK
<1>4. Laid(txSafe, txWidth, <<>>, 0) BY <1>1, NothingLaid
<1>5. Printed!Flushed' = <<>> BY <1>1, <1>2 DEF Printed!Flushed
<1> QED BY <1>1, <1>2, <1>3, <1>4, <1>5 DEF TextInv

\* A word behind the current line.
LEMMA WordOnLine ==
  ASSUME NEW text \in Seq(Printed!Encodable), NEW w, NEW lines \in Seq(Seq(0..Len(text))),
         NEW unfinished \in Seq(0..Len(text)), unfinished # <<>>, NEW n,
         Laid(text, w, Append(lines, unfinished), n), unfinished[Len(unfinished)] = n, Printed!Ends(text, n),
         NEW a \in 1..Len(text), NEW b \in a..Len(text), n < a,
         Printed!Skipped(text, n + 1, a - 1), Printed!IsWord(text, a, b),
         Printed!Fits(text, w, Printed!Joined(unfinished, Printed!Positions(a, b)))
  PROVE  LET candidate == Printed!Joined(unfinished, Printed!Positions(a, b)) IN
         /\ Laid(text, w, Append(lines, candidate), b)
         /\ candidate \in Seq(0..Len(text)) /\ candidate # <<>> /\ candidate[Len(candidate)] = b
<1> DEFINE N == Len(text)
           P == Printed!Positions(a, b)
           J == Printed!Joined(unfinished, P)
           F == Append(lines, unfinished)
           T == Append(lines, J)
           c == Len(unfinished)
           m == Len(lines) + 1
<1>1. /\ N \in Nat /\ a \in Nat /\ b \in Nat /\ 1 <= a /\ a <= b /\ b <= N
  OBVIOUS
<1>2. /\ P \in Seq(0..N) /\ P # <<>> /\ Len(P) = b - a + 1
      /\ \A k \in 1..(b - a + 1) : P[k] = a + k - 1
  <2> HIDE DEF P, N
  <2> QED BY ONLY PositionsAre, <1>1 DEF P
<1>3. unfinished \in Seq(0..N) /\ unfinished # <<>> /\ c \in Nat \ {0} OBVIOUS
<1> HIDE DEF P, N, c
<1>4. /\ J \in Seq(0..N) /\ Len(J) = c + 1 + Len(P)
      /\ \A j \in 1..c : J[j] = unfinished[j]
      /\ J[c + 1] = 0
      /\ \A k \in 1..Len(P) : J[c + 1 + k] = P[k]
  BY ONLY <1>1, <1>2, <1>3, JoinedIs DEF c
<1> HIDE DEF J
<1>5. /\ Len(J) \in Nat /\ c < Len(J) /\ Len(J) = c + 1 + (b - a + 1)
      /\ \A j \in (c + 2)..Len(J) : J[j] = a + (j - c - 2)
  <2>1. Len(J) = c + 1 + (b - a + 1) BY ONLY <1>2, <1>4
  <2>2. ASSUME NEW j \in (c + 2)..Len(J) PROVE J[j] = a + (j - c - 2)
    <3>1. PICK k \in 1..(b - a + 1) : j = c + 1 + k
      <4>1. j - c - 1 \in 1..(b - a + 1) /\ j = c + 1 + (j - c - 1) BY ONLY <2>1, <1>1, <1>3, j \in (c + 2)..Len(J)
      <4> QED BY ONLY <4>1
    <3>2. J[j] = P[k] BY ONLY <3>1, <1>2, <1>4
    <3>3. P[k] = a + k - 1 BY ONLY <1>2, k \in 1..(b - a + 1)
    <3> QED BY ONLY <3>1, <3>2, <3>3, <1>1, <1>3
  <2> QED BY ONLY <2>1, <2>2, <1>1, <1>3
<1>6. J[Len(J)] = b /\ b # 0
  <2>1. Len(J) \in (c + 2)..Len(J) BY ONLY <1>1, <1>3, <1>5
  <2> QED BY ONLY <2>1, <1>1, <1>3, <1>5
<1>7. m \in 1..Len(F) /\ m = Len(F) /\ F[m] = unfinished /\ \A i \in 1..(m - 1) : F[i] = lines[i]
  OBVIOUS
<1>8. /\ T \in Seq(Seq(0..N)) /\ Len(T) = Len(F) /\ T[m] = J /\ \A i \in 1..(m - 1) : T[i] = F[i]
  <2>1. T \in Seq(Seq(0..N)) BY <1>4 DEF N
  <2> QED BY <2>1, <1>7
<1>9. GoodLine(text, w, unfinished) BY <1>7 DEF Laid
<1>10. Printed!WordsApart(text, J)
  <2> SUFFICES ASSUME NEW j \in 1..(Len(J) - 1)
               PROVE  \/ J[j] # 0 /\ J[j + 1] = J[j] + 1
                      \/ J[j] = 0 /\ J[j + 1] # 0 /\ Printed!Begins(text, J[j + 1])
                      \/ J[j] # 0 /\ J[j + 1] = 0 /\ j + 1 < Len(J) /\ Printed!Ends(text, J[j])
    BY DEF Printed!WordsApart, Printed!Joint
  <2>1. CASE j \in 1..(c - 1)
    <3>0. j \in 1..c /\ j + 1 \in 1..c BY ONLY <2>1, <1>3
    <3>1. J[j] = unfinished[j] /\ J[j + 1] = unfinished[j + 1] BY ONLY <3>0, <1>4
    <3>2. Printed!WordsApart(text, unfinished) BY ONLY <1>9 DEF GoodLine
    <3>3. \/ unfinished[j] # 0 /\ unfinished[j + 1] = unfinished[j] + 1
          \/ unfinished[j] = 0 /\ unfinished[j + 1] # 0 /\ Printed!Begins(text, unfinished[j + 1])
          \/ unfinished[j] # 0 /\ unfinished[j + 1] = 0 /\ j + 1 < c /\ Printed!Ends(text, unfinished[j])
      BY ONLY <2>1, <3>2 DEF Printed!WordsApart, Printed!Joint, c
    <3>4. j + 1 < c => j + 1 < Len(J) BY ONLY <2>1, <1>3, <1>5
    <3> QED BY ONLY <3>1, <3>3, <3>4
  <2>2. CASE j = c
    <3>1. J[j] = n /\ J[j + 1] = 0 BY <2>2, <1>3, <1>4 DEF c
    <3>2. n # 0 BY <1>3, <1>9 DEF GoodLine, c
    <3>3. j + 1 < Len(J) BY ONLY <2>2, <1>1, <1>3, <1>5
    <3> QED BY ONLY <3>1, <3>2, <3>3, Printed!Ends(text, n)
  <2>3. CASE j = c + 1
    <3>1. J[j] = 0 BY ONLY <2>3, <1>4
    <3>2. J[j + 1] = a
      <4>1. j + 1 \in (c + 2)..Len(J) BY ONLY <2>3, <1>1, <1>3, <1>5
      <4> QED BY ONLY <4>1, <2>3, <1>1, <1>3, <1>5
    <3>3. Printed!Begins(text, a) BY DEF Printed!IsWord
    <3> QED BY ONLY <3>1, <3>2, <3>3, <1>1
  <2>4. CASE j \in (c + 2)..(Len(J) - 1)
    <3>1. j \in (c + 2)..Len(J) /\ j + 1 \in (c + 2)..Len(J) BY ONLY <2>4, <1>3, <1>5
    <3>2. J[j] = a + (j - c - 2) BY ONLY <3>1, <1>5
    <3>3. J[j + 1] = a + ((j + 1) - c - 2)
      <4> DEFINE next == j + 1
      <4>1. next \in (c + 2)..Len(J) BY ONLY <3>1
      <4> HIDE DEF next
      <4>2. J[next] = a + (next - c - 2) BY ONLY <4>1, <1>5
      <4> QED BY ONLY <4>2 DEF next
    <3> QED BY ONLY <2>4, <3>2, <3>3, <1>1, <1>3, <1>5
  <2>5. j \in 1..(c - 1) \/ j = c \/ j = c + 1 \/ j \in (c + 2)..(Len(J) - 1)
    BY ONLY <1>3, <1>5, j \in 1..(Len(J) - 1)
  <2> QED BY ONLY <2>1, <2>2, <2>3, <2>4, <2>5
<1>11. J # <<>> BY ONLY <1>3, <1>5
<1>12. GoodLine(text, w, J)
  <2>1. unfinished[1] # 0 BY ONLY <1>9 DEF GoodLine
  <2>2. J[1] = unfinished[1] BY ONLY <1>3, <1>4
  <2>3. J \in Seq(0..Len(text)) BY ONLY <1>4 DEF N
  <2>4. Printed!Fits(text, w, J) BY DEF J, P
  <2> QED BY ONLY <2>1, <2>2, <2>3, <2>4, <1>6, <1>10, <1>11 DEF GoodLine
<1>13. \A p \in a..b : Printed!Solid(text, p) BY DEF Printed!IsWord
<1>14. \A j \in (c + 1)..Len(J) : J[j] # 0 => J[j] \in a..b /\ j \in (c + 2)..Len(J)
  <2> SUFFICES ASSUME NEW j \in (c + 1)..Len(J), J[j] # 0 PROVE J[j] \in a..b /\ j \in (c + 2)..Len(J)
    OBVIOUS
  <2>1. j # c + 1 BY ONLY <1>4, J[j] # 0
  <2>2. j \in (c + 2)..Len(J) BY ONLY <2>1, <1>3, <1>5, j \in (c + 1)..Len(J)
  <2>3. J[j] = a + (j - c - 2) BY ONLY <2>2, <1>5
  <2> QED BY ONLY <2>2, <2>3, <1>1, <1>3, <1>5
<1>15. \A j, l \in (c + 1)..Len(J) : J[j] # 0 /\ J[l] # 0 /\ j < l => J[j] < J[l]
  <2> SUFFICES ASSUME NEW j \in (c + 1)..Len(J), NEW l \in (c + 1)..Len(J), J[j] # 0, J[l] # 0, j < l
               PROVE  J[j] < J[l]
    OBVIOUS
  <2>1. j \in (c + 2)..Len(J) /\ l \in (c + 2)..Len(J)
    BY ONLY <1>14, j \in (c + 1)..Len(J), l \in (c + 1)..Len(J), J[j] # 0, J[l] # 0
  <2>2. J[j] = a + (j - c - 2) /\ J[l] = a + (l - c - 2) BY ONLY <2>1, <1>5
  <2> QED BY ONLY <2>1, <2>2, <1>1, <1>3, <1>5, j < l
<1>16. \A p \in a..b : \E j \in 1..Len(J) : J[j] = p
  <2> SUFFICES ASSUME NEW p \in a..b PROVE \E j \in 1..Len(J) : J[j] = p OBVIOUS
  <2>1. (p - a) + c + 2 \in (c + 2)..Len(J) BY ONLY <1>1, <1>3, <1>5, p \in a..b
  <2>2. J[(p - a) + c + 2] = p BY ONLY <2>1, <1>1, <1>3, <1>5, p \in a..b
  <2>3. (p - a) + c + 2 \in 1..Len(J) BY ONLY <2>1, <1>3, <1>5
  <2> QED BY ONLY <2>2, <2>3
<1> HIDE DEF T, F, m
<1>17. Laid(text, w, T, b)
  <2>1. T \in Seq(Seq(0..Len(text))) BY ONLY <1>8 DEF N
  <2>2. Len(F[m]) = c /\ c <= Len(T[m]) BY ONLY <1>3, <1>5, <1>7, <1>8 DEF c
  <2>3. Laid(text, w, F, n) BY DEF F
  <2>4. b \in a..Len(text) OBVIOUS
  <2>5. GoodLine(text, w, T[m]) BY ONLY <1>12, <1>8
  <2>6. \A j \in 1..Len(F[m]) : T[m][j] = F[m][j] BY ONLY <2>2, <1>4, <1>7, <1>8
  <2>7. \A j \in (Len(F[m]) + 1)..Len(T[m]) : T[m][j] # 0 => T[m][j] \in a..b BY ONLY <2>2, <1>14, <1>8
  <2>8. \A j, l \in (Len(F[m]) + 1)..Len(T[m]) : T[m][j] # 0 /\ T[m][l] # 0 /\ j < l => T[m][j] < T[m][l]
    BY ONLY <2>2, <1>15, <1>8
  <2>9. \A p \in a..b : \E j \in 1..Len(T[m]) : T[m][j] = p BY ONLY <1>16, <1>8
  <2>10. m \in 1..Len(F) /\ m = Len(F) /\ Len(T) = Len(F) /\ \A i \in 1..(m - 1) : T[i] = F[i]
    BY ONLY <1>7, <1>8
  <2>11. Len(F[m]) <= Len(T[m]) BY ONLY <2>2
  <2> QED
    BY ONLY <2>1, <2>3, <2>4, <2>5, <2>6, <2>7, <2>8, <2>9, <2>10, <2>11, <1>13, LongerLine, text \in Seq(Printed!Encodable),
       a \in 1..Len(text), n < a, Printed!Skipped(text, n + 1, a - 1)
<1>18. J \in Seq(0..Len(text)) BY ONLY <1>4 DEF N
<1> QED BY ONLY <1>6, <1>11, <1>17, <1>18 DEF T, J, P

\* A letter behind the current chunk.
LEMMA LetterOnLine ==
  ASSUME NEW text \in Seq(Printed!Encodable), NEW w, NEW lines \in Seq(Seq(0..Len(text))),
         NEW unfinished \in Seq(0..Len(text)), unfinished # <<>>, NEW n,
         Laid(text, w, Append(lines, unfinished), n), unfinished[Len(unfinished)] = n,
         n + 1 \in 1..Len(text), Printed!Solid(text, n + 1),
         Printed!Fits(text, w, Append(unfinished, n + 1))
  PROVE  Laid(text, w, Append(lines, Append(unfinished, n + 1)), n + 1)
<1> DEFINE N == Len(text)
           a == n + 1
           J == Append(unfinished, a)
           F == Append(lines, unfinished)
           T == Append(lines, J)
           c == Len(unfinished)
           m == Len(lines) + 1
<1>1. n \in Nat /\ N \in Nat /\ a \in 1..N /\ a \in Nat /\ n < a BY DEF Laid
<1>2. unfinished \in Seq(0..N) /\ c \in Nat \ {0} OBVIOUS
<1>3. m \in 1..Len(F) /\ m = Len(F) /\ F[m] = unfinished /\ \A i \in 1..(m - 1) : F[i] = lines[i]
  OBVIOUS
<1>4. J \in Seq(0..N) /\ Len(J) = c + 1 /\ J[c + 1] = a /\ \A j \in 1..c : J[j] = unfinished[j]
  BY <1>1, <1>2
<1>5. /\ T \in Seq(Seq(0..N)) /\ Len(T) = Len(F) /\ T[m] = J /\ \A i \in 1..(m - 1) : T[i] = F[i]
  BY <1>3, <1>4
<1>6. GoodLine(text, w, unfinished) BY <1>3 DEF Laid
<1>7. unfinished[c] = n /\ n # 0 BY <1>6 DEF GoodLine
<1>8. a \in a..a /\ a \in 1..Len(text) /\ a \in a..Len(text) BY <1>1
<1>9. Printed!Solid(text, a) /\ Printed!Fits(text, w, J) OBVIOUS
<1>10. Laid(text, w, F, n) OBVIOUS
<1>11. Len(J) \in Nat BY ONLY <1>2, <1>4
<1> HIDE DEF N, J, F, T, c, m, a
<1>12. Printed!WordsApart(text, J)
  <2> SUFFICES ASSUME NEW j \in 1..(Len(J) - 1)
               PROVE  \/ J[j] # 0 /\ J[j + 1] = J[j] + 1
                      \/ J[j] = 0 /\ J[j + 1] # 0 /\ Printed!Begins(text, J[j + 1])
                      \/ J[j] # 0 /\ J[j + 1] = 0 /\ j + 1 < Len(J) /\ Printed!Ends(text, J[j])
    BY DEF Printed!WordsApart, Printed!Joint
  <2>1. CASE j \in 1..(c - 1)
    <3>0. j \in 1..c /\ j + 1 \in 1..c BY ONLY <2>1, <1>2
    <3>1. J[j] = unfinished[j] /\ J[j + 1] = unfinished[j + 1] BY ONLY <3>0, <1>4
    <3>2. Printed!WordsApart(text, unfinished) BY ONLY <1>6 DEF GoodLine
    <3>3. \/ unfinished[j] # 0 /\ unfinished[j + 1] = unfinished[j] + 1
          \/ unfinished[j] = 0 /\ unfinished[j + 1] # 0 /\ Printed!Begins(text, unfinished[j + 1])
          \/ unfinished[j] # 0 /\ unfinished[j + 1] = 0 /\ j + 1 < c /\ Printed!Ends(text, unfinished[j])
      BY ONLY <2>1, <3>2 DEF Printed!WordsApart, Printed!Joint, c
    <3>4. j + 1 < c => j + 1 < Len(J) BY ONLY <2>1, <1>2, <1>4
    <3> QED BY ONLY <3>1, <3>3, <3>4
  <2>2. CASE j = c
    <3>1. J[j] = n /\ J[j + 1] = a BY ONLY <2>2, <1>2, <1>4, <1>7
    <3> QED BY ONLY <3>1, <1>7 DEF a
  <2>3. j \in 1..(c - 1) \/ j = c BY ONLY <1>2, <1>4, j \in 1..(Len(J) - 1)
  <2> QED BY ONLY <2>1, <2>2, <2>3
<1>13. GoodLine(text, w, J)
  <2>1. unfinished[1] # 0 BY ONLY <1>6 DEF GoodLine
  <2>2. J[1] = unfinished[1] /\ J[Len(J)] = a /\ a # 0 /\ J # <<>> BY ONLY <1>1, <1>2, <1>4
  <2>3. J \in Seq(0..Len(text)) BY ONLY <1>4 DEF N
  <2> QED BY ONLY <2>1, <2>2, <2>3, <1>9, <1>12 DEF GoodLine
<1>14. \A j \in (c + 1)..Len(J) : j = c + 1 /\ J[j] = a
  <2>1. \A j \in (c + 1)..Len(J) : j = c + 1 BY ONLY <1>2, <1>4
  <2> QED BY ONLY <2>1, <1>4
<1>15. T \in Seq(Seq(0..Len(text))) BY ONLY <1>5 DEF N
<1>16. Len(F[m]) = c /\ Len(T[m]) = Len(J) /\ c <= Len(J) BY ONLY <1>2, <1>3, <1>4, <1>5 DEF c
<1>17. GoodLine(text, w, T[m]) BY ONLY <1>13, <1>5
<1>18. \A j \in 1..Len(F[m]) : T[m][j] = F[m][j] BY ONLY <1>16, <1>3, <1>4, <1>5
<1>19. \A j \in (Len(F[m]) + 1)..Len(T[m]) : T[m][j] # 0 => T[m][j] \in a..a
  BY ONLY <1>16, <1>5, <1>8, <1>14
<1>20. \A j, l \in (Len(F[m]) + 1)..Len(T[m]) : T[m][j] # 0 /\ T[m][l] # 0 /\ j < l => T[m][j] < T[m][l]
  <2>1. \A j, l \in (c + 1)..Len(J) : ~(j < l) BY ONLY <1>14, <1>2
  <2> QED BY ONLY <1>16, <2>1
<1>21. \A p \in a..a : p = a BY ONLY <1>1
<1>22. \A p \in a..a : \E j \in 1..Len(T[m]) : T[m][j] = p
  <2>1. c + 1 \in 1..Len(T[m]) /\ T[m][c + 1] = a BY ONLY <1>2, <1>4, <1>5, <1>16
  <2> QED BY ONLY <2>1, <1>21
<1>23. \A p \in a..a : Printed!Solid(text, p) BY ONLY <1>9, <1>21
<1>24. Printed!Skipped(text, n + 1, a - 1)
  <2>1. (n + 1)..(a - 1) = {} BY ONLY <1>1 DEF a
  <2> QED BY ONLY <2>1 DEF Printed!Skipped
<1>25. m \in 1..Len(F) /\ m = Len(F) /\ Len(T) = Len(F) /\ \A i \in 1..(m - 1) : T[i] = F[i]
  BY ONLY <1>3, <1>5
<1>26. Len(F[m]) <= Len(T[m]) BY ONLY <1>16
<1>27. n < a BY ONLY <1>1
<1>28. Laid(text, w, T, a)
  BY ONLY <1>8, <1>10, <1>15, <1>17, <1>18, <1>19, <1>20, <1>22, <1>23, <1>24, <1>25, <1>26,
     <1>27, LongerLine, text \in Seq(Printed!Encodable)
<1> QED BY ONLY <1>28 DEF T, J, a

\* Where the work stands while the words are placed.
LEMMA Working ==
  ASSUME TextInv, txStep \in {"words", "chopping"}
  PROVE  /\ txSafe \in Seq(Printed!Encodable) /\ txWidth \in Widths
         /\ txAt \in Nat /\ txAt <= Len(txSafe) /\ Len(txSafe) \in Nat
         /\ txLines \in Seq(Seq(0..Len(txSafe))) /\ txCurrent \in Seq(0..Len(txSafe))
         /\ Laid(txSafe, txWidth, Printed!Flushed, txAt)
         /\ Printed!Flushed \in Seq(Seq(0..Len(txSafe)))
         /\ txCurrent # <<>> => txCurrent[Len(txCurrent)] = txAt
<1>1. Printed!TypeOK BY DEF TextInv
<1>2. Laid(txSafe, txWidth, Printed!Flushed, txAt) /\ (txCurrent # <<>> => txCurrent[Len(txCurrent)] = txAt)
  BY DEF TextInv
<1>3. Len(txSafe) \in Nat BY <1>1 DEF Printed!TypeOK
<1>4. txAt \in Nat /\ txAt <= Len(txSafe) BY <1>1, <1>3 DEF Printed!TypeOK
<1>5. Printed!Flushed \in Seq(Seq(0..Len(txSafe))) BY ONLY <1>2 DEF Laid
<1> QED BY ONLY <1>1, <1>2, <1>3, <1>4, <1>5 DEF Printed!TypeOK

\* A state that TextInv admits while the words are placed.
LEMMA StillWorking ==
  ASSUME NEW text \in Seq(Printed!Encodable), text = txSafe, NEW w \in Widths, w = txWidth,
         UNCHANGED <<txSafe, txWidth>>,
         NEW lines \in Seq(Seq(0..Len(text))), NEW unfinished \in Seq(0..Len(text)),
         txLines' = lines, txCurrent' = unfinished, NEW n, txAt' = n,
         txStep' \in {"words", "chopping"},
         Laid(text, w, IF unfinished = <<>> THEN lines ELSE Append(lines, unfinished), n),
         unfinished # <<>> => unfinished[Len(unfinished)] = n,
         txStep' = "words" => unfinished # <<>> /\ Printed!Ends(text, n),
         txStep' = "chopping" => TooLong(text, w, lines, unfinished, n)
  PROVE  TextInv'
<1>1. n \in 0..Len(text) BY DEF Laid
<1>2. Printed!TypeOK' BY <1>1 DEF Printed!TypeOK
<1>3. Printed!Flushed' = IF unfinished = <<>> THEN lines ELSE Append(lines, unfinished)
  BY DEF Printed!Flushed
<1>4. Laid(txSafe, txWidth, Printed!Flushed, txAt)' BY <1>3
<1>5. /\ txStep' = "words" => txCurrent' # <<>> /\ Printed!Ends(txSafe, txAt)'
      /\ txStep' = "chopping" => TooLong(txSafe, txWidth, txLines, txCurrent, txAt)'
      /\ txCurrent' # <<>> => txCurrent'[Len(txCurrent')] = txAt'
  OBVIOUS
<1>6. txStep' # "typing" /\ txStep' # "done" OBVIOUS
<1> QED BY ONLY <1>2, <1>4, <1>5, <1>6 DEF TextInv

\* A word is placed, or is going to be chopped.
LEMMA PlacingKeeps == TextInv /\ Printed!PlaceWord => TextInv'
<1> SUFFICES ASSUME TextInv, Printed!PlaceWord PROVE TextInv' OBVIOUS
<1>1. txStep = "words" /\ UNCHANGED <<txSafe, txWidth>> BY DEF Printed!PlaceWord
<1> DEFINE S == txSafe
           W == txWidth
           F == Printed!Flushed
<1>2. /\ S \in Seq(Printed!Encodable) /\ W \in Widths
      /\ txAt \in Nat /\ txAt <= Len(S) /\ Len(S) \in Nat
      /\ txLines \in Seq(Seq(0..Len(S))) /\ txCurrent \in Seq(0..Len(S))
      /\ Laid(S, W, F, txAt) /\ F \in Seq(Seq(0..Len(S)))
      /\ txCurrent # <<>> => txCurrent[Len(txCurrent)] = txAt
  BY <1>1, Working
<1>3. /\ txCurrent = <<>> => txLines = <<>> /\ F = <<>>
      /\ txCurrent # <<>> => Printed!Ends(S, txAt) /\ F = Append(txLines, txCurrent)
  BY <1>1, FlushedIs DEF TextInv
<1> DEFINE Word(a, b) == Printed!Positions(a, b)
           Candidate(a, b) == Printed!Joined(txCurrent, Printed!Positions(a, b))
<1>4. PICK a \in (txAt + 1)..Len(S) : \E b \in a..Len(S) :
        /\ Printed!IsWord(S, a, b) /\ Printed!Skipped(S, txAt + 1, a - 1)
        /\ \/ /\ Printed!Fits(S, W, Candidate(a, b))
              /\ txCurrent' = Candidate(a, b) /\ txAt' = b
              /\ UNCHANGED <<txLines, txStep>>
           \/ /\ ~Printed!Fits(S, W, Candidate(a, b)) /\ Printed!Fits(S, W, Word(a, b))
              /\ txLines' = F /\ txCurrent' = Word(a, b) /\ txAt' = b
              /\ UNCHANGED txStep
           \/ /\ ~Printed!Fits(S, W, Candidate(a, b)) /\ ~Printed!Fits(S, W, Word(a, b))
              /\ txLines' = F /\ txCurrent' = <<>> /\ txAt' = a - 1
              /\ txStep' = "chopping"
  BY DEF Printed!PlaceWord
<1>5. PICK b \in a..Len(S) :
        /\ Printed!IsWord(S, a, b) /\ Printed!Skipped(S, txAt + 1, a - 1)
        /\ \/ /\ Printed!Fits(S, W, Candidate(a, b))
              /\ txCurrent' = Candidate(a, b) /\ txAt' = b
              /\ UNCHANGED <<txLines, txStep>>
           \/ /\ ~Printed!Fits(S, W, Candidate(a, b)) /\ Printed!Fits(S, W, Word(a, b))
              /\ txLines' = F /\ txCurrent' = Word(a, b) /\ txAt' = b
              /\ UNCHANGED txStep
           \/ /\ ~Printed!Fits(S, W, Candidate(a, b)) /\ ~Printed!Fits(S, W, Word(a, b))
              /\ txLines' = F /\ txCurrent' = <<>> /\ txAt' = a - 1
              /\ txStep' = "chopping"
  BY <1>4
<1> DEFINE P == Printed!Positions(a, b)
           J == Printed!Joined(txCurrent, P)
<1>6. /\ Printed!IsWord(S, a, b) /\ Printed!Skipped(S, txAt + 1, a - 1)
      /\ \/ Printed!Fits(S, W, J) /\ txCurrent' = J /\ txAt' = b /\ UNCHANGED <<txLines, txStep>>
         \/ /\ ~Printed!Fits(S, W, J) /\ Printed!Fits(S, W, P)
            /\ txLines' = F /\ txCurrent' = P /\ txAt' = b /\ UNCHANGED txStep
         \/ /\ ~Printed!Fits(S, W, J) /\ ~Printed!Fits(S, W, P)
            /\ txLines' = F /\ txCurrent' = <<>> /\ txAt' = a - 1 /\ txStep' = "chopping"
  BY <1>5
<1>7. /\ a \in 1..Len(S) /\ b \in 1..Len(S) /\ b \in a..Len(S) /\ a \in a..b
      /\ a \in Nat /\ b \in Nat /\ a <= b /\ b <= Len(S) /\ txAt < a
  BY <1>2
<1>8. /\ P \in Seq(0..Len(S)) /\ P # <<>> /\ P[Len(P)] = b
  <2> DEFINE N == Len(S)
  <2>1. N \in Nat /\ a \in Nat /\ b \in Nat /\ a <= b /\ b <= N BY ONLY <1>2, <1>7
  <2> HIDE DEF N, P
  <2>2. P \in Seq(0..N) /\ P # <<>> /\ Len(P) = b - a + 1 /\ \A k \in 1..(b - a + 1) : P[k] = a + k - 1
    BY ONLY <2>1, PositionsAre DEF P
  <2>3. P[Len(P)] = b BY ONLY <2>1, <2>2
  <2> QED BY ONLY <2>2, <2>3 DEF N
<1>9. /\ Printed!Ends(S, b) /\ \A p \in a..b : Printed!Solid(S, p)
  BY <1>6 DEF Printed!IsWord
<1>10. txCurrent = <<>> => J = P BY DEF Printed!Joined
<1> HIDE DEF P, J, F, S, W, Word, Candidate
<1>11. ASSUME F # <<>>, ~Printed!Fits(S, W, J) PROVE Printed!BrokenBefore(S, W, F[Len(F)], a)
  <2>1. txCurrent # <<>> /\ F = Append(txLines, txCurrent) BY ONLY <1>3, <1>11
  <2>2. F[Len(F)] = txCurrent BY <1>2, <2>1
  <2> QED BY <1>6, <1>7, <1>11, <2>1, <2>2 DEF Printed!BrokenBefore, J, P
<1>12. CASE Printed!Fits(S, W, J) /\ txCurrent' = J /\ txAt' = b /\ UNCHANGED <<txLines, txStep>>
  <2>1. J \in Seq(0..Len(S)) /\ J # <<>> /\ J[Len(J)] = b /\ Laid(S, W, Append(txLines, J), b)
    <3>1. CASE txCurrent = <<>>
      <4>1. J = P /\ F = <<>> /\ txLines = <<>> BY ONLY <3>1, <1>3, <1>10
      <4>2. Laid(S, W, Append(F, Printed!Positions(a, b)), b)
        BY ONLY NewLine, <1>2, <1>6, <1>7, <1>9, <1>12, <4>1 DEF P
      <4> QED BY ONLY <4>1, <4>2, <1>8 DEF P
    <3>2. CASE txCurrent # <<>>
      <4>1. F = Append(txLines, txCurrent) /\ Printed!Ends(S, txAt) BY ONLY <3>2, <1>3
      <4>2. /\ S \in Seq(Printed!Encodable) /\ txLines \in Seq(Seq(0..Len(S)))
            /\ txCurrent \in Seq(0..Len(S)) /\ txCurrent # <<>>
            /\ Laid(S, W, Append(txLines, txCurrent), txAt) /\ txCurrent[Len(txCurrent)] = txAt
            /\ Printed!Ends(S, txAt) /\ a \in 1..Len(S) /\ b \in a..Len(S) /\ txAt < a
            /\ Printed!Skipped(S, txAt + 1, a - 1) /\ Printed!IsWord(S, a, b)
            /\ Printed!Fits(S, W, Printed!Joined(txCurrent, Printed!Positions(a, b)))
        BY ONLY <4>1, <3>2, <1>2, <1>6, <1>7, <1>12 DEF J, P
      <4>3. LET candidate == Printed!Joined(txCurrent, Printed!Positions(a, b)) IN
            /\ Laid(S, W, Append(txLines, candidate), b)
            /\ candidate \in Seq(0..Len(S)) /\ candidate # <<>> /\ candidate[Len(candidate)] = b
        BY ONLY WordOnLine, <4>2
      <4> QED BY ONLY <4>3 DEF J, P
    <3> QED BY ONLY <3>1, <3>2
  <2>2. txLines' = txLines /\ txStep' = "words" BY ONLY <1>1, <1>12
  <2>3. Laid(S, W, IF J = <<>> THEN txLines ELSE Append(txLines, J), b) BY ONLY <2>1
  <2> QED BY ONLY StillWorking, <1>1, <1>2, <1>9, <1>12, <2>1, <2>2, <2>3 DEF S, W
<1>13. CASE /\ ~Printed!Fits(S, W, J) /\ Printed!Fits(S, W, P)
            /\ txLines' = F /\ txCurrent' = P /\ txAt' = b /\ UNCHANGED txStep
  <2>1. Laid(S, W, Append(F, P), b)
    BY ONLY NewLine, <1>2, <1>6, <1>7, <1>9, <1>11, <1>13 DEF P
  <2>2. txStep' = "words" BY ONLY <1>1, <1>13
  <2>3. Laid(S, W, IF P = <<>> THEN F ELSE Append(F, P), b) BY ONLY <1>8, <2>1
  <2> QED BY ONLY StillWorking, <1>1, <1>2, <1>8, <1>9, <1>13, <2>2, <2>3 DEF S, W
<1>14. CASE /\ ~Printed!Fits(S, W, J) /\ ~Printed!Fits(S, W, P)
            /\ txLines' = F /\ txCurrent' = <<>> /\ txAt' = a - 1 /\ txStep' = "chopping"
  <2>1. Laid(S, W, F, a - 1)
    <3>1. a - 1 \in txAt..Len(S) BY ONLY <1>2, <1>7
    <3> QED BY ONLY BlanksSkipped, <3>1, <1>2, <1>6
  <2>2. TooLong(S, W, F, <<>>, a - 1)
    <3>1. (a - 1) + 1 = a BY ONLY <1>7
    <3>2. F # <<>> => ~Printed!Fits(S, W, Printed!Joined(F[Len(F)], P))
      <4>1. ASSUME F # <<>> PROVE txCurrent # <<>> /\ F = Append(txLines, txCurrent) BY ONLY <1>3, <4>1
      <4>2. ASSUME F # <<>> PROVE F[Len(F)] = txCurrent BY <1>2, <4>1, <4>2
      <4> QED BY ONLY <4>2, <1>14 DEF J
    <3> QED BY ONLY <3>1, <3>2, <1>6, <1>7, <1>14 DEF TooLong, P
  <2>3. <<>> \in Seq(0..Len(S)) OBVIOUS
  <2>4. Laid(S, W, IF <<>> = <<>> THEN F ELSE Append(F, <<>>), a - 1) BY ONLY <2>1
  <2> QED BY ONLY StillWorking, <1>1, <1>2, <1>14, <2>2, <2>3, <2>4 DEF S, W
<1> QED BY ONLY <1>6, <1>12, <1>13, <1>14

\* A letter of a word that fits no line is placed.
LEMMA ChoppingKeeps == Printed!TextAssumption /\ TextInv /\ Printed!Chop => TextInv'
<1> SUFFICES ASSUME Printed!TextAssumption, TextInv, Printed!Chop PROVE TextInv' OBVIOUS
<1> DEFINE S == txSafe
           W == txWidth
           F == Printed!Flushed
           p == txAt + 1
           C == Append(txCurrent, p)
<1>1. /\ txStep = "chopping" /\ UNCHANGED <<txSafe, txWidth>> /\ txAt' = p
      /\ txStep' = IF Printed!Ends(S, p) THEN "words" ELSE "chopping"
      /\ \/ Printed!Fits(S, W, C) /\ txCurrent' = C /\ UNCHANGED txLines
         \/ ~Printed!Fits(S, W, C) /\ txLines' = F /\ txCurrent' = <<p>>
  BY DEF Printed!Chop
<1>2. /\ S \in Seq(Printed!Encodable) /\ W \in Widths
      /\ txAt \in Nat /\ txAt <= Len(S) /\ Len(S) \in Nat
      /\ txLines \in Seq(Seq(0..Len(S))) /\ txCurrent \in Seq(0..Len(S))
      /\ Laid(S, W, F, txAt) /\ F \in Seq(Seq(0..Len(S)))
      /\ txCurrent # <<>> => txCurrent[Len(txCurrent)] = txAt
  BY <1>1, Working
<1>3. /\ txCurrent = <<>> => F = txLines
      /\ txCurrent # <<>> => F = Append(txLines, txCurrent)
  BY FlushedIs
<1>4. TooLong(S, W, txLines, txCurrent, txAt) BY <1>1 DEF TextInv
<1> HIDE DEF F, C, p, S, W
<1>5. PICK a, b \in 1..Len(S) :
        /\ Printed!IsWord(S, a, b) /\ p \in a..b /\ ~Printed!Fits(S, W, Printed!Positions(a, b))
        /\ txCurrent = <<>> <=> p = a
        /\ txCurrent = <<>> /\ txLines # <<>> =>
             ~Printed!Fits(S, W, Printed!Joined(txLines[Len(txLines)], Printed!Positions(a, b)))
  BY ONLY <1>4 DEF TooLong, p
<1>6. /\ p \in 1..Len(S) /\ p \in p..Len(S) /\ p \in Nat /\ txAt < p /\ p - 1 = txAt /\ p = txAt + 1
      /\ a \in Nat /\ b \in Nat /\ a <= p /\ p <= b /\ b <= Len(S)
  BY ONLY <1>2, <1>5 DEF p
<1>7. Printed!Solid(S, p) BY ONLY <1>5 DEF Printed!IsWord
<1>8. Printed!Positions(p, p) = <<p>>
  <2>1. Printed!Positions(p, p) = [k \in 1..1 |-> p + k - 1]
    <3>1. p - p + 1 = 1 BY ONLY <1>6
    <3> QED BY ONLY <3>1 DEF Printed!Positions
  <2>2. \A k \in 1..1 : p + k - 1 = p
    <3>1. \A k \in 1..1 : k = 1 BY ONLY SMT
    <3>2. p + 1 - 1 = p BY ONLY <1>6
    <3> QED BY ONLY <3>1, <3>2
  <2>3. [k \in 1..1 |-> p + k - 1] = [k \in 1..1 |-> p] BY ONLY <2>2
  <2>4. [k \in 1..1 |-> p] = <<p>> BY ONLY <1>6
  <2> QED BY ONLY <2>1, <2>3, <2>4
<1>9. Printed!Fits(S, W, <<p>>) BY ONLY LetterFits, Printed!TextAssumption, <1>2, <1>6
<1>10. Printed!Skipped(S, txAt + 1, p - 1)
  <2>1. (txAt + 1)..(p - 1) = {} BY ONLY <1>2, <1>6
  <2> QED BY ONLY <2>1 DEF Printed!Skipped
<1>11. \A q \in p..p : Printed!Solid(S, q)
  <2>1. \A q \in p..p : q = p BY ONLY <1>6
  <2> QED BY ONLY <2>1, <1>7
<1>12. /\ <<p>> \in Seq(0..Len(S)) /\ <<p>> # <<>> /\ <<p>>[Len(<<p>>)] = p
  BY ONLY <1>2, <1>6
<1>13. /\ C \in Seq(0..Len(S)) /\ C # <<>> /\ C[Len(C)] = p
  <2>1. p \in 0..Len(S) BY ONLY <1>2, <1>6
  <2>2. txCurrent \in Seq(0..Len(S)) BY ONLY <1>2
  <2> QED BY ONLY <2>1, <2>2 DEF C
<1>14. Printed!IsWord(S, a, b) /\ p \in a..b /\ ~Printed!Fits(S, W, Printed!Positions(a, b))
  BY ONLY <1>5
<1>15. ASSUME NEW lines, NEW unfinished, unfinished # <<>>
       PROVE  txStep' = "chopping" => TooLong(S, W, lines, unfinished, p)
  <2> SUFFICES ASSUME txStep' = "chopping" PROVE TooLong(S, W, lines, unfinished, p) OBVIOUS
  <2>1. ~Printed!Ends(S, p) BY ONLY <1>1, txStep' = "chopping"
  <2>2. Printed!Ends(S, b) BY ONLY <1>14 DEF Printed!IsWord
  <2>3. p # b BY ONLY <2>1, <2>2
  <2>4. p + 1 \in a..b /\ p + 1 # a BY ONLY <1>6, <2>3
  <2>5. /\ Printed!IsWord(S, a, b) /\ p + 1 \in a..b /\ ~Printed!Fits(S, W, Printed!Positions(a, b))
        /\ unfinished = <<>> <=> p + 1 = a
        /\ unfinished = <<>> /\ lines # <<>> =>
             ~Printed!Fits(S, W, Printed!Joined(lines[Len(lines)], Printed!Positions(a, b)))
    BY ONLY <1>14, <1>15, <2>4
  <2> QED BY ONLY <2>5, <1>5 DEF TooLong
<1>16. txStep' = "words" => Printed!Ends(S, p) BY ONLY <1>1
<1>17. txStep' \in {"words", "chopping"} BY ONLY <1>1
<1>18. CASE Printed!Fits(S, W, C) /\ txCurrent' = C /\ UNCHANGED txLines
  <2>1. Laid(S, W, Append(txLines, C), p)
    <3>1. CASE txCurrent = <<>>
      <4>1. F = txLines BY ONLY <3>1, <1>3
      <4>2. C = <<p>> BY ONLY <3>1 DEF C
      <4>3. ASSUME F # <<>> PROVE Printed!BrokenBefore(S, W, F[Len(F)], p)
        <5>1. p = a /\ ~Printed!Fits(S, W, Printed!Joined(F[Len(F)], Printed!Positions(a, b)))
          BY ONLY <1>5, <3>1, <4>1, <4>3
        <5>2. F[Len(F)] # <<>>
          <6>1. Len(F) \in 1..Len(F) BY <1>2, <4>3
          <6>2. GoodLine(S, W, F[Len(F)]) BY ONLY <1>2, <6>1 DEF Laid
          <6> QED BY ONLY <6>2 DEF GoodLine
        <5> QED BY ONLY <5>1, <5>2, <1>5, <1>14 DEF Printed!BrokenBefore
      <4>4. Laid(S, W, Append(F, Printed!Positions(p, p)), p)
        BY ONLY NewLine, <1>2, <1>6, <1>8, <1>9, <1>10, <1>11, <4>3
      <4> QED BY ONLY <4>1, <4>2, <4>4, <1>8
    <3>2. CASE txCurrent # <<>>
      <4>1. F = Append(txLines, txCurrent) BY ONLY <3>2, <1>3
      <4>2. /\ txAt + 1 \in 1..Len(S) /\ Printed!Solid(S, txAt + 1)
            /\ Printed!Fits(S, W, Append(txCurrent, txAt + 1))
        BY ONLY <1>6, <1>7, <1>18 DEF C
      <4>3. Laid(S, W, Append(txLines, Append(txCurrent, txAt + 1)), txAt + 1)
        BY ONLY LetterOnLine, <4>1, <4>2, <3>2, <1>2
      <4> QED BY ONLY <4>3, <1>6 DEF C
    <3> QED BY ONLY <3>1, <3>2
  <2>2. txLines' = txLines BY ONLY <1>18
  <2>3. Laid(S, W, IF C = <<>> THEN txLines ELSE Append(txLines, C), p) BY ONLY <1>13, <2>1
  <2>4. txStep' = "chopping" => TooLong(S, W, txLines, C, p) BY ONLY <1>13, <1>15
  <2> QED BY ONLY StillWorking, <1>1, <1>2, <1>13, <1>16, <1>17, <1>18, <2>2, <2>3, <2>4 DEF S, W
<1>19. CASE ~Printed!Fits(S, W, C) /\ txLines' = F /\ txCurrent' = <<p>>
  <2>1. txCurrent # <<>>
    <3>1. txCurrent = <<>> => C = <<p>> BY ONLY DEF C
    <3> QED BY ONLY <3>1, <1>9, <1>19
  <2>2. F = Append(txLines, txCurrent) BY ONLY <2>1, <1>3
  <2>3. F[Len(F)] = txCurrent BY <1>2, <2>2
  <2>4. Printed!BrokenBefore(S, W, F[Len(F)], p)
    <3>1. p # a BY ONLY <1>5, <2>1
    <3>2. ~Printed!Fits(S, W, Append(txCurrent, p)) BY ONLY <1>19 DEF C
    <3> QED BY ONLY <3>1, <3>2, <2>1, <2>3, <1>5, <1>14 DEF Printed!BrokenBefore
  <2>5. Laid(S, W, Append(F, Printed!Positions(p, p)), p)
    BY ONLY NewLine, <1>2, <1>6, <1>8, <1>9, <1>10, <1>11, <2>4
  <2>6. Laid(S, W, IF <<p>> = <<>> THEN F ELSE Append(F, <<p>>), p) BY ONLY <1>8, <1>12, <2>5
  <2>7. txStep' = "chopping" => TooLong(S, W, F, <<p>>, p) BY ONLY <1>12, <1>15
  <2> QED BY ONLY StillWorking, <1>1, <1>2, <1>12, <1>16, <1>17, <1>19, <2>6, <2>7 DEF S, W
<1> QED BY ONLY <1>1, <1>18, <1>19

\* The last line is complete.
LEMMA LastLineKeeps == TextInv /\ Printed!LastLine => TextInv'
<1> SUFFICES ASSUME TextInv, Printed!LastLine PROVE TextInv' OBVIOUS
<1>1. /\ txStep = "words" /\ UNCHANGED <<txSafe, txWidth, txAt>>
      /\ Printed!Skipped(txSafe, txAt + 1, Len(txSafe))
      /\ txLines' = Append(txLines, txCurrent) /\ txCurrent' = <<>> /\ txStep' = "done"
  BY DEF Printed!LastLine
<1>2. Printed!TypeOK'
  <2>1. <<>> \in Seq(0..Len(txSafe)) OBVIOUS
  <2>2. Printed!TypeOK BY DEF TextInv
  <2> QED BY <1>1, <2>1, <2>2 DEF Printed!TypeOK
<1>3. CASE txCurrent = <<>>
  <2>1. txLines = <<>> /\ txAt = 0 BY <1>1, <1>3 DEF TextInv
  <2>2. txLines' = << <<>> >> /\ txAt' = 0 BY <1>1, <1>3, <2>1
  <2> QED BY <1>1, <1>2, <2>2 DEF TextInv
<1>4. CASE txCurrent # <<>>
  <2>1. Laid(txSafe, txWidth, Append(txLines, txCurrent), txAt) BY <1>1, <1>4, Working, FlushedIs
  <2> QED BY <1>1, <1>2, <2>1 DEF TextInv
<1> QED BY <1>3, <1>4

\* Every step keeps the invariant.
LEMMA TextStepKeeps == Printed!TextAssumption /\ TextInv /\ [Printed!Next]_(Printed!vars) => TextInv'
<1> SUFFICES ASSUME Printed!TextAssumption, TextInv, [Printed!Next]_(Printed!vars) PROVE TextInv'
  OBVIOUS
<1>1. CASE UNCHANGED Printed!vars
  BY <1>1 DEF TextInv, Printed!vars, Printed!TypeOK, Printed!Flushed
<1> QED BY <1>1, TypingKeeps, WrapKeeps, PlacingKeeps, ChoppingKeeps, LastLineKeeps DEF Printed!Next

\* Lines that hold a part of a text, or the first of such lines, are as they should be.
LEMMA LaidLines ==
  ASSUME NEW text, NEW w, NEW all, NEW n, Laid(text, w, all, n),
         NEW lines, NEW m \in 0..Len(all), Len(lines) = m, \A i \in 1..m : lines[i] = all[i]
  PROVE  /\ \A i \in 1..Len(lines) :
              Printed!Fits(text, w, lines[i]) /\ Printed!WordsApart(text, lines[i])
         /\ \A i \in 1..(Len(lines) - 1) :
              lines[i + 1] # <<>> /\ Printed!BrokenBefore(text, w, lines[i], lines[i + 1][1])
         /\ LettersInOrder(lines)
<1>1. all \in Seq(Seq(0..Len(text))) /\ Len(all) \in Nat /\ m \in Nat /\ m <= Len(all)
  BY DEF Laid
<1>2. \A i \in 1..m : i \in 1..Len(all) BY ONLY <1>1
<1>3. \A i \in 1..Len(lines) : lines[i] = all[i] /\ i \in 1..Len(all) BY <1>2
<1>4. \A i \in 1..Len(all) : GoodLine(text, w, all[i]) BY DEF Laid
<1>5. \A i \in 1..Len(lines) :
        /\ lines[i] # <<>> /\ Printed!Fits(text, w, lines[i]) /\ Printed!WordsApart(text, lines[i])
  BY ONLY <1>3, <1>4 DEF GoodLine
<1>6. ASSUME NEW i \in 1..(Len(lines) - 1)
      PROVE  lines[i + 1] # <<>> /\ Printed!BrokenBefore(text, w, lines[i], lines[i + 1][1])
  <2>1. i \in 1..Len(lines) /\ i + 1 \in 1..Len(lines) /\ i \in 1..(Len(all) - 1)
    BY ONLY <1>1, i \in 1..(Len(lines) - 1), Len(lines) = m
  <2>2. lines[i] = all[i] /\ lines[i + 1] = all[i + 1] BY ONLY <1>3, <2>1
  <2>3. Printed!BrokenBefore(text, w, all[i], all[i + 1][1]) BY <2>1 DEF Laid, BrokenWell
  <2> QED BY ONLY <1>5, <2>1, <2>2, <2>3
<1>7. LettersInOrder(all) BY DEF Laid
<1>8. LettersInOrder(lines) BY ONLY <1>3, <1>7 DEF LettersInOrder
<1> QED BY ONLY <1>5, <1>6, <1>8

\* What the invariant is for.
LEMMA TextSafe == Printed!TextAssumption /\ TextInv => Printed!TypeOK /\ Printed!LinesHold
<1> SUFFICES ASSUME Printed!TextAssumption, TextInv PROVE Printed!TypeOK /\ Printed!LinesHold
  OBVIOUS
<1>1. Printed!TypeOK BY DEF TextInv
<1>2. /\ txSafe \in Seq(Printed!Encodable) /\ txWidth \in Widths
      /\ txLines \in Seq(Seq(0..Len(txSafe))) /\ Len(txLines) \in Nat
      /\ txStep \in {"typing", "words", "chopping", "done"}
  BY <1>1 DEF Printed!TypeOK
<1> DEFINE Sound ==
      /\ \A i \in 1..Len(txLines) :
           Printed!Fits(txSafe, txWidth, txLines[i]) /\ Printed!WordsApart(txSafe, txLines[i])
      /\ \A i \in 1..(Len(txLines) - 1) :
           /\ txLines[i + 1] # <<>>
           /\ Printed!BrokenBefore(txSafe, txWidth, txLines[i], txLines[i + 1][1])
      /\ LettersInOrder(txLines)
    Complete ==
      \A p \in 1..Len(txSafe) :
        Printed!Solid(txSafe, p) <=>
          \E i \in 1..Len(txLines) : \E j \in 1..Len(txLines[i]) : txLines[i][j] = p
<1> SUFFICES Sound /\ (txStep = "done" => Complete)
  <2>1. ASSUME LettersInOrder(txLines)
        PROVE  \A i, k \in 1..Len(txLines) : \A j \in 1..Len(txLines[i]), l \in 1..Len(txLines[k]) :
                 /\ txLines[i][j] # Printed!Joint /\ txLines[k][l] # Printed!Joint
                 /\ i < k \/ (i = k /\ j < l)
                 => txLines[i][j] < txLines[k][l]
    BY ONLY <2>1, Zenon DEF LettersInOrder, Printed!Joint
  <2>2. \A i \in 1..Len(txLines) :
          Printed!Fits(txSafe, txWidth, txLines[i]) /\ Printed!WordsApart(txSafe, txLines[i])
    OBVIOUS
  <2>3. \A i \in 1..(Len(txLines) - 1) :
          /\ txLines[i + 1] # <<>>
          /\ Printed!BrokenBefore(txSafe, txWidth, txLines[i], txLines[i + 1][1])
    OBVIOUS
  <2>4. LettersInOrder(txLines) OBVIOUS
  <2>5. txStep = "done" => Complete OBVIOUS
  <2> HIDE DEF Sound
  <2> QED BY ONLY <1>1, <2>1, <2>2, <2>3, <2>4, <2>5 DEF Printed!LinesHold
<1>3. CASE txStep = "typing"
  <2>1. Laid(txSafe, txWidth, <<>>, 0) BY <1>2, NothingLaid
  <2>2. txLines = <<>> /\ Len(txLines) = 0 BY <1>3 DEF TextInv
  <2>3. 0 \in 0..Len(<<>>) /\ \A i \in 1..0 : txLines[i] = <<>>[i] OBVIOUS
  <2>4. Sound BY ONLY <2>1, <2>2, <2>3, LaidLines
  <2> QED BY <1>3, <2>4
<1>4. CASE txStep \in {"words", "chopping"}
  <2> DEFINE F == Printed!Flushed
  <2>1. Laid(txSafe, txWidth, F, txAt) BY <1>4, Working
  <2>2. Len(txLines) \in 0..Len(F) /\ \A i \in 1..Len(txLines) : txLines[i] = F[i]
    <3>1. CASE txCurrent = <<>> BY <1>2, <3>1, FlushedIs
    <3>2. CASE txCurrent # <<>>
      <4>1. F = Append(txLines, txCurrent) BY <3>2, FlushedIs
      <4> QED BY <1>2, <4>1
    <3> QED BY <3>1, <3>2
  <2> HIDE DEF F
  <2>3. Sound BY ONLY <2>1, <2>2, LaidLines
  <2> QED BY <1>4, <2>3
<1>5. CASE txStep = "done"
  <2>1. Printed!Skipped(txSafe, txAt + 1, Len(txSafe)) BY <1>5 DEF TextInv
  <2>2. CASE Laid(txSafe, txWidth, txLines, txAt)
    <3>1. Len(txLines) \in 0..Len(txLines) BY <1>2
    <3>2. Sound BY ONLY <2>2, <3>1, LaidLines
    <3>3. txAt \in Nat /\ txAt <= Len(txSafe) /\ Len(txSafe) \in Nat BY <1>1, <1>2 DEF Printed!TypeOK
    <3>4. ASSUME NEW p \in 1..Len(txSafe), Printed!Solid(txSafe, p)
          PROVE  \E i \in 1..Len(txLines) : \E j \in 1..Len(txLines[i]) : txLines[i][j] = p
      <4>1. p \in 1..txAt \/ p \in (txAt + 1)..Len(txSafe) BY ONLY <3>3, p \in 1..Len(txSafe)
      <4>2. p \in 1..txAt BY <2>1, <3>4, <4>1 DEF Printed!Skipped
      <4> QED BY ONLY <2>2, <3>4, <4>2 DEF Laid, AllPlaced
    <3>5. ASSUME NEW p \in 1..Len(txSafe), NEW i \in 1..Len(txLines), NEW j \in 1..Len(txLines[i]),
                 txLines[i][j] = p
          PROVE  Printed!Solid(txSafe, p)
      <4>1. txLines[i][j] # 0 BY ONLY <3>5
      <4> QED BY ONLY <2>2, <3>5, <4>1 DEF Laid, LettersUpTo
    <3>6. Complete BY ONLY <3>4, <3>5
    <3> QED BY ONLY <3>2, <3>6
  <2>3. CASE txLines = << <<>> >> /\ txAt = 0
    <3>1. Len(txLines) = 1 /\ txLines[1] = <<>> /\ Len(txLines[1]) = 0 BY ONLY <2>3
    <3>2. \A i \in 1..Len(txLines) : i = 1 BY ONLY <3>1
    <3>3. Printed!Fits(txSafe, txWidth, <<>>) BY ONLY LetterFits, Printed!TextAssumption, <1>2
    <3>4. Printed!WordsApart(txSafe, <<>>)
      <4>1. Len(<<>>) = 0 /\ 1..(0 - 1) = {} BY ONLY SMT
      <4> QED BY ONLY <4>1 DEF Printed!WordsApart
    <3>5. 1..(Len(txLines) - 1) = {} BY ONLY <3>1
    <3>6. \A i \in 1..Len(txLines) : 1..Len(txLines[i]) = {}
      <4>1. 1..0 = {} BY ONLY SMT
      <4> QED BY ONLY <3>1, <3>2, <4>1
    <3>7. LettersInOrder(txLines) BY ONLY <3>6 DEF LettersInOrder
    <3>8. Sound BY ONLY <3>1, <3>2, <3>3, <3>4, <3>5, <3>7
    <3>9. \A p \in 1..Len(txSafe) : ~Printed!Solid(txSafe, p)
      <4>1. 0 + 1 = 1 BY ONLY SMT
      <4> QED BY ONLY <2>1, <2>3, <4>1 DEF Printed!Skipped
    <3>10. Complete BY ONLY <3>6, <3>9
    <3> QED BY ONLY <3>8, <3>10
  <2> QED BY <1>5, <2>2, <2>3 DEF TextInv
<1> HIDE DEF Sound, Complete
<1> QED BY ONLY <1>2, <1>3, <1>4, <1>5

=============================================================================
