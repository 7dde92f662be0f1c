----------------------------- MODULE WebSession -----------------------------
(***************************************************************************)
(* Who is signed in, as the web client sees it: the tokens kept in the     *)
(* browser's storage, the API client that refreshes them, the cached       *)
(* answer of /me, the pages that sign in and the guards that redirect.     *)
(*                                                                         *)
(* A token is the account it was issued to; whether an access token has    *)
(* expired is the server's choice at every request.  Requests run          *)
(* concurrently, their answers come in any order, and an answer may find   *)
(* another page mounted (its page-level callbacks do not run) or another   *)
(* session in the storage (nothing checks that).                           *)
(***************************************************************************)
EXTENDS Naturals, FiniteSets

CONSTANTS
    Users,        \* accounts
    Casts,        \* which landing areas the accounts may have
    OtherTabs,    \* whether another tab shares the storage
    MaxInFlight,  \* bound: requests under way at one time
    None

AreaNames == {"customer", "staff", "business"}
Ids == 1..MaxInFlight

ASSUME WebSessionAssumption ==
    /\ None \notin Users
    /\ Casts \subseteq [Users -> AreaNames]
    /\ OtherTabs \in BOOLEAN
    /\ MaxInFlight \in Nat \ {0}

\* Pages, one per guard or form: "customer" stands for the customer pages
\* behind a sign-in, "owner" and "staff" for the pages inside those shells.
Pages == {"home", "customer", "login", "forgot", "complete", "tour", "till",
          "staff", "staffOnboarding", "owner", "wizard", "activate", "pitch"}

VARIABLES
    access, refresh,  \* storage: the tokens, each the account it was issued to
    uid,              \* storage: the account the adapters take for the user
    area,             \* server: the landing area of each account; it never changes
    finished,         \* server: accounts whose profile is complete
    toured,           \* server: customers who finished the tour
    me,               \* the cached answer of /me
    page, returnTo, step, \* the page mounted, its return parameter, its form step
    push,             \* a claimed pitch is about to push its owner to the wizard
    requests,         \* requests under way
    mixed             \* history: see OneAccount

storage == <<access, refresh, uid, mixed>>
server == <<area, finished, toured>>
view == <<page, returnTo, step>>
vars == <<storage, server, me, view, push, requests>>

-----------------------------------------------------------------------------
SignInKinds == {"code", "password", "google"}

\* A request: the account whose token it carries (or whose credentials, for a
\* sign-in), the page that sent it, whether that page is still mounted, whether
\* the session is still the one it was sent in, how far the retry on a 401 has
\* come and the refresh token it read.
NoRequest == [kind |-> "none", as |-> None, from |-> "home", here |-> FALSE,
              own |-> FALSE, phase |-> "sent", reads |-> None]

NoMe == [user |-> None, done |-> FALSE, stale |-> TRUE, failed |-> FALSE, fetch |-> 0]

WebTypeOK ==
    /\ {access, refresh, uid} \subseteq Users \union {None}
    /\ area \in Casts /\ finished \subseteq Users /\ toured \subseteq Users
    /\ me \in [user : Users \union {None}, done : BOOLEAN, stale : BOOLEAN,
               failed : BOOLEAN, fetch : Ids \union {0}]
    /\ page \in Pages /\ returnTo \in Pages
    /\ step \in {"first", "code", "password", "success"}
    /\ push \in BOOLEAN /\ mixed \in BOOLEAN
    /\ requests \in [Ids -> [kind : {"none", "me", "ask", "save"} \union SignInKinds,
                             as : Users \union {None}, from : Pages,
                             here : BOOLEAN, own : BOOLEAN,
                             phase : {"sent", "refreshing", "again"},
                             reads : Users \union {None}]]

Init ==
    /\ access = None /\ refresh = None /\ uid = None /\ mixed = FALSE
    /\ area \in Casts
    /\ finished = {u \in Users : area[u] = "business"} /\ toured = {}
    /\ me = NoMe
    /\ page = "home" /\ returnTo = "home" /\ step = "first" /\ push = FALSE
    /\ requests = [i \in Ids |-> NoRequest]

-----------------------------------------------------------------------------
(* Requests, navigation and sessions *)

Free == {i \in Ids : requests[i] = NoRequest}
Next1 == CHOOSE i \in Free : \A j \in Free : i <= j
Pending(kind) == \E i \in Ids : requests[i].kind = kind /\ requests[i].here

Without(i) == [requests EXCEPT ![i] = NoRequest]

\* The page that sent these requests is unmounted.
Unmounted(reqs) ==
    [i \in Ids |-> IF reqs[i] = NoRequest THEN NoRequest ELSE [reqs[i] EXCEPT !.here = FALSE]]

\* The session these requests were sent in has been replaced or ended.
Outlive(reqs) ==
    [i \in Ids |-> IF reqs[i] = NoRequest THEN NoRequest ELSE [reqs[i] EXCEPT !.own = FALSE]]

\* A sign-in carries no token; /me calls no page back.
request(kind, as) ==
    [NoRequest EXCEPT !.kind = kind, !.as = as, !.own = kind \in {"me", "save"},
                      !.from = IF kind = "me" THEN "home" ELSE page,
                      !.here = kind # "me"]

Send(kind, as) ==
    /\ Free # {}
    /\ requests' = [requests EXCEPT ![Next1] = request(kind, as)]
    /\ UNCHANGED <<storage, server, me, view, push>>

Stay(reqs) == requests' = reqs /\ UNCHANGED view

GoTo(p, r, reqs) ==
    /\ page' = p /\ returnTo' = r /\ step' = "first"
    /\ requests' = Unmounted(reqs)

Follow(p, r) == GoTo(p, r, requests) /\ UNCHANGED <<storage, server, me, push>>

Step(s) ==
    /\ step' = s
    /\ UNCHANGED <<storage, server, me, page, returnTo, push, requests>>

invalidateMe == [me EXCEPT !.stale = TRUE, !.fetch = 0]

-----------------------------------------------------------------------------
(* Where a sign-in and the guards lead *)

\* An owner may work their own till.
Areas(u) == IF area[u] = "business" THEN {"business", "staff"} ELSE {area[u]}

areaPath(u, to) ==
    CASE area[u] = "business" -> "owner"
      [] area[u] = "staff" -> "till"
      [] OTHER -> to

\* The page and its return parameter after a sign-in.
postAuthRoute(u, to) ==
    CASE area[u] = "customer" /\ u \notin finished -> <<"complete", "home">>
      [] area[u] = "customer" /\ u \in finished /\ u \notin toured -> <<"tour", to>>
      [] area[u] = "staff" /\ u \notin finished -> <<"staffOnboarding", "home">>
      [] OTHER -> <<areaPath(u, to), "home">>

\* Mutant: the customer's default page is a copy of the owner's.
DefaultPath_Slip(own) == IF own = "staff" THEN "till" ELSE "owner"

DefaultPath(own) ==
    CASE own = "business" -> "owner" [] own = "staff" -> "till" [] OTHER -> "home"

Required == [owner |-> "business", staff |-> "staff"]
Guarded == {"customer", "complete", "wizard"} \union DOMAIN Required

useRequireAuth == page \in Guarded /\ access = None

\* The area of the account in the cached answer, whoever is signed in by now.
useRequireArea ==
    /\ page \in DOMAIN Required /\ access # None
    /\ me.user # None /\ Required[page] \notin Areas(me.user)

\* A staff membership comes with the cached answer.
staff == me.user # None /\ "staff" \in Areas(me.user)
ready == access = None \/ me.user # None \/ me.failed

ProfileGate == page = "staff" /\ staff /\ ~me.done
SendAway == page = "staffOnboarding" /\ ready /\ (~staff \/ me.done)

Redirecting == useRequireAuth \/ useRequireArea \/ ProfileGate \/ SendAway

Redirect ==
    \/ useRequireAuth /\ Follow("login", page)
    \/ useRequireArea /\ Follow(DefaultPath(area[me.user]), "home")
    \/ ProfileGate /\ Follow("staffOnboarding", "home")
    \/ SendAway /\ (IF staff THEN Follow("till", "home") ELSE Follow("login", "till"))

-----------------------------------------------------------------------------
(* /me *)

MeReaders == Pages \ {"login", "forgot", "activate", "pitch", "tour"}

\* A page that reads /me fetches it when the cached answer is stale or absent.
useMe ==
    /\ page \in MeReaders /\ access # None
    /\ me.stale /\ me.fetch = 0 /\ Free # {}
    /\ me' = [me EXCEPT !.fetch = Next1, !.failed = FALSE]
    /\ requests' = [requests EXCEPT ![Next1] = request("me", access)]
    /\ UNCHANGED <<storage, server, view, push>>

\* Thirty seconds pass.
Age ==
    /\ me.user # None /\ ~me.stale
    /\ me' = [me EXCEPT !.stale = TRUE]
    /\ UNCHANGED <<storage, server, view, push, requests>>

-----------------------------------------------------------------------------
(* The pages *)

IdentifierStep == step = "first" /\ ~Pending("ask") /\ Send("ask", None)
CodeStep == step = "code" /\ ~Pending("code") /\ \E u \in Users : Send("code", u)
PasswordStep ==
    /\ step = "password"
    /\ \/ ~Pending("password") /\ \E u \in Users : Send("password", u)
       \/ Follow("forgot", "home")
GoogleLogin == \E u \in Users : Send("google", u)

\* The identifier decides between the code and the password; each step is a
\* mutation of its own, so two sign-ins may be under way.
LoginFlow ==
    /\ page = "login"
    /\ \/ IdentifierStep \/ CodeStep \/ PasswordStep \/ GoogleLogin
       \/ step # "first" /\ Step("first")
       \/ Follow("home", "home")

ForgotPasswordPage ==
    /\ page = "forgot"
    /\ \/ IdentifierStep
       \/ CodeStep
       \/ step = "code" /\ Step("first")
       \/ Follow("login", "home")

\* The form is shown once /me is there.
CompleteProfilePage ==
    page = "complete" /\ access # None /\ me.user # None /\ ~Pending("save") /\ Send("save", access)

\* The tour's last slide saves and leaves; its task leads to the customer's code.
OnboardingFlow ==
    /\ page = "tour"
    /\ \/ ~Pending("save") /\ Send("save", access)
       \/ Follow("customer", "home")

StaffOnboardingPage ==
    page = "staffOnboarding" /\ ~Pending("save") /\ Send("save", access)

OwnerCodeStep ==
    step = "code" /\ ~Pending("code") /\ \E u \in Users : area[u] = "business" /\ Send("code", u)

\* An invitation is the owner's: the page validates it when it opens.
ValidateInvite == page = "activate" /\ IdentifierStep
ActivateInner == page = "activate" /\ OwnerCodeStep

ClaimEmailStep == page = "pitch" /\ IdentifierStep
ClaimCodeStep == page = "pitch" /\ OwnerCodeStep

\* Closing the sheet forgets how far the claim had come, not its requests.
PitchContent == page = "pitch" /\ step # "first" /\ Step("first")

\* 1.2 seconds after the claim, on whatever page by then.
ClaimPush ==
    /\ push /\ push' = FALSE
    /\ GoTo("wizard", "home", requests)
    /\ UNCHANGED <<storage, server, me>>

clear == access' = None /\ refresh' = None /\ UNCHANGED mixed

logout(p, r) ==
    /\ clear /\ GoTo(p, r, Outlive(requests))
    /\ UNCHANGED <<uid, server, me, push>>

CustomerShell ==
    /\ page \in {"home", "customer"}
    /\ \/ Follow("home", "home")
       \/ Follow("customer", "home")
       \/ access = None /\ Follow("login", page)

AccountCard ==
    page \in {"home", "customer"} /\ access # None /\ logout("login", "home")

\* The profile's own button leads home, unless the guard's redirect overtakes it.
ProfileLogout ==
    page = "customer" /\ access # None /\ \E p \in {"home", "login"} : logout(p, "home")

\* The shell renders nothing until /me allows it.
OwnerShell ==
    /\ page = "owner" /\ access # None /\ me.user # None /\ "business" \in Areas(me.user)
    /\ "staff" \in Areas(me.user) /\ Follow("till", "home")

\* The owner's card and the "more" page sign out.
OwnerCard ==
    /\ page = "owner" /\ access # None /\ me.user # None /\ "business" \in Areas(me.user)
    /\ logout("login", "owner")

StaffShell ==
    /\ page = "staff" /\ access # None /\ me.user # None /\ "staff" \in Areas(me.user)
    /\ \/ Follow("till", "home")
       \/ "business" \in Areas(me.user) /\ Follow("owner", "home")

StaffAccountFooter ==
    /\ page = "staff" /\ access # None /\ me.user # None /\ "staff" \in Areas(me.user)
    /\ clear /\ uid' = None
    /\ GoTo("login", "till", Outlive(requests))
    /\ UNCHANGED <<server, me, push>>

\* The till has tabs of its own and no guard but a notice.
StaffNav == page = "till" /\ Follow("staff", "home")

\* The pages a bookmark, a printed code or a mail leads to.
Entrances == {"home", "owner", "till", "activate", "pitch"}

\* A link from outside, or a reload: the cache and every callback are gone.
Open(p) ==
    /\ p \in Entrances \union {page}
    /\ page' = p /\ returnTo' = "home" /\ step' = "first"
    /\ me' = NoMe /\ push' = FALSE
    /\ requests' = [i \in Ids |-> NoRequest]
    /\ UNCHANGED <<storage, server>>

\* Another tab shares the storage: someone signs in or out there.
OtherTab(u) ==
    /\ OtherTabs /\ u # access
    /\ access' = u /\ refresh' = u /\ mixed' = FALSE
    /\ uid' = IF u = None THEN uid ELSE u
    /\ requests' = Outlive(requests)
    /\ UNCHANGED <<server, me, view, push>>

-----------------------------------------------------------------------------
(* Answers *)

\* A code was sent, an identifier resolved, an invitation found valid.
Asked(i) ==
    LET r == requests[i]
    IN  /\ requests' = Without(i)
        /\ step' \in IF ~r.here THEN {step}
                     ELSE IF r.from = "login" THEN {"code", "password", step}
                     ELSE {"code", step}
        /\ UNCHANGED <<storage, server, me, page, returnTo, push>>

\* Mutant: a sign-in keeps the account id of the session before it.
SignedIn_Slip(i) ==
    LET u == requests[i].as
    IN  /\ access' = u /\ refresh' = u /\ mixed' = FALSE
        /\ uid' = IF uid = None THEN u ELSE uid
        /\ me' = invalidateMe
        /\ Stay(Outlive(Without(i)))
        /\ UNCHANGED <<server, push>>

\* The sign-in itself stores the tokens and the account, wherever the user is by
\* then; the hook invalidates /me; only the page still mounted routes.
SignedIn(i) ==
    LET u == requests[i].as
        route == postAuthRoute(u, IF requests[i].from = "login" THEN returnTo ELSE "home")
    IN  /\ access' = u /\ refresh' = u /\ uid' = u /\ mixed' = FALSE
        /\ me' = invalidateMe
        /\ IF requests[i].here THEN GoTo(route[1], route[2], Outlive(Without(i)))
           ELSE Stay(Outlive(Without(i)))
        /\ UNCHANGED <<server, push>>

\* The page itself stores an invitation's tokens, and no account id: if the
\* owner has left the page, the invitation is used up and nobody is signed in.
Invited(i) ==
    LET r == requests[i]
    IN  /\ IF r.here THEN access' = r.as /\ refresh' = r.as /\ mixed' = TRUE
           ELSE UNCHANGED <<access, refresh, mixed>>
        /\ IF ~r.here THEN Stay(Without(i)) /\ UNCHANGED push
           ELSE IF r.from = "activate"
           THEN GoTo("wizard", "home", Outlive(Without(i))) /\ UNCHANGED push
           ELSE /\ step' = "success" /\ push' = TRUE
                /\ requests' = Outlive(Without(i))
                /\ UNCHANGED <<page, returnTo>>
        /\ UNCHANGED <<uid, server, me>>

\* Where the page of a save leads; the tour is left even if its save failed.
Leave(i) ==
    LET r == requests[i]
    IN  CASE ~r.here -> Stay(Without(i))
          [] r.here /\ r.from = "complete" -> GoTo("tour", "home", Without(i))
          [] r.here /\ r.from = "tour" -> GoTo(returnTo, "home", Without(i))
          [] OTHER -> GoTo("till", "home", Without(i))

Saved(r) ==
    /\ finished' = IF r.from = "tour" THEN finished ELSE finished \union {r.as}
    /\ toured' = IF r.from = "tour" THEN toured \union {r.as} ELSE toured
    /\ UNCHANGED area

\* The request is answered with an error, or not at all.
Fail(i) ==
    LET r == requests[i]
    IN  /\ me' = IF me.fetch = i THEN [me EXCEPT !.fetch = 0, !.failed = TRUE] ELSE me
        /\ IF r.kind = "save" /\ r.from = "tour" THEN Leave(i) ELSE Stay(Without(i))

Succeed(i) ==
    LET r == requests[i]
    IN  IF r.kind = "save"
        THEN Saved(r) /\ Leave(i) /\ me' = invalidateMe /\ UNCHANGED storage
        ELSE /\ uid' = r.as
             /\ mixed' = (mixed \/ ~r.own)
             /\ me' = IF me.fetch # i THEN me
                      ELSE [user |-> r.as, done |-> r.as \in finished, stale |-> FALSE,
                            failed |-> FALSE, fetch |-> 0]
             /\ Stay(Without(i))
             /\ UNCHANGED <<access, refresh, server>>

\* The session ends because its refresh failed: whichever session that is by now.
GiveUp(i) ==
    /\ clear /\ UNCHANGED uid
    /\ me' = IF me.fetch = i THEN [me EXCEPT !.fetch = 0, !.failed = TRUE] ELSE me
    /\ IF requests[i].kind = "save" /\ requests[i].from = "tour"
       THEN GoTo(returnTo, "home", Outlive(Without(i)))
       ELSE Stay(Outlive(Without(i)))

\* The refresh succeeds: the token it brings is stored, whatever is there now.
refreshAccess(i) ==
    LET r == requests[i]
    IN  /\ access' = r.reads
        /\ mixed' = (mixed \/ ~r.own)
        /\ requests' = [requests EXCEPT ![i].phase = "again", ![i].as = r.reads]
        /\ UNCHANGED <<refresh, uid, server, me, view>>

\* Mutant: the retried request may be retried again.
Unauthorized_Slip(i) ==
    IF refresh # None
    THEN /\ requests' = [requests EXCEPT ![i].phase = "refreshing", ![i].reads = refresh]
         /\ UNCHANGED <<storage, server, me, view>>
    ELSE GiveUp(i) /\ UNCHANGED server

\* A 401: refresh once with the refresh token that is stored now.
Unauthorized(i) ==
    IF requests[i].phase = "again" THEN Fail(i) /\ UNCHANGED <<storage, server>>
    ELSE IF refresh # None
    THEN /\ requests' = [requests EXCEPT ![i].phase = "refreshing", ![i].reads = refresh,
                                         ![i].own = TRUE]
         /\ UNCHANGED <<storage, server, me, view>>
    ELSE GiveUp(i) /\ UNCHANGED server

\* An answer lost on the way back finds the save applied.
Lost(i) ==
    /\ Fail(i) /\ UNCHANGED storage
    /\ UNCHANGED server \/ (requests[i].kind = "save" /\ requests[i].as # None /\ Saved(requests[i]))

Answer(i) ==
    LET r == requests[i]
    IN  CASE r.kind = "none" -> FALSE
          [] r.kind = "ask" -> Asked(i)
          [] r.kind \in SignInKinds ->
                \/ IF r.from \in {"activate", "pitch"} THEN Invited(i) ELSE SignedIn(i)
                \/ Stay(Without(i)) /\ UNCHANGED <<storage, server, me, push>>
          [] r.kind \in {"me", "save"} /\ r.phase = "refreshing" ->
                /\ refreshAccess(i) \/ (GiveUp(i) /\ UNCHANGED server)
                /\ UNCHANGED push
          [] OTHER ->
                /\ (r.as # None /\ Succeed(i)) \/ Unauthorized(i) \/ Lost(i)
                /\ UNCHANGED push

-----------------------------------------------------------------------------
Next ==
    \/ LoginFlow \/ ForgotPasswordPage \/ CompleteProfilePage \/ OnboardingFlow
    \/ StaffOnboardingPage \/ ValidateInvite \/ ActivateInner
    \/ ClaimEmailStep \/ ClaimCodeStep \/ PitchContent \/ ClaimPush
    \/ CustomerShell \/ AccountCard \/ ProfileLogout \/ OwnerShell \/ OwnerCard
    \/ StaffShell \/ StaffAccountFooter \/ StaffNav
    \/ useMe \/ Age \/ Redirect
    \/ \E p \in Pages : Open(p)
    \/ \E u \in Users \union {None} : OtherTab(u)
    \/ \E i \in Ids : Answer(i)

\* The browser runs effects; every request is answered or fails.
Spec ==
    /\ Init /\ [][Next]_vars
    /\ WF_vars(Redirect)
    /\ \A i \in Ids : WF_vars(Answer(i))

-----------------------------------------------------------------------------
(* Properties *)

\* The tokens and the account id in the storage belong to one account, unless
\* an answer has outlived its session or an invitation was taken since the last
\* sign-in: `mixed` records those, and every sign-in ends them.  What is stored,
\* cached and under way is well-typed.
OneAccount ==
    /\ WebTypeOK
    /\ access # None /\ ~mixed => refresh = access /\ uid = access

\* Every request ends, the refresh and the retry on a 401 included: one refresh
\* is tried, never a loop of them.
WebRequestsEnd ==
    \A i \in Ids : (requests[i].kind # "none") ~> (requests[i].kind = "none")

\* The guards agree with one another: redirects come to an end, whatever the
\* cached account and however out of date it is.
RedirectsEnd == []<>~Redirecting

\* A signed-in user on a page of another area is sent to their own default page.
\* Refuted: right after a sign-in the guards still read the account before it.
RedirectFollowsOwnArea ==
    [][useRequireArea /\ Redirect => page' = DefaultPath(area[access])]_vars

=============================================================================
