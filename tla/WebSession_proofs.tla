------------------------- MODULE WebSession_proofs -------------------------
(***************************************************************************)
(* Theorems about who is signed in, for any number of accounts and of      *)
(* overlapping requests, with or without another tab.                      *)
(*                                                                         *)
(* OneAccount says nothing of the requests under way, so it is not         *)
(* inductive: the account id is written by the answer of /me, and the      *)
(* access token by a refresh.  Fits says what a request of the current     *)
(* session carries, and every change of session disowns the requests.      *)
(***************************************************************************)
EXTENDS WebSession, WellFoundedInduction, TLAPS

-----------------------------------------------------------------------------
(* Requests *)

Kinds == {"none", "me", "ask", "save"} \union SignInKinds

RequestType == [kind : Kinds, as : Users \union {None}, from : Pages,
                here : BOOLEAN, own : BOOLEAN,
                phase : {"sent", "refreshing", "again"},
                reads : Users \union {None}]

MeType == [user : Users \union {None}, done : BOOLEAN, stale : BOOLEAN,
           failed : BOOLEAN, fetch : Ids \union {0}]

\* A sign-in is for an account.
WellFormed(reqs) ==
    /\ reqs \in [Ids -> RequestType]
    /\ \A i \in Ids : reqs[i].kind \in SignInKinds => reqs[i].as \in Users

\* A request of the current session carries, or will bring, the token stored now.
Fits(reqs, token) ==
    \A i \in Ids : reqs[i].own =>
        /\ reqs[i].kind \in {"me", "save"}
        /\ reqs[i].phase = "refreshing" => reqs[i].reads = token
        /\ reqs[i].phase # "refreshing" => reqs[i].as \in {token, None}

LEMMA SlotTyped ==
    /\ NoRequest \in RequestType
    /\ NoRequest.kind = "none" /\ ~NoRequest.own
<1>1. "home" \in Pages
  BY DEF Pages
<1> QED BY <1>1, Zenon DEF NoRequest, RequestType, Kinds

\* A request put together from parts of the right kind is well-typed.
LEMMA RequestMade ==
    ASSUME NEW kind \in Kinds, NEW as \in Users \union {None}, page \in Pages
    PROVE  /\ request(kind, as) \in RequestType
           /\ request(kind, as).kind = kind /\ request(kind, as).as = as
           /\ request(kind, as).phase = "sent"
           /\ request(kind, as).own => kind \in {"me", "save"}
<1> DEFINE r1 == [NoRequest EXCEPT !.kind = kind]
           r2 == [r1 EXCEPT !.as = as]
           r3 == [r2 EXCEPT !.own = kind \in {"me", "save"}]
           r4 == [r3 EXCEPT !.from = IF kind = "me" THEN "home" ELSE page]
           r5 == [r4 EXCEPT !.here = kind # "me"]
<1>1. request(kind, as) = r5
  BY DEF request
<1>2. (IF kind = "me" THEN "home" ELSE page) \in Pages
  BY DEF Pages
<1>3. (kind # "me") \in BOOLEAN /\ (kind \in {"me", "save"}) \in BOOLEAN
  OBVIOUS
<1>4. r1 \in RequestType /\ r1.kind = kind /\ r1.phase = "sent"
  BY SlotTyped, Zenon DEF RequestType, NoRequest
<1> HIDE DEF r1
<1>5. r2 \in RequestType /\ r2.kind = r1.kind /\ r2.as = as /\ r2.phase = r1.phase
  BY <1>4, Zenon DEF RequestType
<1> HIDE DEF r2
<1>6. /\ r3 \in RequestType /\ r3.kind = r2.kind /\ r3.as = r2.as /\ r3.phase = r2.phase
      /\ r3.own = (kind \in {"me", "save"})
  BY <1>3, <1>5, Zenon DEF RequestType
<1> HIDE DEF r3
<1>7. /\ r4 \in RequestType /\ r4.kind = r3.kind /\ r4.as = r3.as /\ r4.phase = r3.phase
      /\ r4.own = r3.own
  BY <1>2, <1>6, Zenon DEF RequestType
<1> HIDE DEF r4
<1>8. /\ r5 \in RequestType /\ r5.kind = r4.kind /\ r5.as = r4.as /\ r5.phase = r4.phase
      /\ r5.own = r4.own
  BY <1>3, <1>7, Zenon DEF RequestType
<1> HIDE DEF r5
<1> QED BY <1>1, <1>4, <1>5, <1>6, <1>7, <1>8, Zenon

\* What disowning or unmounting a request leaves as it was.
LEMMA Disowned ==
    ASSUME NEW r \in RequestType
    PROVE  /\ [r EXCEPT !.own = FALSE] \in RequestType
           /\ [r EXCEPT !.own = FALSE].kind = r.kind
           /\ [r EXCEPT !.own = FALSE].as = r.as
           /\ ~[r EXCEPT !.own = FALSE].own
BY Zenon DEF RequestType

LEMMA NotHere ==
    ASSUME NEW r \in RequestType
    PROVE  /\ [r EXCEPT !.here = FALSE] \in RequestType
           /\ [r EXCEPT !.here = FALSE].kind = r.kind
           /\ [r EXCEPT !.here = FALSE].as = r.as
           /\ [r EXCEPT !.here = FALSE].own = r.own
           /\ [r EXCEPT !.here = FALSE].phase = r.phase
           /\ [r EXCEPT !.here = FALSE].reads = r.reads
BY Zenon DEF RequestType

\* A request that waits for a refresh, and one that is sent again.
LEMMA Refreshing ==
    ASSUME NEW r \in RequestType, NEW token \in Users \union {None}
    PROVE  \E s \in RequestType :
             /\ s = [r EXCEPT !.phase = "refreshing", !.reads = token, !.own = TRUE]
             /\ s.kind = r.kind /\ s.as = r.as
             /\ s.phase = "refreshing" /\ s.reads = token /\ s.own = TRUE
<1> DEFINE r1 == [r EXCEPT !.phase = "refreshing"]
           r2 == [r1 EXCEPT !.reads = token]
           r3 == [r2 EXCEPT !.own = TRUE]
<1>1. r1 \in RequestType /\ r1.kind = r.kind /\ r1.as = r.as /\ r1.phase = "refreshing"
  BY Zenon DEF RequestType
<1> HIDE DEF r1
<1>2. /\ r2 \in RequestType /\ r2.kind = r1.kind /\ r2.as = r1.as /\ r2.phase = r1.phase
      /\ r2.reads = token
  BY <1>1, Zenon DEF RequestType
<1> HIDE DEF r2
<1>3. /\ r3 \in RequestType /\ r3.kind = r2.kind /\ r3.as = r2.as /\ r3.phase = r2.phase
      /\ r3.reads = r2.reads /\ r3.own = TRUE
  BY <1>2, Zenon DEF RequestType
<1> HIDE DEF r3
<1>4. r3 = [r EXCEPT !.phase = "refreshing", !.reads = token, !.own = TRUE]
  BY Zenon DEF r1, r2, r3
<1> QED BY <1>1, <1>2, <1>3, <1>4, Zenon

LEMMA SentAgain ==
    ASSUME NEW r \in RequestType, NEW token \in Users \union {None}
    PROVE  \E s \in RequestType :
             /\ s = [r EXCEPT !.phase = "again", !.as = token]
             /\ s.kind = r.kind /\ s.as = token /\ s.phase = "again" /\ s.own = r.own
<1> DEFINE r1 == [r EXCEPT !.phase = "again"]
           r2 == [r1 EXCEPT !.as = token]
<1>1. r1 \in RequestType /\ r1.kind = r.kind /\ r1.own = r.own /\ r1.phase = "again"
  BY Zenon DEF RequestType
<1> HIDE DEF r1
<1>2. /\ r2 \in RequestType /\ r2.kind = r1.kind /\ r2.as = token /\ r2.phase = r1.phase
      /\ r2.own = r1.own
  BY <1>1, Zenon DEF RequestType
<1> HIDE DEF r2
<1>3. r2 = [r EXCEPT !.phase = "again", !.as = token]
  BY Zenon DEF r1, r2
<1> QED BY <1>1, <1>2, <1>3, Zenon

LEMMA SlotFound ==
    ASSUME Free # {}
    PROVE  Next1 \in Free /\ Next1 \in Ids /\ requests[Next1] = NoRequest
<1>1. Free \subseteq Nat
  BY WebSessionAssumption DEF Free, Ids
<1>2. PICK least \in Free : \A k \in Free : ~(<<k, least>> \in OpToRel(<, Nat))
  <2> DEFINE R == OpToRel(<, Nat)
  <2>1. IsWellFoundedOn(R, Nat)
    BY NatLessThanWellFounded
  <2> HIDE DEF R
  <2>2. \E x \in Free : \A y \in Free : ~(<<y, x>> \in R)
    BY <1>1, <2>1, WFMin
  <2> QED BY <2>2 DEF R
<1>3. \A k \in Free : ~(k < least)
  BY <1>1, <1>2 DEF OpToRel
<1>4. \A k \in Free : least <= k
  BY <1>1, <1>3
<1>5. Next1 \in Free
  BY <1>4 DEF Next1
<1> QED BY <1>5 DEF Free

\* Removing, unmounting and disowning requests, and sending one, keep the list
\* well-formed and fitting; a disowned list fits whatever token is stored.
LEMMA WithoutKeeps ==
    ASSUME WellFormed(requests), NEW i \in Ids
    PROVE  /\ WellFormed(Without(i))
           /\ \A token : Fits(requests, token) => Fits(Without(i), token)
<1>1. \A j \in Ids : Without(i)[j] = IF j = i THEN NoRequest ELSE requests[j]
  BY DEF Without, WellFormed
<1>2. Without(i) \in [Ids -> RequestType]
  BY SlotTyped DEF Without, WellFormed
<1>3. \A j \in Ids : Without(i)[j].kind \in SignInKinds => Without(i)[j].as \in Users
  BY <1>1, SlotTyped DEF WellFormed, SignInKinds
<1>4. ASSUME NEW token, Fits(requests, token) PROVE Fits(Without(i), token)
  BY <1>1, <1>4, SlotTyped DEF Fits
<1> QED BY <1>2, <1>3, <1>4 DEF WellFormed

LEMMA UnmountedKeeps ==
    ASSUME NEW reqs, WellFormed(reqs)
    PROVE  /\ WellFormed(Unmounted(reqs))
           /\ \A token : Fits(reqs, token) => Fits(Unmounted(reqs), token)
<1>1. \A j \in Ids : /\ Unmounted(reqs)[j] \in RequestType
                     /\ Unmounted(reqs)[j].kind = reqs[j].kind
                     /\ Unmounted(reqs)[j].as = reqs[j].as
                     /\ Unmounted(reqs)[j].own = reqs[j].own
                     /\ Unmounted(reqs)[j].phase = reqs[j].phase
                     /\ Unmounted(reqs)[j].reads = reqs[j].reads
  <2> TAKE j \in Ids
  <2>1. reqs[j] \in RequestType
    BY DEF WellFormed
  <2>2. Unmounted(reqs)[j] = IF reqs[j] = NoRequest THEN reqs[j]
                             ELSE [reqs[j] EXCEPT !.here = FALSE]
    BY DEF Unmounted
  <2>3. CASE reqs[j] = NoRequest
    BY <2>1, <2>2, <2>3, Zenon
  <2>4. CASE reqs[j] # NoRequest
    BY <2>1, <2>2, <2>4, NotHere, Zenon
  <2> QED BY <2>3, <2>4
<1>2. Unmounted(reqs) \in [Ids -> RequestType]
  <2>1. Unmounted(reqs) = [j \in Ids |-> Unmounted(reqs)[j]]
    BY DEF Unmounted
  <2> QED BY <1>1, <2>1
<1>3. WellFormed(Unmounted(reqs))
  BY <1>1, <1>2 DEF WellFormed
<1>4. ASSUME NEW token, Fits(reqs, token) PROVE Fits(Unmounted(reqs), token)
  BY <1>1, <1>4 DEF Fits
<1> QED BY <1>3, <1>4

LEMMA OutliveKeeps ==
    ASSUME NEW reqs, WellFormed(reqs)
    PROVE  WellFormed(Outlive(reqs)) /\ \A token : Fits(Outlive(reqs), token)
<1>1. \A j \in Ids : /\ Outlive(reqs)[j] \in RequestType
                     /\ Outlive(reqs)[j].kind = reqs[j].kind
                     /\ Outlive(reqs)[j].as = reqs[j].as
                     /\ ~Outlive(reqs)[j].own
  <2> TAKE j \in Ids
  <2>1. reqs[j] \in RequestType
    BY DEF WellFormed
  <2>2. Outlive(reqs)[j] = IF reqs[j] = NoRequest THEN reqs[j]
                           ELSE [reqs[j] EXCEPT !.own = FALSE]
    BY DEF Outlive
  <2>3. CASE reqs[j] = NoRequest
    BY <2>1, <2>2, <2>3, SlotTyped, Zenon
  <2>4. CASE reqs[j] # NoRequest
    BY <2>1, <2>2, <2>4, Disowned, Zenon
  <2> QED BY <2>3, <2>4
<1>2. Outlive(reqs) \in [Ids -> RequestType]
  <2>1. Outlive(reqs) = [j \in Ids |-> Outlive(reqs)[j]]
    BY DEF Outlive
  <2> QED BY <1>1, <2>1
<1>3. WellFormed(Outlive(reqs))
  BY <1>1, <1>2 DEF WellFormed
<1>4. \A token : Fits(Outlive(reqs), token)
  BY <1>1 DEF Fits
<1> QED BY <1>3, <1>4

LEMMA SendKeeps ==
    ASSUME WellFormed(requests), Free # {}, page \in Pages,
           NEW kind \in Kinds, NEW as \in Users \union {None}, NEW token,
           kind \in SignInKinds => as \in Users,
           kind \in {"me", "save"} => as = token
    PROVE  LET reqs == [requests EXCEPT ![Next1] = request(kind, as)]
           IN  WellFormed(reqs) /\ (Fits(requests, token) => Fits(reqs, token))
<1>1. PICK r : /\ r = request(kind, as)
               /\ r \in RequestType /\ r.kind = kind /\ r.as = as /\ r.phase = "sent"
               /\ r.own => kind \in {"me", "save"}
  BY RequestMade, Zenon
<1> DEFINE reqs == [requests EXCEPT ![Next1] = r]
<1>2. \A j \in Ids : reqs[j] = IF j = Next1 THEN r ELSE requests[j]
  BY SlotFound DEF WellFormed
<1>3. reqs \in [Ids -> RequestType]
  BY <1>1, SlotFound DEF WellFormed
<1> HIDE DEF reqs
<1>4. WellFormed(reqs)
  BY <1>1, <1>2, <1>3 DEF WellFormed
<1>5. ASSUME Fits(requests, token) PROVE Fits(reqs, token)
  BY <1>1, <1>2, <1>5 DEF Fits
<1> QED BY <1>1, <1>4, <1>5 DEF reqs

-----------------------------------------------------------------------------
(* The invariant *)

Steps == {"first", "code", "password", "success"}

StorageType ==
    /\ {access, refresh, uid} \subseteq Users \union {None}
    /\ area \in Casts /\ finished \subseteq Users /\ toured \subseteq Users
    /\ mixed \in BOOLEAN

ViewType ==
    /\ me \in MeType
    /\ page \in Pages /\ returnTo \in Pages /\ step \in Steps
    /\ push \in BOOLEAN

\* While nothing has mixed two sessions, both tokens and the account id are one
\* account's, and so is what the requests of this session carry.
Unmixed ==
    /\ refresh = access
    /\ access # None => uid = access
    /\ Fits(requests, access)

SessionInv ==
    /\ StorageType
    /\ ViewType
    /\ WellFormed(requests)
    /\ ~mixed => Unmixed

LEMMA InvImplies == SessionInv => OneAccount
BY DEF SessionInv, StorageType, ViewType, WellFormed, Unmixed, OneAccount, WebTypeOK,
       MeType, RequestType, Kinds, Steps

\* Going to another page.
LEMMA Leads ==
    ASSUME NEW p \in Pages, NEW r \in Pages, NEW reqs, WellFormed(reqs), GoTo(p, r, reqs)
    PROVE  /\ page' \in Pages /\ returnTo' \in Pages /\ step' \in Steps
           /\ WellFormed(requests')
           /\ \A token : Fits(reqs, token) => Fits(requests', token)
<1>1. page' = p /\ returnTo' = r /\ step' = "first" /\ requests' = Unmounted(reqs)
  BY DEF GoTo
<1>2. step' \in Steps
  BY <1>1 DEF Steps
<1> QED BY <1>1, <1>2, UnmountedKeeps

\* A step that leaves the tokens and the account id alone.
LEMMA StorageStays ==
    ASSUME SessionInv, UNCHANGED storage, StorageType', ViewType',
           WellFormed(requests'), Fits(requests, access) => Fits(requests', access)
    PROVE  SessionInv'
<1>1. UNCHANGED <<access, refresh, uid, mixed>>
  BY DEF storage
<1>2. ~mixed' => Unmixed'
  BY <1>1 DEF SessionInv, Unmixed
<1> QED BY <1>2 DEF SessionInv

\* The same, when only the view changes.
LEMMA ViewMoves ==
    ASSUME SessionInv, UNCHANGED <<storage, server>>, ViewType',
           WellFormed(requests'), Fits(requests, access) => Fits(requests', access)
    PROVE  SessionInv'
<1>1. StorageType'
  BY DEF SessionInv, StorageType, storage, server
<1> QED BY <1>1, StorageStays

\* A change of session: it disowns the requests, whatever it stores.
LEMMA SessionEnds ==
    ASSUME SessionInv, StorageType', ViewType', WellFormed(requests'),
           Fits(requests', access'),
           mixed' \/ (refresh' = access' /\ (access' # None => uid' = access'))
    PROVE  SessionInv'
BY DEF SessionInv, Unmixed

LEMMA Sends ==
    ASSUME SessionInv, NEW kind \in Kinds, NEW as \in Users \union {None},
           kind \in SignInKinds => as \in Users,
           kind \in {"me", "save"} => as = access,
           Send(kind, as)
    PROVE  SessionInv'
<1>1. /\ WellFormed(requests') /\ (Fits(requests, access) => Fits(requests', access))
  BY SendKeeps DEF Send, SessionInv, ViewType
<1>2. UNCHANGED <<storage, server>> /\ ViewType'
  BY DEF Send, SessionInv, ViewType, view
<1> QED BY <1>1, <1>2, ViewMoves

LEMMA Follows ==
    ASSUME SessionInv, NEW p \in Pages, NEW r \in Pages, Follow(p, r)
    PROVE  SessionInv'
<1>1. /\ page' \in Pages /\ returnTo' \in Pages /\ step' \in Steps
      /\ WellFormed(requests')
      /\ (Fits(requests, access) => Fits(requests', access))
  BY Leads DEF Follow, SessionInv
<1>2. ViewType'
  BY <1>1 DEF Follow, SessionInv, ViewType
<1> QED BY <1>1, <1>2, ViewMoves DEF Follow

LEMMA StepsKeep ==
    ASSUME SessionInv, NEW s \in Steps, Step(s)
    PROVE  SessionInv'
<1>1. UNCHANGED <<storage, server, requests>> /\ ViewType'
  BY DEF Step, SessionInv, ViewType
<1> QED BY <1>1, ViewMoves DEF SessionInv

\* Signing out forgets both tokens; the account id stays, or is forgotten too.
LEMMA SignsOut ==
    ASSUME SessionInv, clear, uid' \in {uid, None}, NEW p \in Pages, NEW r \in Pages,
           GoTo(p, r, Outlive(requests)), UNCHANGED <<server, me, push>>
    PROVE  SessionInv'
<1>1. access' = None /\ refresh' = None /\ mixed' = mixed
  BY DEF clear
<1>2. /\ page' \in Pages /\ returnTo' \in Pages /\ step' \in Steps
      /\ WellFormed(requests') /\ Fits(requests', access')
  BY OutliveKeeps, Leads DEF SessionInv
<1>3. StorageType' /\ ViewType'
  BY <1>1, <1>2 DEF SessionInv, StorageType, ViewType, server
<1> QED BY <1>1, <1>2, <1>3, SessionEnds

-----------------------------------------------------------------------------
(* The pages *)

LEMMA AsksKeep == SessionInv /\ IdentifierStep => SessionInv'
BY Sends DEF IdentifierStep, Kinds, SignInKinds

LEMMA CodesKeep == SessionInv /\ (CodeStep \/ OwnerCodeStep) => SessionInv'
BY Sends DEF CodeStep, OwnerCodeStep, Kinds, SignInKinds

LEMMA PasswordsKeep == SessionInv /\ PasswordStep => SessionInv'
<1> SUFFICES ASSUME SessionInv, PasswordStep PROVE SessionInv'
  OBVIOUS
<1>1. CASE \E u \in Users : Send("password", u)
  BY <1>1, Sends DEF Kinds, SignInKinds
<1>2. CASE Follow("forgot", "home")
  BY <1>2, Follows DEF Pages
<1> QED BY <1>1, <1>2 DEF PasswordStep

LEMMA SavesKeep == SessionInv /\ Send("save", access) => SessionInv'
BY Sends DEF Kinds, SignInKinds, SessionInv, StorageType

LEMMA FormsKeep ==
    ASSUME SessionInv,
           \/ LoginFlow \/ ForgotPasswordPage \/ CompleteProfilePage \/ OnboardingFlow
           \/ StaffOnboardingPage \/ ValidateInvite \/ ActivateInner
           \/ ClaimEmailStep \/ ClaimCodeStep \/ PitchContent
    PROVE  SessionInv'
<1>1. \A p, r \in Pages : Follow(p, r) => SessionInv'
  BY Follows
<1>2. \A s \in Steps : Step(s) => SessionInv'
  BY StepsKeep
<1>3. {"home", "login", "forgot", "customer"} \subseteq Pages /\ {"first", "code"} \subseteq Steps
  BY DEF Pages, Steps
<1>4. CASE LoginFlow
  <2>1. CASE GoogleLogin
    BY <2>1, Sends DEF GoogleLogin, Kinds, SignInKinds
  <2> QED BY <1>1, <1>2, <1>3, <1>4, <2>1, AsksKeep, CodesKeep, PasswordsKeep DEF LoginFlow
<1>5. CASE ForgotPasswordPage
  BY <1>1, <1>2, <1>3, <1>5, AsksKeep, CodesKeep DEF ForgotPasswordPage
<1>6. CASE CompleteProfilePage \/ OnboardingFlow \/ StaffOnboardingPage
  BY <1>1, <1>3, <1>6, SavesKeep
  DEF CompleteProfilePage, OnboardingFlow, StaffOnboardingPage
<1>7. CASE ValidateInvite \/ ActivateInner \/ ClaimEmailStep \/ ClaimCodeStep \/ PitchContent
  BY <1>2, <1>3, <1>7, AsksKeep, CodesKeep
  DEF ValidateInvite, ActivateInner, ClaimEmailStep, ClaimCodeStep, PitchContent
<1> QED BY <1>4, <1>5, <1>6, <1>7

LEMMA ShellsKeep ==
    ASSUME SessionInv,
           \/ CustomerShell \/ AccountCard \/ ProfileLogout \/ OwnerShell \/ OwnerCard
           \/ StaffShell \/ StaffAccountFooter \/ StaffNav
    PROVE  SessionInv'
<1>1. \A p, r \in Pages : Follow(p, r) => SessionInv'
  BY Follows
<1>2. \A p, r \in Pages : logout(p, r) => SessionInv'
  BY SignsOut DEF logout
<1>3. /\ {"home", "login", "customer", "till", "staff", "owner"} \subseteq Pages
      /\ page \in Pages
  BY DEF Pages, SessionInv, ViewType
<1>4. CASE CustomerShell \/ OwnerShell \/ StaffShell \/ StaffNav
  BY <1>1, <1>3, <1>4 DEF CustomerShell, OwnerShell, StaffShell, StaffNav
<1>5. CASE AccountCard \/ ProfileLogout \/ OwnerCard
  BY <1>2, <1>3, <1>5 DEF AccountCard, ProfileLogout, OwnerCard
<1>6. CASE StaffAccountFooter
  BY <1>3, <1>6, SignsOut DEF StaffAccountFooter
<1> QED BY <1>4, <1>5, <1>6

\* Wherever a guard leads is a page.
LEMMA RedirectKeeps == SessionInv /\ Redirect => SessionInv'
<1> SUFFICES ASSUME SessionInv, Redirect PROVE SessionInv'
  OBVIOUS
<1>1. \A p, r \in Pages : Follow(p, r) => SessionInv'
  BY Follows
<1>2. /\ {"home", "login", "till", "staffOnboarding"} \subseteq Pages /\ page \in Pages
      /\ \A own : DefaultPath(own) \in Pages
  BY DEF Pages, SessionInv, ViewType, DefaultPath
<1> QED BY <1>1, <1>2 DEF Redirect

\* The promoter's push and a reload: neither touches the storage.
LEMMA PushKeeps == SessionInv /\ ClaimPush => SessionInv'
<1> SUFFICES ASSUME SessionInv, ClaimPush PROVE SessionInv'
  OBVIOUS
<1>1. /\ page' \in Pages /\ returnTo' \in Pages /\ step' \in Steps
      /\ WellFormed(requests')
      /\ (Fits(requests, access) => Fits(requests', access))
  BY Leads DEF ClaimPush, SessionInv, Pages
<1>2. ViewType'
  BY <1>1 DEF ClaimPush, SessionInv, ViewType
<1> QED BY <1>1, <1>2, ViewMoves DEF ClaimPush

\* What may become of the cached answer keeps its type.
LEMMA MeUpdates ==
    ASSUME NEW m \in MeType
    PROVE  /\ NoMe \in MeType
           /\ [m EXCEPT !.stale = TRUE] \in MeType
           /\ [m EXCEPT !.stale = TRUE, !.fetch = 0] \in MeType
           /\ [m EXCEPT !.fetch = 0, !.failed = TRUE] \in MeType
           /\ \A i \in Ids : [m EXCEPT !.fetch = i, !.failed = FALSE] \in MeType
<1>1. NoMe \in MeType
  BY Zenon DEF NoMe, MeType
<1>2. \A n \in MeType : /\ [n EXCEPT !.stale = TRUE] \in MeType
                        /\ [n EXCEPT !.failed = TRUE] \in MeType
                        /\ [n EXCEPT !.failed = FALSE] \in MeType
  BY Zenon DEF MeType
<1>3. \A n \in MeType, i \in Ids \union {0} : [n EXCEPT !.fetch = i] \in MeType
  BY Zenon DEF MeType
<1> QED BY <1>1, <1>2, <1>3, Zenon

LEMMA OpenKeeps ==
    ASSUME SessionInv, NEW p \in Pages, Open(p)
    PROVE  SessionInv'
<1>1. \A i \in Ids : requests'[i] = NoRequest
  BY DEF Open
<1>2. requests' \in [Ids -> RequestType]
  BY SlotTyped DEF Open
<1>3. WellFormed(requests')
  BY <1>1, <1>2, SlotTyped DEF WellFormed, SignInKinds
<1>4. Fits(requests', access)
  BY <1>1, SlotTyped DEF Fits
<1>5. ViewType'
  BY MeUpdates DEF Open, SessionInv, ViewType, Steps, Pages
<1> QED BY <1>3, <1>4, <1>5, ViewMoves DEF Open

\* Another tab signs in or out: the storage is replaced as a whole.
LEMMA OtherTabKeeps ==
    ASSUME SessionInv, NEW u \in Users \union {None}, OtherTab(u)
    PROVE  SessionInv'
<1>1. access' = u /\ refresh' = u /\ mixed' = FALSE /\ uid' = IF u = None THEN uid ELSE u
  BY DEF OtherTab
<1>2. WellFormed(requests') /\ Fits(requests', access')
  BY OutliveKeeps DEF OtherTab, SessionInv
<1>3. StorageType' /\ ViewType'
  BY <1>1 DEF OtherTab, SessionInv, StorageType, ViewType, server, view
<1> QED BY <1>1, <1>2, <1>3, SessionEnds

LEMMA MeKeeps == SessionInv /\ (useMe \/ Age) => SessionInv'
<1> SUFFICES ASSUME SessionInv, useMe \/ Age PROVE SessionInv'
  OBVIOUS
<1>1. CASE Age
  <2>1. ViewType'
    BY <1>1, MeUpdates DEF Age, SessionInv, ViewType, view
  <2> QED BY <1>1, <2>1, ViewMoves DEF Age, SessionInv
<1>2. CASE useMe
  <2>1. Free # {} /\ Next1 \in Ids
    BY <1>2, SlotFound DEF useMe
  <2>2. /\ WellFormed(requests') /\ (Fits(requests, access) => Fits(requests', access))
    <3>1. access \in Users \union {None} /\ page \in Pages
      BY DEF SessionInv, StorageType, ViewType
    <3> QED BY <1>2, <2>1, <3>1, SendKeeps DEF useMe, SessionInv, Kinds, SignInKinds
  <2>3. ViewType'
    BY <1>2, <2>1, MeUpdates DEF useMe, SessionInv, ViewType, view
  <2> QED BY <1>2, <2>2, <2>3, ViewMoves DEF useMe
<1> QED BY <1>1, <1>2

-----------------------------------------------------------------------------
(* The answers *)

\* Where a sign-in leads is a page.
LEMMA RouteTyped ==
    ASSUME NEW u \in Users, NEW to \in Pages
    PROVE  postAuthRoute(u, to)[1] \in Pages /\ postAuthRoute(u, to)[2] \in Pages
<1>1. areaPath(u, to) \in Pages
  BY DEF areaPath, Pages
<1>2. {"home", "complete", "tour", "staffOnboarding"} \subseteq Pages
  BY DEF Pages
<1> QED BY <1>1, <1>2 DEF postAuthRoute

LEMMA AskedKeeps ==
    ASSUME SessionInv, NEW i \in Ids, Asked(i)
    PROVE  SessionInv'
<1>1. step' \in Steps
  BY DEF Asked, Steps, SessionInv, ViewType
<1>2. ViewType'
  BY <1>1 DEF Asked, SessionInv, ViewType
<1>3. WellFormed(requests') /\ (Fits(requests, access) => Fits(requests', access))
  BY WithoutKeeps DEF Asked, SessionInv
<1> QED BY <1>2, <1>3, ViewMoves DEF Asked

\* A sign-in stores one account everywhere and disowns every request.
LEMMA SignedInKeeps ==
    ASSUME SessionInv, NEW i \in Ids, requests[i].kind \in SignInKinds, SignedIn(i)
    PROVE  SessionInv'
<1> DEFINE u == requests[i].as
<1>1. u \in Users
  BY DEF SessionInv, WellFormed
<1>2. access' = u /\ refresh' = u /\ uid' = u /\ mixed' = FALSE
  BY DEF SignedIn
<1>3. WellFormed(Outlive(Without(i))) /\ Fits(Outlive(Without(i)), access')
  BY WithoutKeeps, OutliveKeeps DEF SessionInv
<1>4. /\ page' \in Pages /\ returnTo' \in Pages /\ step' \in Steps
      /\ WellFormed(requests') /\ Fits(requests', access')
  <2> DEFINE to == IF requests[i].from = "login" THEN returnTo ELSE "home"
  <2>1. to \in Pages
    BY DEF Pages, SessionInv, ViewType
  <2> HIDE DEF to
  <2>2. PICK p \in Pages, r \in Pages :
          p = postAuthRoute(u, to)[1] /\ r = postAuthRoute(u, to)[2]
    BY <1>1, <2>1, RouteTyped
  <2>3. CASE GoTo(p, r, Outlive(Without(i)))
    BY <1>3, <2>3, Leads
  <2>4. CASE Stay(Outlive(Without(i)))
    BY <1>3, <2>4 DEF Stay, view, SessionInv, ViewType
  <2> QED BY <2>2, <2>3, <2>4 DEF SignedIn, to
<1>5. ViewType'
  BY <1>4, MeUpdates DEF SignedIn, SessionInv, ViewType, invalidateMe
<1>6. StorageType'
  BY <1>1, <1>2 DEF SignedIn, SessionInv, StorageType, server
<1> QED BY <1>2, <1>4, <1>5, <1>6, SessionEnds

LEMMA InvitedKeeps ==
    ASSUME SessionInv, NEW i \in Ids, requests[i].kind \in SignInKinds, Invited(i)
    PROVE  SessionInv'
<1>1. requests[i].as \in Users
  BY DEF SessionInv, WellFormed
<1>2. /\ WellFormed(Without(i)) /\ \A token : Fits(requests, token) => Fits(Without(i), token)
      /\ WellFormed(Outlive(Without(i))) /\ \A token : Fits(Outlive(Without(i)), token)
  BY WithoutKeeps, OutliveKeeps DEF SessionInv
<1>3. CASE ~requests[i].here
  <2>1. UNCHANGED <<storage, server, me, push>> /\ Stay(Without(i))
    BY <1>3 DEF Invited, storage
  <2>2. ViewType'
    BY <2>1 DEF Stay, view, SessionInv, ViewType
  <2> QED BY <1>2, <2>1, <2>2, ViewMoves DEF Stay
<1>4. CASE requests[i].here
  <2>1. /\ access' = requests[i].as /\ refresh' = requests[i].as /\ mixed' = TRUE
        /\ UNCHANGED <<uid, server, me>>
    BY <1>4 DEF Invited
  <2>2. StorageType'
    BY <1>1, <2>1 DEF SessionInv, StorageType, server
  <2>3. CASE GoTo("wizard", "home", Outlive(Without(i))) /\ UNCHANGED push
    <3>1. /\ page' \in Pages /\ returnTo' \in Pages /\ step' \in Steps
          /\ WellFormed(requests') /\ Fits(requests', access')
      BY <1>2, <2>3, Leads DEF Pages
    <3>2. ViewType'
      BY <2>1, <2>3, <3>1 DEF SessionInv, ViewType
    <3> QED BY <2>1, <2>2, <3>1, <3>2, SessionEnds
  <2>4. CASE /\ step' = "success" /\ push' = TRUE
             /\ requests' = Outlive(Without(i))
             /\ UNCHANGED <<page, returnTo>>
    <3>1. ViewType'
      BY <2>1, <2>4 DEF SessionInv, ViewType, Steps
    <3> QED BY <1>2, <2>1, <2>2, <2>4, <3>1, SessionEnds
  <2> QED BY <1>4, <2>3, <2>4 DEF Invited
<1> QED BY <1>3, <1>4

LEMMA Leaves ==
    ASSUME SessionInv, NEW i \in Ids, Leave(i) \/ Stay(Without(i))
    PROVE  /\ page' \in Pages /\ returnTo' \in Pages /\ step' \in Steps
           /\ WellFormed(requests')
           /\ \A token : Fits(requests, token) => Fits(requests', token)
<1>1. /\ WellFormed(Without(i))
      /\ \A token : Fits(requests, token) => Fits(Without(i), token)
  BY WithoutKeeps DEF SessionInv
<1>2. CASE Stay(Without(i))
  BY <1>1, <1>2 DEF Stay, view, SessionInv, ViewType
<1>3. CASE \E p, r \in Pages : GoTo(p, r, Without(i))
  <2>1. PICK p \in Pages, r \in Pages : GoTo(p, r, Without(i))
    BY <1>3
  <2> QED BY <1>1, <2>1, Leads
<1>4. {"home", "tour", "till"} \subseteq Pages /\ returnTo \in Pages
  BY DEF Pages, SessionInv, ViewType
<1> QED BY <1>2, <1>3, <1>4 DEF Leave

\* An error leaves the storage alone; only the save of a form may have arrived.
LEMMA FailKeeps ==
    ASSUME SessionInv, NEW i \in Ids, Fail(i), UNCHANGED <<storage, push>>,
           \/ UNCHANGED server
           \/ requests[i].as # None /\ Saved(requests[i])
    PROVE  SessionInv'
<1>1. /\ page' \in Pages /\ returnTo' \in Pages /\ step' \in Steps
      /\ WellFormed(requests')
      /\ (Fits(requests, access) => Fits(requests', access))
  BY Leaves DEF Fail
<1>2. me' \in MeType
  BY MeUpdates DEF Fail, SessionInv, ViewType
<1>3. StorageType'
  <2>1. requests[i].as \in Users \union {None}
    <3>1. requests[i] \in RequestType
      BY DEF SessionInv, WellFormed
    <3> QED BY <3>1, Zenon DEF RequestType
  <2>2. UNCHANGED <<access, refresh, uid, mixed>>
    BY DEF storage
  <2>3. area' \in Casts /\ finished' \subseteq Users /\ toured' \subseteq Users
    BY <2>1 DEF server, Saved, SessionInv, StorageType
  <2> QED BY <2>2, <2>3 DEF SessionInv, StorageType
<1>4. ViewType'
  BY <1>1, <1>2 DEF SessionInv, ViewType
<1> QED BY <1>1, <1>3, <1>4, StorageStays

\* The session ends, whichever it is by now.
LEMMA GiveUpKeeps ==
    ASSUME SessionInv, NEW i \in Ids, GiveUp(i), UNCHANGED <<server, push>>
    PROVE  SessionInv'
<1>1. access' = None /\ refresh' = None /\ mixed' = mixed /\ uid' = uid
  BY DEF GiveUp, clear
<1>2. WellFormed(Outlive(Without(i))) /\ \A token : Fits(Outlive(Without(i)), token)
  BY WithoutKeeps, OutliveKeeps DEF SessionInv
<1>3. /\ page' \in Pages /\ returnTo' \in Pages /\ step' \in Steps
      /\ WellFormed(requests') /\ Fits(requests', access')
  <2>1. CASE GoTo(returnTo, "home", Outlive(Without(i)))
    <3>1. returnTo \in Pages /\ "home" \in Pages
      BY DEF SessionInv, ViewType, Pages
    <3> QED BY <1>2, <2>1, <3>1, Leads
  <2>2. CASE Stay(Outlive(Without(i)))
    BY <1>2, <2>2 DEF Stay, view, SessionInv, ViewType
  <2> QED BY <2>1, <2>2 DEF GiveUp
<1>4. me' \in MeType
  BY MeUpdates DEF GiveUp, SessionInv, ViewType
<1>5. StorageType' /\ ViewType'
  BY <1>1, <1>3, <1>4 DEF SessionInv, StorageType, ViewType, server
<1> QED BY <1>1, <1>3, <1>5, SessionEnds

\* An answer that is not of this session is what mixes two of them.
LEMMA SucceedKeeps ==
    ASSUME SessionInv, NEW i \in Ids, requests[i].as # None,
           requests[i].kind \in {"me", "save"}, requests[i].phase # "refreshing",
           Succeed(i), UNCHANGED push
    PROVE  SessionInv'
<1> DEFINE as == requests[i].as
<1>1. as \in Users
  <2>1. requests[i] \in RequestType
    BY DEF SessionInv, WellFormed
  <2>2. as \in Users \union {None}
    BY <2>1, Zenon DEF RequestType
  <2> QED BY <2>2
<1>2. CASE requests[i].kind = "save"
  <2>1. Saved(requests[i]) /\ Leave(i) /\ me' = invalidateMe /\ UNCHANGED storage
    BY <1>2 DEF Succeed
  <2>2. /\ page' \in Pages /\ returnTo' \in Pages /\ step' \in Steps
        /\ WellFormed(requests')
        /\ (Fits(requests, access) => Fits(requests', access))
    BY <2>1, Leaves
  <2>3. me' \in MeType
    BY <2>1, MeUpdates DEF invalidateMe, SessionInv, ViewType
  <2>4. ViewType'
    BY <2>2, <2>3 DEF SessionInv, ViewType
  <2>5. StorageType'
    BY <1>1, <2>1 DEF Saved, SessionInv, StorageType, storage
  <2> QED BY <2>1, <2>2, <2>4, <2>5, StorageStays
<1>3. CASE requests[i].kind = "me"
  <2>1. /\ uid' = as /\ mixed' = (mixed \/ ~requests[i].own)
        /\ UNCHANGED <<access, refresh, server>> /\ Stay(Without(i))
        /\ me' = IF me.fetch # i THEN me
                 ELSE [user |-> as, done |-> as \in finished, stale |-> FALSE,
                       failed |-> FALSE, fetch |-> 0]
    BY <1>3 DEF Succeed
  <2>2. /\ page' \in Pages /\ returnTo' \in Pages /\ step' \in Steps
        /\ WellFormed(requests')
        /\ (Fits(requests, access) => Fits(requests', access'))
    BY <2>1, Leaves
  <2>3. me' \in MeType
    <3>1. me \in MeType
      BY DEF SessionInv, ViewType
    <3>2. (as \in finished) \in BOOLEAN
      OBVIOUS
    <3> HIDE DEF as
    <3>3. [user |-> as, done |-> as \in finished, stale |-> FALSE,
           failed |-> FALSE, fetch |-> 0] \in MeType
      BY <1>1, <3>2, Zenon DEF MeType
    <3> QED BY <2>1, <3>1, <3>3
  <2>4. ViewType'
    BY <2>1, <2>2, <2>3 DEF SessionInv, ViewType
  <2>5. StorageType'
    BY <1>1, <2>1 DEF SessionInv, StorageType, server
  <2>6. ASSUME ~mixed' PROVE Unmixed'
    <3>1. ~mixed /\ requests[i].own
      BY <2>1, <2>6
    <3>2. refresh = access /\ Fits(requests, access) /\ as = access
      BY <3>1 DEF SessionInv, Unmixed, Fits
    <3> QED BY <2>1, <2>2, <3>2 DEF Unmixed
  <2> QED BY <2>2, <2>4, <2>5, <2>6 DEF SessionInv
<1> QED BY <1>2, <1>3

\* The token a refresh brings is of the session it was read in, so it is the one
\* stored already, unless that session has gone.
LEMMA RefreshKeeps ==
    ASSUME SessionInv, NEW i \in Ids, requests[i].kind \in {"me", "save"},
           requests[i].phase = "refreshing", refreshAccess(i), UNCHANGED push
    PROVE  SessionInv'
<1>1. PICK r : r = requests[i] /\ r \in RequestType
  BY DEF SessionInv, WellFormed
<1>2. r.reads \in Users \union {None}
  BY <1>1, Zenon DEF RequestType
<1>3. PICK s \in RequestType :
        /\ s = [r EXCEPT !.phase = "again", !.as = r.reads]
        /\ s.kind = r.kind /\ s.as = r.reads /\ s.phase = "again" /\ s.own = r.own
  BY <1>1, <1>2, SentAgain
<1>4. /\ access' = r.reads /\ mixed' = (mixed \/ ~r.own)
      /\ requests' = [requests EXCEPT ![i].phase = "again", ![i].as = r.reads]
      /\ UNCHANGED <<refresh, uid, server, me, view>>
  BY <1>1 DEF refreshAccess
<1>5. /\ requests' \in [Ids -> RequestType]
      /\ \A j \in Ids : requests'[j] = IF j = i THEN s ELSE requests[j]
  <2>1. requests' = [requests EXCEPT ![i] = s]
    BY <1>1, <1>3, <1>4 DEF SessionInv, WellFormed
  <2> QED BY <2>1 DEF SessionInv, WellFormed
<1>6. ASSUME ~mixed' PROVE Unmixed'
  <2>1. ~mixed /\ r.own
    BY <1>4, <1>6
  <2>2. Unmixed /\ access' = access
    BY <1>1, <1>4, <2>1 DEF SessionInv, Unmixed, Fits
  <2>3. Fits(requests', access)
    BY <1>1, <1>3, <1>4, <1>5, <2>2 DEF Unmixed, Fits
  <2> QED BY <1>4, <2>2, <2>3 DEF Unmixed
<1>7. StorageType' /\ ViewType'
  BY <1>2, <1>4 DEF SessionInv, StorageType, ViewType, server, view
<1>8. WellFormed(requests')
  BY <1>1, <1>3, <1>5 DEF SessionInv, WellFormed, SignInKinds
<1> QED BY <1>6, <1>7, <1>8 DEF SessionInv

\* A 401: the refresh token is read from the storage, now.
LEMMA UnauthorizedKeeps ==
    ASSUME SessionInv, NEW i \in Ids, requests[i].kind \in {"me", "save"},
           Unauthorized(i), UNCHANGED push
    PROVE  SessionInv'
<1>1. CASE Fail(i) /\ UNCHANGED <<storage, server>>
  BY <1>1, FailKeeps
<1>2. CASE GiveUp(i) /\ UNCHANGED server
  BY <1>2, GiveUpKeeps
<1>3. CASE /\ requests' = [requests EXCEPT ![i].phase = "refreshing", ![i].reads = refresh,
                                           ![i].own = TRUE]
           /\ UNCHANGED <<storage, server, me, view>>
  <2>1. PICK r : r = requests[i] /\ r \in RequestType
    BY DEF SessionInv, WellFormed
  <2>2. refresh \in Users \union {None}
    BY DEF SessionInv, StorageType
  <2>3. PICK s \in RequestType :
          /\ s = [r EXCEPT !.phase = "refreshing", !.reads = refresh, !.own = TRUE]
          /\ s.kind = r.kind /\ s.as = r.as
          /\ s.phase = "refreshing" /\ s.reads = refresh /\ s.own = TRUE
    BY <2>1, <2>2, Refreshing
  <2>4. /\ requests' \in [Ids -> RequestType]
        /\ \A j \in Ids : requests'[j] = IF j = i THEN s ELSE requests[j]
    <3>1. requests' = [requests EXCEPT ![i] = s]
      BY <1>3, <2>1, <2>3 DEF SessionInv, WellFormed
    <3> QED BY <2>3, <3>1 DEF SessionInv, WellFormed
  <2>5. WellFormed(requests')
    BY <2>1, <2>3, <2>4 DEF SessionInv, WellFormed, SignInKinds
  <2>6. ASSUME ~mixed' PROVE Unmixed'
    <3>1. ~mixed /\ UNCHANGED <<access, refresh, uid>>
      BY <1>3, <2>6 DEF storage
    <3>2. Unmixed
      BY <3>1 DEF SessionInv
    <3>3. Fits(requests', access)
      BY <2>1, <2>3, <2>4, <3>2 DEF Unmixed, Fits
    <3> QED BY <3>1, <3>2, <3>3 DEF Unmixed
  <2>7. StorageType' /\ ViewType'
    BY <1>3 DEF SessionInv, StorageType, ViewType, storage, server, view
  <2> QED BY <2>5, <2>6, <2>7 DEF SessionInv
<1> QED BY <1>1, <1>2, <1>3 DEF Unauthorized

LEMMA AnswerKeeps ==
    ASSUME SessionInv, NEW i \in Ids, Answer(i)
    PROVE  SessionInv'
<1>1. requests[i].kind \in Kinds
  <2>1. requests[i] \in RequestType
    BY DEF SessionInv, WellFormed
  <2> QED BY <2>1, Zenon DEF RequestType
<1>2. CASE requests[i].kind = "none"
  <2>1. ~Answer(i)
    BY <1>2, Zenon DEF Answer, SignInKinds
  <2> QED BY <2>1
<1>3. CASE requests[i].kind = "ask"
  BY <1>3, AskedKeeps DEF Answer, SignInKinds
<1>4. CASE requests[i].kind \in SignInKinds
  <2>1. CASE SignedIn(i) \/ Invited(i)
    BY <1>4, <2>1, SignedInKeeps, InvitedKeeps
  <2>2. CASE Stay(Without(i)) /\ UNCHANGED <<storage, server, me, push>>
    <3>1. /\ page' \in Pages /\ returnTo' \in Pages /\ step' \in Steps
          /\ WellFormed(requests') /\ (Fits(requests, access) => Fits(requests', access))
      BY <2>2, Leaves
    <3>2. ViewType'
      BY <2>2, <3>1 DEF SessionInv, ViewType
    <3> QED BY <2>2, <3>1, <3>2, ViewMoves
  <2> QED BY <1>4, <2>1, <2>2 DEF Answer, SignInKinds
<1>5. CASE requests[i].kind \in {"me", "save"} /\ requests[i].phase = "refreshing"
  <2>1. refreshAccess(i) \/ (GiveUp(i) /\ UNCHANGED server)
    BY <1>5 DEF Answer, SignInKinds
  <2>2. UNCHANGED push
    BY <1>5 DEF Answer, SignInKinds
  <2> QED BY <1>5, <2>1, <2>2, RefreshKeeps, GiveUpKeeps
<1>6. CASE requests[i].kind \in {"me", "save"} /\ requests[i].phase # "refreshing"
  <2>1. /\ (requests[i].as # None /\ Succeed(i)) \/ Unauthorized(i) \/ Lost(i)
        /\ UNCHANGED push
    BY <1>6 DEF Answer, SignInKinds
  <2>2. CASE requests[i].as # None /\ Succeed(i)
    BY <1>6, <2>1, <2>2, SucceedKeeps
  <2>3. CASE Unauthorized(i)
    BY <1>6, <2>1, <2>3, UnauthorizedKeeps
  <2>4. CASE Lost(i)
    BY <2>1, <2>4, FailKeeps DEF Lost
  <2> QED BY <2>1, <2>2, <2>3, <2>4
<1> QED BY <1>1, <1>2, <1>3, <1>4, <1>5, <1>6 DEF Kinds

-----------------------------------------------------------------------------
(* The theorem *)

LEMMA SessionStarts == Init => SessionInv
<1> SUFFICES ASSUME Init PROVE SessionInv
  OBVIOUS
<1>1. \A i \in Ids : requests[i] = NoRequest
  BY DEF Init
<1>2. requests \in [Ids -> RequestType]
  BY SlotTyped DEF Init
<1>3. WellFormed(requests)
  BY <1>1, <1>2, SlotTyped DEF WellFormed, SignInKinds
<1>4. Unmixed
  BY <1>1, SlotTyped DEF Init, Unmixed, Fits
<1>5. me \in MeType
  BY Zenon DEF Init, NoMe, MeType
<1>6. StorageType /\ ViewType
  BY <1>5 DEF Init, StorageType, ViewType, Pages, Steps
<1> QED BY <1>3, <1>4, <1>6 DEF SessionInv

LEMMA SessionStep == SessionInv /\ [Next]_vars => SessionInv'
<1> SUFFICES ASSUME SessionInv, [Next]_vars PROVE SessionInv'
  OBVIOUS
<1>1. CASE \/ LoginFlow \/ ForgotPasswordPage \/ CompleteProfilePage \/ OnboardingFlow
           \/ StaffOnboardingPage \/ ValidateInvite \/ ActivateInner
           \/ ClaimEmailStep \/ ClaimCodeStep \/ PitchContent
  BY <1>1, FormsKeep
<1>2. CASE ClaimPush \/ Redirect \/ useMe \/ Age
  BY <1>2, PushKeeps, RedirectKeeps, MeKeeps
<1>3. CASE \/ CustomerShell \/ AccountCard \/ ProfileLogout \/ OwnerShell \/ OwnerCard
           \/ StaffShell \/ StaffAccountFooter \/ StaffNav
  BY <1>3, ShellsKeep
<1>4. CASE \E p \in Pages : Open(p)
  BY <1>4, OpenKeeps
<1>5. CASE \E u \in Users \union {None} : OtherTab(u)
  BY <1>5, OtherTabKeeps
<1>6. CASE \E i \in Ids : Answer(i)
  BY <1>6, AnswerKeeps
<1>7. CASE UNCHANGED vars
  <2>1. UNCHANGED <<storage, server, requests>> /\ ViewType'
    BY <1>7 DEF vars, view, SessionInv, ViewType
  <2> QED BY <2>1, ViewMoves DEF SessionInv
<1> QED BY <1>1, <1>2, <1>3, <1>4, <1>5, <1>6, <1>7 DEF Next

\* However sign-ins, sign-outs, refreshes, other tabs and late answers overlap, the
\* two tokens and the account id that the adapters read are one account's, unless
\* an answer outlived its session or an invitation was taken (nothing in the API
\* client checks whose answer it stores).
THEOREM StorageIsOneAccounts == Spec => []OneAccount
<1>1. Init => SessionInv
  BY SessionStarts
<1>2. SessionInv /\ [Next]_vars => SessionInv'
  BY SessionStep
<1>3. SessionInv => OneAccount
  BY InvImplies
<1> QED BY <1>1, <1>2, <1>3, PTL DEF Spec

=============================================================================
