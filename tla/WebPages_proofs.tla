--------------------------- MODULE WebPages_proofs ---------------------------
(***************************************************************************)
(* Theorems about the pages of the web app, for any number of calls under  *)
(* way.                                                                    *)
(*                                                                         *)
(* First what every page keeps, Orderly: its calls are the ones it sends,  *)
(* its cached answers are well-formed.  On top of it, for all pages, that  *)
(* what is cached is current once everything has been answered; and for    *)
(* one page at a time its own property.                                    *)
(***************************************************************************)
EXTENDS WebPages, FiniteSetTheorems, SequenceTheorems, WellFoundedInduction, TLAPS

-----------------------------------------------------------------------------
(* What every page keeps. *)

\* The mutations a page sends.
OpsOf(p) ==
    CASE p \in {"loyaltyNew", "left"} -> {"create"}
      [] p = "loyaltyDetail" -> LifecycleOps \union {"update"}
      [] p = "campaignNew" -> {"createCampaign", "photo"}
      [] p \in {"campaignDetail", "campaignPost"} -> CampaignActions \union {"image", "updateC", "cancelVoucher"}
      [] p = "onboarding" -> {"save", "logo", "submit"}
      [] p = "settings" -> {"updateMe", "brandImage"}
      [] p = "overview" -> {"submit", "updateMe", "brandImage"}
      [] p = "menu" -> {"addItem", "removeItem", "itemImage"}
      [] p = "gallery" -> {"addPhoto", "deletePhoto"}
      [] p = "setup" -> {"addItem", "removeItem", "itemImage", "addPhoto", "deletePhoto"}
      [] p = "team" -> MemberOps \union {"reset", "createStaff"}
      [] p = "staffing" -> {"createStaff"}
      [] p = "contact" -> {"search"}
      [] p = "nearby" -> {"locate"}
      [] p = "home" -> {"noticeSeen"}
      [] p \in {"tab", "offer"} -> {"join"}
      [] p = "group" -> {"start", "leave", "demoFill"}
      [] p = "voucher" -> {"present", "selectItem"}
      [] p = "wallet" -> {"redeem", "present"}
      [] p = "board" -> {"patchSeen", "boardSeen"}
      [] p = "profile" -> {"saveProfile", "avatar"}
      [] OTHER -> {}

\* The queries it uses; a page that was left keeps its own.
KeysOf(p) ==
    CASE p \in {"loyaltyNew", "campaignNew"} -> {}
      [] p = "loyaltyDetail" -> {"program"}
      [] p \in {"campaignDetail", "campaignPost"} -> {"detail", "post"}
      [] p = "onboarding" -> {"me", "state"}
      [] p \in {"settings", "contact"} -> {"me"}
      [] p = "overview" -> {"state"}
      [] p = "menu" -> {"catalog"}
      [] p = "gallery" -> {"gallery"}
      [] p = "setup" -> {"catalog", "gallery"}
      [] p \in {"team", "staffing"} -> {"team"}
      [] p = "nearby" -> NearbyKeys
      [] p = "business" -> {"business", "bloyalty"}
      [] p = "heroes" -> HomeKeys
      [] p = "qr" -> {"qr", "visits"}
      [] p = "home" -> {"notices"}
      [] p = "tab" -> {"feed", "summary"}
      [] p = "offer" -> {"offer"}
      [] p = "group" -> {"mygroups", "session"}
      [] p = "voucher" -> {"voucher"}
      [] p = "wallet" -> {"cards", "vouchers", "cwallet"}
      [] p = "board" -> {"patches"}
      [] p = "profile" -> {"account"}
      [] OTHER -> {"business", "bloyalty"} \union HomeKeys

\* A call of one of these mutations.
CallOK(c, ops) ==
    \/ c = NoCall
    \/ /\ c = [op |-> c.op, at |-> c.at, arg |-> c.arg, phase |-> c.phase, row |-> c.row]
       /\ c.op \in ops /\ c.at \in Components /\ c.phase \in {"sent", "row", "ok"}

CallsOK(cs, ops) == cs = [i \in CallIds |-> cs[i]] /\ \A i \in CallIds : CallOK(cs[i], ops)

\* What was served stays so.
OkKept(cs) == \A i \in CallIds : calls[i].phase = "ok" => cs[i].phase = "ok" /\ cs[i].op = calls[i].op

\* A cached answer.
QueryOK(q) ==
    /\ q = [data |-> q.data, stale |-> q.stale, fetch |-> q.fetch, got |-> q.got, bad |-> q.bad, missed |-> q.missed]
    /\ q.stale \in BOOLEAN /\ q.bad \in BOOLEAN /\ q.missed \in BOOLEAN
    /\ q.fetch \in {"no", "sent", "listed", "read"}

QueriesOK(qs) == qs = [k \in DOMAIN qs |-> qs[k]] /\ \A k \in DOMAIN qs : QueryOK(qs[k])

\* The rows a query shows a part of have that part.
RowsOK(p, s) ==
    /\ p \in {"campaignDetail", "campaignPost"} => {"status", "cfg", "voucher"} \subseteq DOMAIN s
    /\ p = "wallet" => {"cards", "vouchers", "cwallet"} \subseteq DOMAIN s
    /\ p \in {"campaignDetail", "campaignPost", "wallet"} => s = [f \in DOMAIN s |-> s[f]]

Orderly ==
    /\ page \in OpenPages \union {"left"}
    /\ CallsOK(calls, OpsOf(page))
    /\ QueriesOK(seen)
    /\ DOMAIN seen \subseteq KeysOf(page) /\ (page = "tab" => DOMAIN seen = KeysOf(page))
    /\ RowsOK(page, srv)
    /\ page = "left" => DOMAIN seen = {} \/ calls = NoCalls

-----------------------------------------------------------------------------
(* Mutations. *)

LEMMA NoCallsOK == ASSUME NEW ops PROVE CallsOK(NoCalls, ops)
BY DEF CallsOK, CallOK, NoCalls

\* A page sends a call and forgets the one of the same mutation before it.
LEMMA SendsCall ==
    ASSUME NEW ops, NEW bs, CallsOK(bs, ops), NEW op \in ops, NEW at \in Components, NEW arg, NEW i \in CallIds
    PROVE  /\ CallsOK(Called(i, op, at, arg, bs), ops)
           /\ \A j \in CallIds \ {i} : bs[j].phase = "ok" =>
                 Called(i, op, at, arg, bs)[j].phase = "ok" /\ Called(i, op, at, arg, bs)[j].op = bs[j].op
<1> DEFINE cs == Called(i, op, at, arg, bs)
<1>1. cs = [j \in CallIds |-> cs[j]]
  BY DEF Called
<1>2. ASSUME NEW j \in CallIds, NEW c, c = bs[j], NEW d, d = cs[j]
      PROVE  CallOK(d, ops) /\ (j # i /\ c.phase = "ok" => d.phase = "ok" /\ d.op = c.op)
  <2>1. CallOK(c, ops)
    BY <1>2 DEF CallsOK
  <2>2. CASE j = i
    <3>1. d = [op |-> op, at |-> at, arg |-> arg, phase |-> "sent", row |-> None]
      BY <1>2, <2>2 DEF Called, NoCall
    <3> QED BY <1>2, <2>2, <3>1 DEF CallOK
  <2>3. CASE j # i /\ c.op = op /\ c.at = at
    <3>1. d = [c EXCEPT !.at = "gone"]
      BY <1>2, <2>3 DEF Called
    <3>2. c = NoCall => d = NoCall
      BY <3>1 DEF NoCall
    <3> QED BY <2>1, <3>1, <3>2 DEF CallOK, Components
  <2>4. CASE j # i /\ ~ (c.op = op /\ c.at = at)
    BY <1>2, <2>1, <2>4 DEF Called
  <2> QED BY <2>2, <2>3, <2>4
<1> QED BY <1>1, <1>2 DEF CallsOK

LEMMA CallKept ==
    ASSUME NEW ops, CallsOK(calls, ops), NEW op \in ops, NEW at \in Components, NEW arg, Call(op, at, arg)
    PROVE  CallsOK(calls', ops) /\ OkKept(calls')
BY SendsCall DEF Call, Unused, NoCall, OkKept

\* Components are unmounted.
LEMMA GoneKept ==
    ASSUME NEW ops, CallsOK(calls, ops), NEW ats
    PROVE  CallsOK(Gone(ats), ops) /\ OkKept(Gone(ats))
<1> DEFINE cs == Gone(ats)
<1>1. cs = [j \in CallIds |-> cs[j]]
  BY DEF Gone
<1>2. ASSUME NEW j \in CallIds, NEW c, c = calls[j], NEW d, d = cs[j]
      PROVE  CallOK(d, ops) /\ (c.phase = "ok" => d.phase = "ok" /\ d.op = c.op)
  <2>1. CallOK(c, ops)
    BY <1>2 DEF CallsOK
  <2>2. d = c \/ d = [c EXCEPT !.at = "gone"]
    BY <1>2 DEF Gone
  <2>3. c = NoCall => d = NoCall
    BY <2>2 DEF NoCall
  <2> QED BY <2>1, <2>2, <2>3 DEF CallOK, Components
<1> QED BY <1>1, <1>2 DEF CallsOK, OkKept

\* An answered call is over.
LEMMA DroppedKept ==
    ASSUME NEW ops, CallsOK(calls, ops), NEW i \in CallIds
    PROVE  /\ CallsOK(Dropped(i), ops)
           /\ \A j \in CallIds \ {i} : Dropped(i)[j] = calls[j]
           /\ Dropped(i)[i] = NoCall
BY DEF CallsOK, CallOK, Dropped

LEMMA GoneDroppedKept ==
    ASSUME NEW ops, CallsOK(calls, ops), NEW ats, NEW i \in CallIds
    PROVE  /\ CallsOK([Gone(ats) EXCEPT ![i] = NoCall], ops)
           /\ \A j \in CallIds \ {i} : calls[j].phase = "ok" =>
                 [Gone(ats) EXCEPT ![i] = NoCall][j].phase = "ok" /\ [Gone(ats) EXCEPT ![i] = NoCall][j].op = calls[j].op
<1> DEFINE cs == Gone(ats)
           ds == [cs EXCEPT ![i] = NoCall]
<1>1. CallsOK(cs, ops) /\ OkKept(cs)
  BY GoneKept
<1>2. cs = [j \in CallIds |-> cs[j]] /\ \A j \in CallIds : CallOK(cs[j], ops)
  BY <1>1 DEF CallsOK
<1> HIDE DEF cs
<1>3. ds = [j \in CallIds |-> ds[j]] /\ ds[i] = NoCall /\ \A j \in CallIds \ {i} : ds[j] = cs[j]
  BY <1>2
<1>4. CallsOK(ds, ops)
  BY <1>2, <1>3 DEF CallsOK, CallOK
<1>5. \A j \in CallIds \ {i} : calls[j].phase = "ok" => ds[j].phase = "ok" /\ ds[j].op = calls[j].op
  BY <1>1, <1>3 DEF OkKept
<1> QED BY <1>4, <1>5 DEF cs

-----------------------------------------------------------------------------
(* Queries. *)

\* What is invalidated is stale, and what was read of it before does not count.
Renewed(k, q) == q.stale /\ (q.fetch = "read" => q.missed) /\ (k = "feed" => q.fetch # "listed")

\* A query is fetched again.
Resent(q, r) == r = q \/ r = [q EXCEPT !.fetch = "sent"] \/ r = [q EXCEPT !.fetch = "sent", !.got = None]

LEMMA InvalidatedKept ==
    ASSUME NEW qs, QueriesOK(qs), NEW keys, NEW inUse
    PROVE  /\ QueriesOK(Invalidated(keys, inUse, qs))
           /\ DOMAIN Invalidated(keys, inUse, qs) = DOMAIN qs
           /\ \A k \in DOMAIN qs : /\ k \notin keys => Invalidated(keys, inUse, qs)[k] = qs[k]
                                   /\ k \in keys => Invalidated(keys, inUse, qs)[k].stale = TRUE
                                   /\ k \in keys \cap inUse => Invalidated(keys, inUse, qs)[k].fetch = "sent"
                                   /\ k \in keys /\ Invalidated(keys, inUse, qs)[k].fetch = "read" =>
                                         Invalidated(keys, inUse, qs)[k].missed = TRUE
<1>1. DOMAIN Invalidated(keys, inUse, qs) = DOMAIN qs
      /\ Invalidated(keys, inUse, qs) = [k \in DOMAIN qs |-> Invalidated(keys, inUse, qs)[k]]
  BY DEF Invalidated
<1>2. ASSUME NEW k \in DOMAIN qs, NEW q, q = qs[k], NEW r, r = Invalidated(keys, inUse, qs)[k]
      PROVE  /\ QueryOK(r)
             /\ k \notin keys => r = q
             /\ k \in keys => r.stale = TRUE
             /\ k \in keys \cap inUse => r.fetch = "sent"
             /\ k \in keys /\ r.fetch = "read" => r.missed = TRUE
  <2>1. QueryOK(q)
    BY <1>2 DEF QueriesOK
  <2>2. CASE k \notin keys
    BY <1>2, <2>1, <2>2 DEF Invalidated
  <2>3. CASE k \in keys \cap inUse
    <3>1. r = [q EXCEPT !.stale = TRUE, !.fetch = "sent", !.got = None]
      BY <1>2, <2>3 DEF Invalidated
    <3> QED BY <2>1, <2>3, <3>1 DEF QueryOK
  <2>4. CASE k \in keys \ inUse
    <3>1. r = [q EXCEPT !.stale = TRUE, !.missed = q.missed \/ q.fetch = "read"]
      BY <1>2, <2>4 DEF Invalidated
    <3>2. /\ r = [data |-> q.data, stale |-> TRUE, fetch |-> q.fetch, got |-> q.got, bad |-> q.bad,
                  missed |-> q.missed \/ q.fetch = "read"]
      BY <2>1, <3>1 DEF QueryOK
    <3>3. r.stale = TRUE /\ r.fetch = q.fetch /\ r.missed = (q.missed \/ q.fetch = "read") /\ r.bad = q.bad
      BY <3>2
    <3>4. r.missed \in BOOLEAN
      BY <2>1, <3>3 DEF QueryOK
    <3>5. r = [data |-> r.data, stale |-> r.stale, fetch |-> r.fetch, got |-> r.got, bad |-> r.bad, missed |-> r.missed]
      BY <3>2
    <3> QED BY <2>1, <2>4, <3>3, <3>4, <3>5 DEF QueryOK
  <2> QED BY <2>2, <2>3, <2>4
<1> HIDE DEF Invalidated
<1> QED BY <1>1, <1>2 DEF QueriesOK

LEMMA WrittenKept ==
    ASSUME NEW qs, QueriesOK(qs), NEW k, NEW v
    PROVE  /\ QueriesOK(WrittenTo(k, v, qs))
           /\ DOMAIN WrittenTo(k, v, qs) = DOMAIN qs
           /\ \A j \in DOMAIN qs \ {k} : WrittenTo(k, v, qs)[j] = qs[j]
<1>1. DOMAIN WrittenTo(k, v, qs) = DOMAIN qs
      /\ WrittenTo(k, v, qs) = [j \in DOMAIN qs |-> WrittenTo(k, v, qs)[j]]
      /\ \A j \in DOMAIN qs \ {k} : WrittenTo(k, v, qs)[j] = qs[j]
  BY DEF WrittenTo, QueriesOK
<1>2. ASSUME k \in DOMAIN qs PROVE QueryOK(WrittenTo(k, v, qs)[k])
  <2>1. WrittenTo(k, v, qs)[k] = [qs[k] EXCEPT !.data = v, !.stale = FALSE, !.bad = FALSE]
    BY <1>2 DEF WrittenTo
  <2> QED BY <1>2, <2>1 DEF QueriesOK, QueryOK
<1> QED BY <1>1, <1>2 DEF QueriesOK

LEMMA MissedKept ==
    ASSUME QueriesOK(seen)
    PROVE  /\ QueriesOK(MissedBy(seen))
           /\ DOMAIN MissedBy(seen) = DOMAIN seen
           /\ \A k \in DOMAIN seen \ WrittenKeys : MissedBy(seen)[k].missed = TRUE
<1>1. ASSUME NEW k \in DOMAIN seen \ WrittenKeys
      PROVE  QueryOK(MissedBy(seen)[k]) /\ MissedBy(seen)[k].missed = TRUE
  <2>1. MissedBy(seen)[k] = [seen[k] EXCEPT !.missed = TRUE] /\ QueryOK(seen[k])
    BY <1>1 DEF MissedBy, QueriesOK
  <2> QED BY <2>1 DEF QueryOK
<1>2. DOMAIN MissedBy(seen) = DOMAIN seen /\ MissedBy(seen) = [k \in DOMAIN seen |-> MissedBy(seen)[k]]
      /\ \A k \in DOMAIN seen \cap WrittenKeys : MissedBy(seen)[k] = seen[k]
  BY DEF MissedBy
<1> HIDE DEF MissedBy
<1> QED BY <1>1, <1>2 DEF QueriesOK

\* Queries that are kept, but for fetches that begin.
Requeried ==
    /\ QueriesOK(seen') /\ DOMAIN seen' = DOMAIN seen
    /\ \A k \in DOMAIN seen : Resent(seen[k], seen'[k])

LEMMA ResentKept ==
    ASSUME QueriesOK(seen), DOMAIN seen' = DOMAIN seen, seen' = [k \in DOMAIN seen |-> seen'[k]],
           \A k \in DOMAIN seen : Resent(seen[k], seen'[k])
    PROVE  Requeried
<1>1. ASSUME NEW k \in DOMAIN seen PROVE QueryOK(seen'[k])
  BY DEF QueriesOK, QueryOK, Resent
<1> QED BY <1>1 DEF Requeried, QueriesOK

\* The ways they do.
LEMMA SameQueries == ASSUME QueriesOK(seen), seen' = seen PROVE Requeried
BY DEF Requeried, Resent

LEMMA SentAgain ==
    ASSUME QueriesOK(seen), NEW k,
           \/ seen' = [seen EXCEPT ![k].fetch = "sent"]
           \/ seen' = [seen EXCEPT ![k].fetch = "sent", ![k].got = None]
           \/ seen' = Used(k, seen)
    PROVE  Requeried
<1>1. seen' = [seen EXCEPT ![k] = [@ EXCEPT !.fetch = "sent"]]
      \/ seen' = [seen EXCEPT ![k] = [@ EXCEPT !.fetch = "sent", !.got = None]]
      \/ seen' = seen
  BY DEF Used
<1>2. DOMAIN seen' = DOMAIN seen /\ seen' = [j \in DOMAIN seen |-> seen'[j]]
  BY <1>1 DEF QueriesOK
<1>3. \A j \in DOMAIN seen : Resent(seen[j], seen'[j])
  BY <1>1 DEF Resent
<1> QED BY <1>2, <1>3, ResentKept


-----------------------------------------------------------------------------
(* The steps of a page. *)

\* The page works on: nothing is served, what was served stays so.
Proceeds ==
    /\ page' = page /\ srv' = srv
    /\ CallsOK(calls', OpsOf(page)) /\ OkKept(calls')
    /\ Requeried

\* The rows change, and no query has seen it.
Changes ==
    /\ page' = page /\ calls' = calls /\ seen' = MissedBy(seen)
    /\ RowsOK(page, srv')

\* The page is left.
Leaves ==
    /\ page \in {"loyaltyNew", "business", "heroes"} /\ page' = "left"
    /\ UNCHANGED <<srv, seen>>
    /\ CallsOK(calls', {"create"}) /\ OkKept(calls')
    /\ DOMAIN seen = {} \/ calls' = NoCalls

PageStep == Proceeds \/ Changes \/ Leaves

LEMMA SameCalls == ASSUME NEW ops, CallsOK(calls, ops), calls' = calls PROVE CallsOK(calls', ops) /\ OkKept(calls')
BY DEF OkKept

\* What the actions of the pages are made of.
LEMMA UiProceeds == ASSUME Orderly, NEW u, Ui(u) PROVE Proceeds
BY SameCalls, SameQueries DEF Ui, Orderly, Proceeds

LEMMA CallProceeds ==
    ASSUME Orderly, NEW op \in OpsOf(page), NEW at \in Components, NEW arg, Call(op, at, arg),
           UNCHANGED <<page, srv, seen>>
    PROVE  Proceeds
BY CallKept, SameQueries DEF Orderly, Proceeds

LEMMA SendProceeds ==
    ASSUME Orderly, NEW op \in OpsOf(page), NEW at \in Components, NEW arg, SendOnly(op, at, arg)
    PROVE  Proceeds
BY CallProceeds DEF SendOnly

LEMMA GoneProceeds ==
    ASSUME Orderly, NEW ats, calls' = Gone(ats), UNCHANGED <<page, srv, seen>>
    PROVE  Proceeds
BY GoneKept, SameQueries DEF Orderly, Proceeds

LEMMA FetchProceeds ==
    ASSUME Orderly, NEW k, UNCHANGED <<page, srv, calls>>,
           \/ seen' = [seen EXCEPT ![k].fetch = "sent"]
           \/ seen' = [seen EXCEPT ![k].fetch = "sent", ![k].got = None]
           \/ seen' = Used(k, seen)
    PROVE  Proceeds
<1>1. Requeried
  BY SentAgain DEF Orderly
<1> QED BY <1>1, SameCalls DEF Orderly, Proceeds

LEMMA PollProceeds == ASSUME Orderly, NEW k, Poll(k) PROVE Proceeds
BY FetchProceeds DEF Poll

LEMMA MeanwhileChanges == ASSUME NEW s, RowsOK(page, s), Meanwhile(s) PROVE Changes
BY DEF Meanwhile, Changes

\* One page after the other.
LEMMA LoyaltyNewSteps == ASSUME Orderly, page = "loyaltyNew", NewLoyaltyPage PROVE PageStep
<1>1. CASE StepReview
  BY <1>1, SendProceeds DEF StepReview, PageStep, OpsOf, Components
<1>2. CASE NewLoyaltyLeft
  BY <1>2, GoneKept DEF NewLoyaltyLeft, PageStep, Leaves, Orderly, OpsOf, KeysOf
<1>3. CASE StepType \/ StepMechanics \/ StepReward \/ Stepper
  <2>1. \E u : Ui(u)
    BY <1>3 DEF StepType, StepMechanics, TierEditor, StepReward, Stepper, SetForm
  <2> QED BY <2>1, UiProceeds DEF PageStep
<1> QED BY <1>1, <1>2, <1>3 DEF NewLoyaltyPage

LEMMA LoyaltyDetailSteps == ASSUME Orderly, page = "loyaltyDetail", LoyaltyProgramDetailPage PROVE PageStep
<1>0. LifecycleOps \subseteq OpsOf(page) /\ "update" \in OpsOf(page)
  BY DEF OpsOf
<1>1. ASSUME NEW at \in Components, Lifecycle(at) PROVE Proceeds
  BY <1>0, <1>1, SendProceeds DEF Lifecycle, LifecycleOps
<1>2. CASE LoyaltyHero
  BY <1>1, <1>2 DEF LoyaltyHero, Components, PageStep
<1>3. CASE LoyaltyTabBar
  BY <1>3, GoneProceeds DEF LoyaltyTabBar, PageStep
<1>4. CASE LoyaltySettingsTab
  BY <1>0, <1>1, <1>4, SendProceeds, UiProceeds DEF LoyaltySettingsTab, Components, PageStep
<1> QED BY <1>2, <1>3, <1>4 DEF LoyaltyProgramDetailPage

LEMMA CampaignNewSteps == ASSUME Orderly, page = "campaignNew", NewCampaignPage PROVE PageStep
<1>0. OpsOf(page) = {"createCampaign", "photo"}
  BY DEF OpsOf
<1>1. CASE onSubmit
  BY <1>0, <1>1, CallProceeds DEF onSubmit, Components, PageStep
<1>2. CASE retryPhoto
  <2>1. calls' = calls \/ Call("photo", "page", ui.photo)
    BY <1>2 DEF retryPhoto, uploadThenGo, Call, Unused
  <2>2. UNCHANGED <<page, srv, seen>>
    BY <1>2 DEF retryPhoto
  <2>3. CASE calls' = calls
    BY <2>2, <2>3, SameCalls, SameQueries DEF Proceeds, Orderly, PageStep
  <2> QED BY <1>0, <2>1, <2>2, <2>3, CallProceeds DEF Components, PageStep
<1>3. CASE ~ onSubmit /\ ~ retryPhoto
  <2>1. \E u : Ui(u)
    BY <1>3 DEF NewCampaignPage, StepOutcome, StepDetails, ItemRewardPicker, PhotoField
  <2> QED BY <2>1, UiProceeds DEF PageStep
<1> QED BY <1>1, <1>2, <1>3

LEMMA CampaignDetailSteps ==
    ASSUME Orderly, page \in {"campaignDetail", "campaignPost"}, CampaignDetailPage PROVE PageStep
<1>0. OpsOf(page) = CampaignActions \union {"image", "updateC", "cancelVoucher"}
  BY DEF OpsOf
<1>1. CASE SocialPostStudio
  BY <1>1, UiProceeds DEF SocialPostStudio, PageStep
<1>2. CASE onPickPhoto
  BY <1>0, <1>2, SendProceeds DEF onPickPhoto, Components, PageStep
<1>3. CASE OpenStudio
  BY <1>3, FetchProceeds DEF OpenStudio, PageStep
<1>4. CASE CampaignControls
  BY <1>0, <1>4, SendProceeds DEF CampaignControls, controls, CampaignActions, Components, PageStep
<1>5. CASE CampaignTabs
  BY <1>5, GoneProceeds DEF CampaignTabs, PageStep
<1>6. CASE CampaignSettingsTab
  BY <1>0, <1>6, SendProceeds DEF CampaignSettingsTab, Components, PageStep
<1>7. CASE CampaignRewardUsageTab
  BY <1>0, <1>7, SendProceeds, UiProceeds DEF CampaignRewardUsageTab, Components, PageStep
<1> QED BY <1>1, <1>2, <1>3, <1>4, <1>5, <1>6, <1>7 DEF CampaignDetailPage

LEMMA OnboardingSteps == ASSUME Orderly, page = "onboarding", OnboardingFlow \/ AdminReviews PROVE PageStep
<1>0. OpsOf(page) = {"save", "logo", "submit"} /\ DOMAIN seen \subseteq {"me", "state"}
  BY DEF OpsOf, KeysOf, Orderly
<1>1. CASE AutoSave
  BY <1>0, <1>1, CallProceeds DEF AutoSave, Components, PageStep
<1>2. ASSUME NEW s, GoStage(s) PROVE Proceeds
  <2>1. CASE s = 5
    BY <1>2, <2>1, FetchProceeds DEF GoStage
  <2>2. CASE s # 5
    BY <1>2, <2>2, SameCalls, SameQueries DEF GoStage, Proceeds, Orderly
  <2> QED BY <2>1, <2>2
<1>3. CASE goNext \/ goBack
  BY <1>2, <1>3 DEF goNext, goBack, PageStep
<1>4. CASE StageIdentity \/ StageType \/ StageReview
  <2>1. \E u : Ui(u)
    BY <1>4 DEF StageIdentity, StageType, StageReview, setForm
  <2> QED BY <2>1, UiProceeds DEF PageStep
<1>5. CASE onLogoPick
  BY <1>0, <1>5, CallProceeds DEF onLogoPick, Components, PageStep
<1>6. CASE OnboardSubmitDialog
  BY <1>0, <1>6, CallProceeds, UiProceeds DEF OnboardSubmitDialog, Components, PageStep
<1>7. CASE Pending
  BY <1>2, <1>7, FetchProceeds DEF Pending, PageStep
<1>8. CASE AdminReviews
  <2>1. seen' = [seen EXCEPT !["state"] = [@ EXCEPT !.missed = TRUE]]
    BY <1>8 DEF AdminReviews
  <2>2. MissedBy(seen) = [k \in DOMAIN seen |->
            IF k \in WrittenKeys THEN seen[k] ELSE [seen[k] EXCEPT !.missed = TRUE]]
    BY DEF MissedBy
  <2>3. \A k \in DOMAIN seen : k = "state" \/ k \in WrittenKeys
    BY <1>0 DEF WrittenKeys
  <2>4. seen' = [k \in DOMAIN seen |->
            IF k \in WrittenKeys THEN seen[k] ELSE [seen[k] EXCEPT !.missed = TRUE]]
    BY <2>1, <2>3 DEF Orderly, QueriesOK, WrittenKeys
  <2> QED BY <1>8, <2>2, <2>4 DEF AdminReviews, Changes, RowsOK, PageStep
<1> QED BY <1>1, <1>3, <1>4, <1>5, <1>6, <1>7, <1>8 DEF OnboardingFlow

LEMMA SettingsSteps == ASSUME Orderly, page = "settings", SettingsSections PROVE PageStep
<1>0. {"updateMe", "brandImage"} \subseteq OpsOf(page)
  BY DEF OpsOf
<1>1. ASSUME NEW s \in Sections, Section(s) PROVE Proceeds
  BY <1>0, <1>1, SendProceeds, UiProceeds DEF Section, SaveButton, Components
<1>2. CASE BrandSection
  BY <1>0, <1>1, <1>2, SendProceeds DEF BrandSection, Sections, Components, PageStep
<1> QED BY <1>1, <1>2 DEF SettingsSections, ProfileSection, WalletSection, ContactSection, Sections, PageStep

LEMMA MenuSteps == ASSUME Orderly, page = "menu", MenuSection PROVE PageStep
<1>0. OpsOf(page) = {"addItem", "removeItem", "itemImage"}
  BY DEF OpsOf
<1> QED BY <1>0, SendProceeds, UiProceeds DEF MenuSection, Components, PageStep

\* Several photos are sent at once.
LEMMA SendPhotosProceeds ==
    ASSUME Orderly, "addPhoto" \in OpsOf(page), NEW picked \in SUBSET Unused, SendPhotos(picked)
    PROVE  Proceeds
<1>1. PICK last : calls' = [i \in CallIds |->
            IF i \notin picked THEN calls[i]
            ELSE [NoCall EXCEPT !.op = "addPhoto", !.at = IF i = last THEN "page" ELSE "gone"]]
  BY DEF SendPhotos
<1>2. ASSUME NEW j \in CallIds, NEW c, c = calls[j], NEW d, d = calls'[j]
      PROVE  CallOK(d, OpsOf(page)) /\ (c.phase = "ok" => d.phase = "ok" /\ d.op = c.op)
  <2>1. CASE j \notin picked
    BY <1>1, <1>2, <2>1 DEF Orderly, CallsOK
  <2>2. CASE j \in picked
    <3>1. d = [op |-> "addPhoto", at |-> IF j = last THEN "page" ELSE "gone", arg |-> None, phase |-> "sent", row |-> None]
      BY <1>1, <1>2, <2>2 DEF NoCall
    <3>2. c.phase = "sent"
      BY <1>2, <2>2 DEF Unused, NoCall
    <3> QED BY <3>1, <3>2 DEF CallOK, Components
  <2> QED BY <2>1, <2>2
<1> DEFINE cs == calls'
<1>3. cs = [j \in CallIds |-> cs[j]]
  BY <1>1
<1>4. CallsOK(cs, OpsOf(page)) /\ OkKept(cs)
  <2> HIDE DEF cs
  <2> QED BY <1>2, <1>3 DEF CallsOK, OkKept, cs
<1> QED BY <1>4, SameQueries DEF SendPhotos, Proceeds, Orderly

LEMMA GallerySteps == ASSUME Orderly, page = "gallery", GallerySection PROVE PageStep
<1>0. OpsOf(page) = {"addPhoto", "deletePhoto"}
  BY DEF OpsOf
<1> QED BY <1>0, SendProceeds, SendPhotosProceeds DEF GallerySection, onPick, Components, PageStep

LEMMA SetupSteps == ASSUME Orderly, page = "setup", StageSetup PROVE PageStep
<1>0. OpsOf(page) = {"addItem", "removeItem", "itemImage", "addPhoto", "deletePhoto"}
  BY DEF OpsOf
<1>1. CASE SetupCatalog
  BY <1>0, <1>1, SendProceeds, UiProceeds DEF SetupCatalog, Components, PageStep
<1>2. CASE ~ SetupCatalog
  BY <1>0, <1>2, SendProceeds, SendPhotosProceeds DEF StageSetup, handleGalleryPick, Components, PageStep
<1> QED BY <1>1, <1>2

LEMMA TeamSteps == ASSUME Orderly, page = "team", ManageStaffPage PROVE PageStep
<1>0. OpsOf(page) = MemberOps \union {"reset", "createStaff"}
  BY DEF OpsOf
<1>1. CASE CloseDrawer
  BY <1>1, GoneProceeds DEF CloseDrawer, PageStep
<1>2. CASE MemberDetail
  <2>1. ASSUME NEW op \in OpsOf(page), NEW arg, SendOnly(op, "drawer", arg) PROVE Proceeds
    BY <2>1, SendProceeds DEF Components
  <2>2. ASSUME Call("removeMember", "drawer", None), UNCHANGED <<page, srv, seen>> PROVE Proceeds
    BY <1>0, <2>2, CallProceeds DEF Components, MemberOps
  <2> QED BY <1>0, <1>2, <2>1, <2>2, UiProceeds DEF MemberDetail, MemberOps, PageStep
<1>3. CASE CreateStaffModal
  BY <1>0, <1>3, SendProceeds, GoneProceeds DEF CreateStaffModal, Components, PageStep
<1>4. CASE ~ CloseDrawer /\ ~ MemberDetail /\ ~ CreateStaffModal
  BY <1>4, UiProceeds DEF ManageStaffPage, PageStep
<1> QED BY <1>1, <1>2, <1>3, <1>4

LEMMA StaffingSteps == ASSUME Orderly, page = "staffing", StageStaff PROVE PageStep
<1>0. OpsOf(page) = {"createStaff"}
  BY DEF OpsOf
<1> QED BY <1>0, SendProceeds, UiProceeds DEF StageStaff, doCreateStaff, Components, PageStep

LEMMA OverviewSteps == ASSUME Orderly, page = "overview", BusinessSettingsPage PROVE PageStep
<1>0. OpsOf(page) = {"submit", "updateMe", "brandImage"}
  BY DEF OpsOf
<1>1. CASE CompletionBanner \/ SettingsNav
  BY <1>1, UiProceeds DEF CompletionBanner, SettingsNav, PageStep
<1>2. CASE OverviewSection
  BY <1>0, <1>2, SendProceeds DEF OverviewSection, Components, PageStep
<1>3. CASE SectionInFront
  BY <1>0, <1>3, SendProceeds, UiProceeds DEF SectionInFront, Components, Sections, PageStep
<1> QED BY <1>1, <1>2, <1>3 DEF BusinessSettingsPage

\* A call whose every answer is used.
LEMMA AskProceeds ==
    ASSUME Orderly, NEW op \in OpsOf(page), NEW arg, NEW i \in Unused, Ask(i, op, arg), UNCHANGED <<page, srv, seen>>
    PROVE  Proceeds
<1>1. i \in CallIds /\ calls[i].phase = "sent"
  BY DEF Unused, NoCall
<1>2. calls' = [calls EXCEPT ![i] = [op |-> op, at |-> "map", arg |-> arg, phase |-> "sent", row |-> None]]
  <2>1. ASSUME NEW d, d = [NoCall EXCEPT !.op = op, !.at = "map", !.arg = arg]
        PROVE  d = [op |-> op, at |-> "map", arg |-> arg, phase |-> "sent", row |-> None]
    BY <2>1 DEF NoCall
  <2> QED BY <2>1 DEF Ask
<1>3. CallsOK(calls', OpsOf(page)) /\ OkKept(calls')
  BY <1>1, <1>2 DEF CallsOK, CallOK, OkKept, Orderly, Components
<1> QED BY <1>3, SameQueries DEF Proceeds, Orderly

LEMMA ContactSteps == ASSUME Orderly, page = "contact", LocationPicker PROVE PageStep
<1>0. OpsOf(page) = {"search"}
  BY DEF OpsOf
<1>1. ASSUME NEW q, runNominatimSearch(q) PROVE Proceeds
  BY <1>0, <1>1, AskProceeds DEF runNominatimSearch
<1>2. CASE DebounceTimer \/ OsmPicker
  BY <1>1, <1>2, UiProceeds DEF DebounceTimer, OsmPicker, handleQueryChange, selectResult, PageStep
<1>3. CASE PickerLoads \/ DragOrClick \/ GooglePicker
  <2>1. \E u : Ui(u)
    BY <1>3 DEF PickerLoads, DragOrClick, GooglePicker
  <2> QED BY <2>1, UiProceeds DEF PageStep
<1> QED BY <1>2, <1>3 DEF LocationPicker

LEMMA NearbySteps == ASSUME Orderly, page = "nearby", NearbyPage PROVE PageStep
<1>0. OpsOf(page) = {"locate"}
  BY DEF OpsOf
<1>1. ASSUME NEW u, NearbyUi(u) PROVE Proceeds
  <2>1. CASE seen' = seen
    BY <1>1, <2>1, SameCalls, SameQueries DEF NearbyUi, Proceeds, Orderly
  <2>2. CASE seen' = Used(nearbyKey(u), seen)
    BY <1>1, <2>2, FetchProceeds DEF NearbyUi
  <2> QED BY <1>1, <2>1, <2>2 DEF NearbyUi, NearbyUses
<1>2. CASE requestLocation
  BY <1>0, <1>2, AskProceeds DEF requestLocation, PageStep
<1>3. CASE ~ requestLocation
  <2>1. (\E u : Ui(u)) \/ (\E u : NearbyUi(u))
    BY <1>3 DEF NearbyPage, MapBody, MiniMap, openDetail, CategoryChips, NearbyCard
  <2> QED BY <1>1, <2>1, UiProceeds DEF PageStep
<1> QED BY <1>2, <1>3

\* The page is left as it is.
LEMMA Left ==
    ASSUME Orderly, page \in {"business", "heroes"}, page' = "left", UNCHANGED <<srv, seen, calls>>
    PROVE  Leaves
<1>1. OpsOf(page) = {}
  BY DEF OpsOf
<1>2. CallsOK(calls, {"create"})
  BY <1>1 DEF Orderly, CallsOK, CallOK
<1>3. calls = NoCalls
  BY <1>1 DEF Orderly, CallsOK, CallOK, NoCalls
<1> QED BY <1>2, <1>3, SameCalls DEF Leaves

LEMMA BusinessSteps == ASSUME Orderly, page = "business", BusinessProfilePage PROVE PageStep
<1>1. CASE OwnerChanges
  BY <1>1, MeanwhileChanges DEF OwnerChanges, RowsOK, PageStep
<1>2. CASE BusinessSheet
  BY <1>2, UiProceeds, Left DEF BusinessSheet, BusinessDetailsContent, PageStep
<1> QED BY <1>1, <1>2 DEF BusinessProfilePage

LEMMA HeroesSteps == ASSUME Orderly, page = "heroes", HeroesPage PROVE PageStep
<1>1. CASE StaffStamps
  BY <1>1, MeanwhileChanges DEF StaffStamps, RowsOK, PageStep
<1>2. CASE HomeHeroCarousel
  <2>1. (\E u : Ui(u)) \/ HeroCard
    BY <1>2 DEF HomeHeroCarousel, startDrag, moveDrag, endDrag, NextFrame
  <2> QED BY <2>1, UiProceeds, Left DEF HeroCard, PageStep
<1>3. CASE SnapTimer \/ NewCustomerHome \/ Poll("homeFeed")
  BY <1>3, UiProceeds, Left, PollProceeds DEF SnapTimer, NewCustomerHome, PageStep
<1> QED BY <1>1, <1>2, <1>3 DEF HeroesPage

LEMMA QrSteps == ASSUME Orderly, page = "qr", QrPage PROVE PageStep
<1>1. CASE VisitCounted \/ VisitsEnd
  <2>1. \E s : Meanwhile(s)
    BY <1>1 DEF VisitCounted, VisitsEnd
  <2> QED BY <2>1, MeanwhileChanges DEF RowsOK, PageStep
<1>2. CASE MyQrSheet \/ VisitQrPage
  BY <1>2, UiProceeds, FetchProceeds, PollProceeds DEF MyQrSheet, VisitQrPage, CloseQr, PageStep
<1>3. CASE \E granted \in BOOLEAN : WakeLock(granted)
  BY <1>3, UiProceeds DEF WakeLock, PageStep
<1> QED BY <1>1, <1>2, <1>3 DEF QrPage

LEMMA HomeSteps == ASSUME Orderly, page = "home", AuthedHome PROVE PageStep
<1>0. OpsOf(page) = {"noticeSeen"}
  BY DEF OpsOf
<1>1. CASE CampaignNoticeBanner
  BY <1>0, <1>1, SendProceeds DEF CampaignNoticeBanner, Components, PageStep
<1>2. CASE CampaignPublished
  BY <1>2, MeanwhileChanges DEF CampaignPublished, RowsOK, PageStep
<1> QED BY <1>1, <1>2 DEF AuthedHome

LEMMA TabSteps == ASSUME Orderly, page = "tab", CampaignsPage PROVE PageStep
<1>0. OpsOf(page) = {"join"}
  BY DEF OpsOf
<1>1. CASE StarterMission \/ WinOverlay
  BY <1>0, <1>1, SendProceeds, UiProceeds DEF StarterMission, WinOverlay, Components, PageStep
<1>2. CASE StaffCountsVisit \/ StaffRedeemsReward
  <2>1. \E s : Meanwhile(s)
    BY <1>2 DEF StaffCountsVisit, StaffRedeemsReward
  <2> QED BY <2>1, MeanwhileChanges DEF RowsOK, PageStep
<1> QED BY <1>1, <1>2, PollProceeds DEF CampaignsPage, PageStep

LEMMA OfferSteps == ASSUME Orderly, page = "offer", CampaignDetailSheet PROVE PageStep
<1>0. OpsOf(page) = {"join"}
  BY DEF OpsOf
<1>1. CASE CtaBar
  BY <1>0, <1>1, SendProceeds DEF CtaBar, Components, PageStep
<1>2. CASE StaffCompletes \/ CampaignEnds
  <2>1. \E s : Meanwhile(s)
    BY <1>2 DEF StaffCompletes, CampaignEnds
  <2> QED BY <2>1, MeanwhileChanges DEF RowsOK, PageStep
<1> QED BY <1>1, <1>2, PollProceeds DEF CampaignDetailSheet, PageStep

LEMMA GroupSteps == ASSUME Orderly, page = "group", GroupSessionPage PROVE PageStep
<1>0. OpsOf(page) = {"start", "leave", "demoFill"}
  BY DEF OpsOf
<1>1. CASE CreateGroupForm \/ LeaveGroup \/ DemoFill
  BY <1>0, <1>1, SendProceeds DEF CreateGroupForm, LeaveGroup, DemoFill, Components, PageStep
<1>2. CASE InviteSheet \/ PollSession \/ GroupProgressRow
  BY <1>2, UiProceeds, PollProceeds DEF InviteSheet, PollSession, GroupProgressRow, PageStep
<1>3. CASE OthersInGroup
  <2>1. \E s : Meanwhile(s)
    BY <1>3 DEF OthersInGroup
  <2> QED BY <2>1, MeanwhileChanges DEF RowsOK, PageStep
<1> QED BY <1>1, <1>2, <1>3 DEF GroupSessionPage

LEMMA VoucherSteps == ASSUME Orderly, page = "voucher", CampaignVoucherPage PROVE PageStep
<1>0. OpsOf(page) = {"present", "selectItem"}
  BY DEF OpsOf
<1>1. CASE PresentOnMount
  BY <1>0, <1>1, CallProceeds DEF PresentOnMount, Components, PageStep
<1>2. CASE VoucherItemSheet
  BY <1>0, <1>2, SendProceeds DEF VoucherItemSheet, Components, PageStep
<1>3. CASE VoucherEnds
  <2>1. \E s : Meanwhile(s)
    BY <1>3 DEF VoucherEnds
  <2> QED BY <2>1, MeanwhileChanges DEF RowsOK, PageStep
<1> QED BY <1>1, <1>2, <1>3, PollProceeds DEF CampaignVoucherPage, PageStep

LEMMA WalletSteps == ASSUME Orderly, page = "wallet", Wallet PROVE PageStep
<1>0. OpsOf(page) = {"redeem", "present"}
  BY DEF OpsOf
<1>1. CASE WalletDetailSheet
  <2>1. ASSUME NEW reward \in WalletRewards, chooseReward(reward) PROVE Proceeds
    <3>1. CASE reward = "cashback"
      BY <1>0, <2>1, <3>1, SendProceeds DEF chooseReward, Components
    <3>2. CASE reward = "campaign"
      BY <1>0, <2>1, <3>2, CallProceeds DEF chooseReward, Components
    <3>3. CASE reward = "loyalty"
      BY <2>1, <3>3, UiProceeds DEF chooseReward
    <3> QED BY <3>1, <3>2, <3>3 DEF WalletRewards
  <2> QED BY <1>1, <2>1, UiProceeds DEF WalletDetailSheet, PageStep
<1>2. CASE StaffRedeemsVoucher
  <2>1. PICK f \in {"vouchers", "cwallet"} : Meanwhile([srv EXCEPT ![f] = "used"])
    BY <1>2 DEF StaffRedeemsVoucher
  <2>2. RowsOK(page, [srv EXCEPT ![f] = "used"])
    BY DEF Orderly, RowsOK
  <2> QED BY <2>1, <2>2, MeanwhileChanges DEF PageStep
<1> QED BY <1>1, <1>2, UiProceeds DEF Wallet, PageStep

LEMMA BoardSteps == ASSUME Orderly, page = "board", PatchesPage PROVE PageStep
<1>0. OpsOf(page) = {"patchSeen", "boardSeen"}
  BY DEF OpsOf
<1>1. CASE BoardSeenOnce
  BY <1>0, <1>1, CallProceeds DEF BoardSeenOnce, Components, PageStep
<1>2. CASE EarnMoment
  BY <1>0, <1>2, CallProceeds DEF EarnMoment, Components, PageStep
<1>3. CASE PatchEarned
  BY <1>3, MeanwhileChanges DEF PatchEarned, RowsOK, PageStep
<1> QED BY <1>1, <1>2, <1>3 DEF PatchesPage

LEMMA ProfileSteps == ASSUME Orderly, page = "profile", ProfilePage PROVE PageStep
<1>0. OpsOf(page) = {"saveProfile", "avatar"}
  BY DEF OpsOf
<1> QED BY <1>0, SendProceeds, UiProceeds, MeanwhileChanges DEF ProfilePage, Components, PageStep, RowsOK

\* Every step of a page is one of these; the tab also reads its feed.
LEMMA PageSteps ==
    ASSUME Orderly, Pages
    PROVE  PageStep \/ (page = "tab" /\ (FeedListed \/ FeedRead))
BY LoyaltyNewSteps, LoyaltyDetailSteps, CampaignNewSteps, CampaignDetailSteps, OnboardingSteps, SettingsSteps,
   MenuSteps, GallerySteps, SetupSteps, TeamSteps, StaffingSteps, OverviewSteps, ContactSteps, NearbySteps,
   BusinessSteps, HeroesSteps, QrSteps, HomeSteps, TabSteps, OfferSteps, GroupSteps, VoucherSteps, WalletSteps,
   BoardSteps, ProfileSteps DEF Pages

-----------------------------------------------------------------------------
(* The steps of a handler. *)

\* What a handler changes of what a query shows.
Touches(op, k) ==
    CASE op = "redeem" -> k \in {"cards", "vouchers"}
      [] op \in {"cancelVoucher", "locate", "search", "present"} -> FALSE
      [] OTHER -> TRUE

\* A handler loads a row or is served; it changes the rows only then.
HandleStep(i) ==
    /\ calls[i].op # "none" /\ calls[i].phase \in {"sent", "row"}
    /\ UNCHANGED <<page, ui, seen>>
    /\ \E r : \/ srv' = srv /\ calls' = [calls EXCEPT ![i].phase = "row", ![i].row = r]
              \/ calls' = [calls EXCEPT ![i].phase = "ok", ![i].row = r]
    /\ RowsOK(page, srv')
    /\ \/ srv' = srv
       \/ /\ calls'[i].phase = "ok"
          /\ \A k \in DOMAIN seen \ WrittenKeys : ~ Touches(calls[i].op, k) =>
                \A data : Shows(k, data) => Shows(k, data)'

LEMMA LoadedSteps ==
    ASSUME Orderly, NEW i \in CallIds, calls[i].op # "none", NEW r, Loaded(i, r)
    PROVE  HandleStep(i)
BY DEF HandleStep, Loaded, Orderly

LEMMA ServedSteps ==
    ASSUME Orderly, NEW i \in CallIds, calls[i].op # "none", NEW s, NEW r, ServedWith(i, s, r), RowsOK(page, s),
           \A k \in DOMAIN seen \ WrittenKeys : ~ Touches(calls[i].op, k) => \A data : Shows(k, data) => Shows(k, data)'
    PROVE  HandleStep(i)
<1>1. calls'[i].phase = "ok"
  BY DEF ServedWith, Orderly, CallsOK, CallOK, NoCall
<1> QED BY <1>1 DEF HandleStep, ServedWith

\* On a page whose rows are of no particular shape, and for a mutation that
\* touches every query, there is nothing else to show.
LEMMA ServedAll ==
    ASSUME Orderly, NEW i \in CallIds, NEW s, NEW r, ServedWith(i, s, r),
           page \notin {"campaignDetail", "campaignPost", "wallet"},
           calls[i].op \notin {"none", "redeem", "cancelVoucher", "locate", "search", "present"}
    PROVE  HandleStep(i)
<1>1. \A k : Touches(calls[i].op, k)
  BY DEF Touches
<1>2. RowsOK(page, s)
  BY DEF RowsOK
<1> QED BY <1>1, <1>2, ServedSteps

LEMMA OpOfPage == ASSUME Orderly, NEW i \in CallIds, calls[i].op # "none" PROVE calls[i].op \in OpsOf(page)
BY DEF Orderly, CallsOK, CallOK, NoCall

\* Owners.
LEMMA OwnersHandle ==
    ASSUME Orderly, NEW i \in CallIds,
           \/ createProgram(i) \/ updateProgram(i) \/ programAction(i)
           \/ createCampaign(i) \/ uploadCampaignImage(i)
           \/ saveOnboarding(i) \/ uploadLogo(i) \/ (page = "onboarding" /\ submitOnboarding(i))
    PROVE  HandleStep(i)
<1> DEFINE op == calls[i].op
<1>1. op \in {"create", "update", "createCampaign", "photo", "save", "logo"} \union LifecycleOps
      \/ (op = "submit" /\ page = "onboarding")
  BY DEF createProgram, updateProgram, programAction, createCampaign, uploadCampaignImage, saveOnboarding,
         uploadLogo, submitOnboarding
<1>2. op \notin {"none", "redeem", "cancelVoucher", "locate", "search", "present"}
  BY <1>1 DEF LifecycleOps
<1>3. op \in OpsOf(page)
  BY <1>2, OpOfPage
<1>4. page \notin {"campaignDetail", "campaignPost", "wallet"}
  BY <1>1, <1>3 DEF OpsOf, LifecycleOps, CampaignActions
<1>5. (\E r : Loaded(i, r)) \/ (\E s, r : ServedWith(i, s, r))
  BY DEF createProgram, updateProgram, programAction, createCampaign, uploadCampaignImage, saveOnboarding,
         uploadLogo, submitOnboarding, Served
<1> QED BY <1>2, <1>4, <1>5, LoadedSteps, ServedAll

LEMMA OwnersHandleMore ==
    ASSUME Orderly, NEW i \in CallIds,
           \/ updateMe(i) \/ set_business_image(i)
           \/ addCatalogItem(i) \/ removeCatalogItem(i) \/ uploadCatalogItemImage(i)
           \/ add_gallery_image(i) \/ remove_gallery_image(i)
           \/ page = "team" /\ (staffMember(i) \/ createStaffAccount(i))
           \/ page = "staffing" /\ createAccount(i)
           \/ page = "overview" /\ submitForReview(i)
    PROVE  HandleStep(i)
<1> DEFINE op == calls[i].op
<1>1. op \in {"updateMe", "brandImage", "addItem", "removeItem", "itemImage", "addPhoto", "deletePhoto"}
      \/ (op \in MemberOps \union {"reset", "createStaff", "submit"} /\ page \in {"team", "staffing", "overview"})
  BY DEF updateMe, set_business_image, addCatalogItem, removeCatalogItem, uploadCatalogItemImage, add_gallery_image,
         remove_gallery_image, staffMember, createStaffAccount, createAccount, submitForReview, MemberOps
<1>2. op \notin {"none", "redeem", "cancelVoucher", "locate", "search", "present"}
  BY <1>1 DEF MemberOps
<1>3. op \in OpsOf(page)
  BY <1>2, OpOfPage
<1>4. page \notin {"campaignDetail", "campaignPost", "wallet"}
  BY <1>1, <1>3 DEF OpsOf, CampaignActions
<1>5. (\E r : Loaded(i, r)) \/ (\E s, r : ServedWith(i, s, r))
  BY DEF updateMe, set_business_image, addCatalogItem, removeCatalogItem, uploadCatalogItemImage, add_gallery_image,
         remove_gallery_image, staffMember, createStaffAccount, createAccount, submitForReview, Served
<1> QED BY <1>2, <1>4, <1>5, LoadedSteps, ServedAll

LEMMA CustomersHandle ==
    ASSUME Orderly, NEW i \in CallIds,
           \/ markCampaignNoticesSeen(i) \/ joinCampaign(i)
           \/ start_group_session(i) \/ leave_group_session(i) \/ demo_fill_group(i)
           \/ select_voucher_item(i)
           \/ mark_seen(i) \/ ProfileView(i) \/ AvatarUploadView(i)
    PROVE  HandleStep(i)
<1> DEFINE op == calls[i].op
<1>1. op \in {"noticeSeen", "join", "start", "leave", "demoFill", "selectItem", "patchSeen", "boardSeen",
              "saveProfile", "avatar"}
  BY DEF markCampaignNoticesSeen, joinCampaign, start_group_session, leave_group_session, demo_fill_group,
         select_voucher_item, mark_seen, ProfileView, AvatarUploadView
<1>2. op \notin {"none", "redeem", "cancelVoucher", "locate", "search", "present"}
  BY <1>1
<1>3. op \in OpsOf(page)
  BY <1>2, OpOfPage
<1>4. page \notin {"campaignDetail", "campaignPost", "wallet"}
  BY <1>1, <1>3 DEF OpsOf, CampaignActions
<1>5. (\E r : Loaded(i, r)) \/ (\E s, r : ServedWith(i, s, r))
  BY DEF markCampaignNoticesSeen, joinCampaign, start_group_session, leave_group_session, demo_fill_group,
         select_voucher_item, mark_seen, ProfileView, AvatarUploadView, Served
<1> QED BY <1>2, <1>4, <1>5, LoadedSteps, ServedAll

\* A campaign keeps its fields.
LEMMA CampaignsHandle ==
    ASSUME Orderly, NEW i \in CallIds, campaignAction(i) \/ updateCampaign(i) \/ uploadImage(i)
    PROVE  HandleStep(i)
<1> DEFINE op == calls[i].op
<1>1. op \in CampaignActions \union {"image", "updateC"}
  BY DEF campaignAction, updateCampaign, uploadImage
<1>2. op # "none" /\ \A k : Touches(op, k)
  BY <1>1 DEF CampaignActions, Touches
<1>3. op \in OpsOf(page)
  BY <1>2, OpOfPage
<1>4. page \in {"campaignDetail", "campaignPost"}
  BY <1>1, <1>3 DEF OpsOf, CampaignActions, LifecycleOps, MemberOps
<1>5. ASSUME NEW s, NEW f, NEW v, s = [srv EXCEPT ![f] = v] PROVE RowsOK(page, s)
  BY <1>4, <1>5 DEF RowsOK, Orderly
<1>6. ASSUME NEW st, NEW cfg, NEW s, s = [srv EXCEPT !.cfg = cfg, !.status = st] PROVE RowsOK(page, s)
  BY <1>4, <1>6 DEF RowsOK, Orderly
<1>7. (\E r : Loaded(i, r)) \/ (\E s, r : ServedWith(i, s, r) /\ RowsOK(page, s))
  BY <1>5, <1>6 DEF campaignAction, updateCampaign, uploadImage, CampaignServed
<1> QED BY <1>2, <1>7, LoadedSteps, ServedSteps

\* A cancelled voucher is not what the page shows of a campaign.
LEMMA VouchersHandle ==
    ASSUME Orderly, NEW i \in CallIds, cancelCampaignVoucher(i)
    PROVE  HandleStep(i)
<1>1. /\ calls[i].op = "cancelVoucher" /\ ServedWith(i, [srv EXCEPT !.voucher = "cancelled"], None)
      /\ srv' = [srv EXCEPT !.voucher = "cancelled"]
  BY DEF cancelCampaignVoucher, Served, ServedWith
<1>2. page \in {"campaignDetail", "campaignPost"}
  BY <1>1, OpOfPage DEF OpsOf, CampaignActions, LifecycleOps, MemberOps
<1>3. RowsOK(page, [srv EXCEPT !.voucher = "cancelled"])
  BY <1>2 DEF RowsOK, Orderly
<1>4. DOMAIN seen \subseteq {"detail", "post"}
  BY <1>2 DEF Orderly, KeysOf
<1>5. srv = [f \in DOMAIN srv |-> srv[f]] /\ {"status", "cfg", "voucher"} \subseteq DOMAIN srv
  BY <1>2 DEF RowsOK, Orderly
<1>6. ASSUME NEW data, Shows("detail", data) PROVE Shows("detail", data)'
  <2>1. [data EXCEPT !.voucher = srv.voucher] = srv
    BY <1>6 DEF Shows, WrittenKeys
  <2>2. [data EXCEPT !.voucher = "cancelled"] = [srv EXCEPT !.voucher = "cancelled"]
    BY <2>1, <1>5
  <2>3. srv'.voucher = "cancelled"
    BY <1>1, <1>5
  <2> QED BY <1>1, <2>2, <2>3 DEF Shows
<1>7. ASSUME NEW data, Shows("post", data) PROVE Shows("post", data)'
  <2>1. srv'.cfg = srv.cfg
    BY <1>1, <1>5
  <2> QED BY <1>7, <2>1 DEF Shows, View, SocialPost, WrittenKeys, NearbyKeys, HomeKeys
<1> QED BY <1>1, <1>3, <1>4, <1>6, <1>7, ServedSteps

\* What changes no row.
LEMMA RowsKeptHandle ==
    ASSUME Orderly, NEW i \in CallIds, NEW r, calls[i].op # "none", ServedWith(i, srv, r)
    PROVE  HandleStep(i)
<1>1. RowsOK(page, srv) /\ srv' = srv
  BY DEF Orderly, ServedWith
<1>2. UNCHANGED <<page, ui, seen>> /\ calls' = [calls EXCEPT ![i].phase = "ok", ![i].row = r]
      /\ calls[i].phase \in {"sent", "row"}
  BY DEF ServedWith
<1> QED BY <1>1, <1>2 DEF HandleStep

LEMMA RedeemHandles == ASSUME Orderly, NEW i \in CallIds, redeem_points(i) PROVE HandleStep(i)
<1>1. /\ calls[i].op = "redeem"
      /\ srv' = [srv EXCEPT !.cards = "collecting", !.vouchers = "active"]
      /\ ServedWith(i, [srv EXCEPT !.cards = "collecting", !.vouchers = "active"], None)
  BY DEF redeem_points, Served, ServedWith
<1>2. page = "wallet"
  BY <1>1, OpOfPage DEF OpsOf, CampaignActions, LifecycleOps, MemberOps
<1>3. RowsOK(page, [srv EXCEPT !.cards = "collecting", !.vouchers = "active"])
  BY <1>2 DEF RowsOK, Orderly
<1>4. srv'["cwallet"] = srv["cwallet"] /\ DOMAIN seen \subseteq {"cards", "vouchers", "cwallet"}
  BY <1>1, <1>2 DEF RowsOK, Orderly, KeysOf
<1>5. ASSUME NEW data, Shows("cwallet", data) PROVE Shows("cwallet", data)'
  BY <1>4, <1>5 DEF Shows, View, WrittenKeys, NearbyKeys, HomeKeys
<1>6. \A k \in DOMAIN seen : ~ Touches("redeem", k) => k = "cwallet"
  BY <1>4 DEF Touches
<1> QED BY <1>1, <1>3, <1>5, <1>6, ServedSteps

LEMMA HandleSteps == ASSUME Orderly, NEW i \in CallIds, Handle(i) PROVE HandleStep(i)
<1>1. CASE search(i) \/ locate(i) \/ present_voucher(i) \/ present_from_wallet(i)
  <2>1. calls[i].op # "none" /\ \E r : ServedWith(i, srv, r)
    BY <1>1 DEF search, locate, present_voucher, present_from_wallet, Served
  <2> QED BY <2>1, RowsKeptHandle
<1> QED BY <1>1, OwnersHandle, OwnersHandleMore, CustomersHandle, CampaignsHandle, VouchersHandle, RedeemHandles
        DEF Handle


-----------------------------------------------------------------------------
(* The steps of an answer. *)

\* What an answer does to the queries: it renews them, or it is known to have
\* missed something, or its handler had touched nothing of them.
AnsweredQueries(i) ==
    /\ QueriesOK(seen') /\ DOMAIN seen' = DOMAIN seen
    /\ \A k \in DOMAIN seen \ WrittenKeys :
        \/ Renewed(k, seen'[k])
        \/ seen'[k].missed = TRUE
        \/ (~ Touches(calls[i].op, k) \/ calls[i].phase # "ok") /\ Resent(seen[k], seen'[k])

\* The other calls go on.
AnsweredCalls(i) ==
    /\ CallsOK(calls', OpsOf(page))
    /\ \A j \in CallIds \ {i} : calls[j].phase = "ok" => calls'[j].phase = "ok" /\ calls'[j].op = calls[j].op

AnswerStep(i) ==
    /\ page' = page /\ AnsweredCalls(i) /\ AnsweredQueries(i)
    /\ srv' = srv \/ DOMAIN seen = {}
    /\ RowsOK(page, srv')
    /\ page = "left" => DOMAIN seen = {}

LEMMA MissedAnswer == ASSUME Orderly, NEW i \in CallIds, seen' = Missed(i) PROVE AnsweredQueries(i)
<1>1. CASE calls[i].phase = "ok"
  BY <1>1, MissedKept DEF Missed, AnsweredQueries, Orderly
<1>2. CASE calls[i].phase # "ok"
  BY <1>2 DEF Missed, AnsweredQueries, Orderly, Resent
<1> QED BY <1>1, <1>2

LEMMA SameAnswer ==
    ASSUME Orderly, NEW i \in CallIds, seen' = seen, \A k \in DOMAIN seen \ WrittenKeys : ~ Touches(calls[i].op, k)
    PROVE  AnsweredQueries(i)
BY DEF AnsweredQueries, Orderly, Resent

LEMMA InvalidatedAnswer ==
    ASSUME Orderly, NEW i \in CallIds, NEW qs, QueriesOK(qs), DOMAIN qs = DOMAIN seen,
           NEW keys, NEW inUse, "feed" \in keys => "feed" \in inUse,
           \A k \in DOMAIN seen \ (WrittenKeys \union keys) : qs[k] = seen[k] /\ ~ Touches(calls[i].op, k),
           seen' = Invalidated(keys, inUse, qs)
    PROVE  AnsweredQueries(i)
<1> DEFINE rs == Invalidated(keys, inUse, qs)
<1>0. /\ QueriesOK(rs) /\ DOMAIN rs = DOMAIN qs
      /\ \A k \in DOMAIN qs : /\ k \notin keys => rs[k] = qs[k]
                              /\ k \in keys => rs[k].stale = TRUE
                              /\ k \in keys \cap inUse => rs[k].fetch = "sent"
                              /\ k \in keys /\ rs[k].fetch = "read" => rs[k].missed = TRUE
  BY InvalidatedKept
<1> HIDE DEF rs
<1>1. /\ QueriesOK(seen') /\ DOMAIN seen' = DOMAIN seen
      /\ \A k \in DOMAIN qs : /\ k \notin keys => seen'[k] = qs[k]
                              /\ k \in keys => seen'[k].stale = TRUE
                              /\ k \in keys \cap inUse => seen'[k].fetch = "sent"
                              /\ k \in keys /\ seen'[k].fetch = "read" => seen'[k].missed = TRUE
  <2>1. seen' = rs
    BY DEF rs
  <2> QED BY <1>0, <2>1
<1>2. ASSUME NEW k \in DOMAIN seen \ WrittenKeys
      PROVE  \/ Renewed(k, seen'[k])
             \/ ~ Touches(calls[i].op, k) /\ Resent(seen[k], seen'[k])
  <2>0. /\ k \notin keys => seen'[k] = qs[k]
        /\ k \in keys => seen'[k].stale = TRUE
        /\ k \in keys \cap inUse => seen'[k].fetch = "sent"
        /\ k \in keys /\ seen'[k].fetch = "read" => seen'[k].missed = TRUE
    BY <1>1
  <2>1. CASE k \in keys
    <3>1. k = "feed" => seen'[k].fetch = "sent"
      BY <2>0, <2>1
    <3> QED BY <2>0, <2>1, <3>1 DEF Renewed
  <2>2. CASE k \notin keys
    <3>1. qs[k] = seen[k] /\ ~ Touches(calls[i].op, k)
      BY <2>2
    <3> QED BY <2>0, <2>2, <3>1 DEF Resent
  <2> QED BY <2>1, <2>2
<1> QED BY <1>1, <1>2 DEF AnsweredQueries

\* The queries of the page are refreshed.
LEMMA RefreshedAnswer ==
    ASSUME Orderly, NEW i \in CallIds, NEW keys, DOMAIN seen \subseteq keys \union WrittenKeys,
           seen' = Invalidated(keys, keys, seen)
    PROVE  AnsweredQueries(i)
BY InvalidatedAnswer DEF Orderly

LEMMA WrittenAnswer ==
    ASSUME Orderly, NEW i \in CallIds, DOMAIN seen \subseteq WrittenKeys, NEW k, NEW v, seen' = WrittenTo(k, v, seen)
    PROVE  AnsweredQueries(i)
BY WrittenKept DEF Orderly, AnsweredQueries

LEMMA DroppedCalls == ASSUME Orderly, NEW i \in CallIds, calls' = Dropped(i) PROVE AnsweredCalls(i)
<1>1. CallsOK(calls', OpsOf(page)) /\ \A j \in CallIds \ {i} : calls'[j] = calls[j]
  BY DroppedKept DEF Orderly
<1> QED BY <1>1 DEF AnsweredCalls

LEMMA GoneDroppedCalls ==
    ASSUME Orderly, NEW i \in CallIds, NEW ats, calls' = [Gone(ats) EXCEPT ![i] = NoCall]
    PROVE  AnsweredCalls(i)
<1> DEFINE cs == [Gone(ats) EXCEPT ![i] = NoCall]
<1>0. /\ CallsOK(cs, OpsOf(page))
      /\ \A j \in CallIds \ {i} : calls[j].phase = "ok" => cs[j].phase = "ok" /\ cs[j].op = calls[j].op
  BY GoneDroppedKept DEF Orderly
<1> HIDE DEF cs
<1>1. /\ CallsOK(calls', OpsOf(page))
      /\ \A j \in CallIds \ {i} : calls[j].phase = "ok" => calls'[j].phase = "ok" /\ calls'[j].op = calls[j].op
  <2>1. calls' = cs
    BY DEF cs
  <2> QED BY <1>0, <2>1
<1> QED BY <1>1 DEF AnsweredCalls

LEMMA Answers ==
    ASSUME Orderly, NEW i \in CallIds, page # "left", AnsweredCalls(i), AnsweredQueries(i), UNCHANGED <<page, srv>>
    PROVE  AnswerStep(i)
BY DEF Orderly, AnswerStep

\* One page after the other.
LEMMA LoyaltyNewAnswers ==
    ASSUME Orderly, NEW i \in CallIds, calls[i].op = "create", NEW ok, NewLoyaltyAnswer(i, ok)
    PROVE  AnswerStep(i)
<1>1. page \in {"loyaltyNew", "left"}
  BY OpOfPage DEF OpsOf, CampaignActions, LifecycleOps, MemberOps
<1>2. DOMAIN seen = {}
  <2>1. CASE page = "loyaltyNew"
    BY <2>1 DEF Orderly, KeysOf
  <2>2. CASE page = "left"
    BY <2>2 DEF Orderly, NoCalls, NoCall
  <2> QED BY <1>1, <2>1, <2>2
<1> QED BY <1>2, DroppedCalls DEF NewLoyaltyAnswer, AnswerStep, AnsweredQueries, Orderly

LEMMA LoyaltyDetailAnswers ==
    ASSUME Orderly, NEW i \in CallIds, page = "loyaltyDetail", NEW ok \in BOOLEAN, LoyaltyDetailAnswer(i, ok)
    PROVE  AnswerStep(i)
<1>1. DOMAIN seen \subseteq {"program"}
  BY DEF Orderly, KeysOf
<1>2. AnsweredQueries(i)
  BY <1>1, MissedAnswer, RefreshedAnswer DEF LoyaltyDetailAnswer, LifecycleInvalidates
<1> QED BY <1>2, DroppedCalls, Answers DEF LoyaltyDetailAnswer

LEMMA CampaignNewAnswers ==
    ASSUME Orderly, NEW i \in CallIds, page = "campaignNew", NEW ok \in BOOLEAN, NewCampaignAnswer(i, ok)
    PROVE  AnswerStep(i)
<1>1. DOMAIN seen = {} /\ OpsOf(page) = {"createCampaign", "photo"}
  BY DEF Orderly, KeysOf, OpsOf
<1>2. calls' = Dropped(i)
      \/ \E j \in CallIds : Dropped(i)[j] = NoCall /\ calls' = Called(j, "photo", "page", calls[i].arg, Dropped(i))
  BY DEF NewCampaignAnswer, uploadThenGo
<1>3. ASSUME NEW j \in CallIds, Dropped(i)[j] = NoCall, calls' = Called(j, "photo", "page", calls[i].arg, Dropped(i))
      PROVE  AnsweredCalls(i)
  <2> DEFINE bs == Dropped(i)
  <2>1. CallsOK(bs, OpsOf(page)) /\ \A l \in CallIds \ {i} : bs[l] = calls[l]
    BY DroppedKept DEF Orderly
  <2>2. bs[j].phase = "sent"
    BY <1>3 DEF NoCall
  <2> HIDE DEF bs
  <2>3. calls' = Called(j, "photo", "page", calls[i].arg, bs)
    BY <1>3 DEF bs
  <2>4. CallsOK(calls', OpsOf(page))
        /\ \A l \in CallIds \ {j} : bs[l].phase = "ok" => calls'[l].phase = "ok" /\ calls'[l].op = bs[l].op
    BY <1>1, <2>1, <2>3, SendsCall DEF Components
  <2> QED BY <2>1, <2>2, <2>4 DEF AnsweredCalls
<1>4. UNCHANGED <<page, seen>>
  BY DEF NewCampaignAnswer
<1> QED BY <1>1, <1>2, <1>3, <1>4, DroppedCalls DEF AnswerStep, AnsweredQueries, Orderly, RowsOK

LEMMA CampaignDetailAnswers ==
    ASSUME Orderly, NEW i \in CallIds, page \in {"campaignDetail", "campaignPost"}, NEW ok \in BOOLEAN,
           CampaignDetailAnswer(i, ok)
    PROVE  AnswerStep(i)
<1>1. DOMAIN seen \subseteq {"detail", "post"}
  BY DEF Orderly, KeysOf
<1>2. CASE ~ ok
  BY <1>2, MissedAnswer, DroppedCalls, Answers DEF CampaignDetailAnswer
<1>3. CASE ok /\ calls[i].op = "cancelVoucher"
  <2>1. \A k : ~ Touches(calls[i].op, k)
    BY <1>3 DEF Touches
  <2>2. AnsweredQueries(i)
    BY <1>3, <2>1, SameAnswer DEF CampaignDetailAnswer, CampaignHooks
  <2> QED BY <2>2, DroppedCalls, Answers DEF CampaignDetailAnswer
<1>4. CASE ok /\ calls[i].op # "cancelVoucher"
  <2> DEFINE qs == mergeCampaignIntoDetail(calls[i].row, seen)
  <2>1. QueriesOK(qs) /\ DOMAIN qs = DOMAIN seen
    BY WrittenKept DEF mergeCampaignIntoDetail, Orderly
  <2>2. seen' = Invalidated({"detail", "post"}, CampaignKeysInUse, qs)
    BY <1>4 DEF CampaignDetailAnswer, CampaignHooks
  <2> HIDE DEF qs
  <2>3. AnsweredQueries(i)
    BY <1>1, <2>1, <2>2, InvalidatedAnswer
  <2> QED BY <2>3, DroppedCalls, Answers DEF CampaignDetailAnswer
<1> QED BY <1>2, <1>3, <1>4

LEMMA OnboardingAnswers ==
    ASSUME Orderly, NEW i \in CallIds, page = "onboarding", NEW ok \in BOOLEAN, OnboardingAnswer(i, ok)
    PROVE  AnswerStep(i)
<1>1. DOMAIN seen \subseteq {"me", "state"} /\ QueriesOK(seen)
  BY DEF Orderly, KeysOf
<1>2. CASE ~ ok
  BY <1>2, MissedAnswer, DroppedCalls, Answers DEF OnboardingAnswer
<1>3. CASE ok
  <2> DEFINE qs == IF calls[i].op = "submit" THEN seen ELSE WrittenTo("me", calls[i].row, seen)
  <2>1. QueriesOK(qs) /\ DOMAIN qs = DOMAIN seen
    BY <1>1, WrittenKept
  <2>2. seen' = Invalidated({"state"}, {"state"}, qs)
    BY <1>3 DEF OnboardingAnswer, OnboardingHooks
  <2> HIDE DEF qs
  <2>3. AnsweredQueries(i)
    BY <1>1, <2>1, <2>2, InvalidatedAnswer DEF WrittenKeys
  <2> QED BY <2>3, DroppedCalls, Answers DEF OnboardingAnswer
<1> QED BY <1>2, <1>3

LEMMA SettingsAnswers ==
    ASSUME Orderly, NEW i \in CallIds, page = "settings", NEW ok \in BOOLEAN, SettingsAnswer(i, ok)
    PROVE  AnswerStep(i)
<1>1. DOMAIN seen \subseteq WrittenKeys
  BY DEF Orderly, KeysOf, WrittenKeys
<1> QED BY <1>1, MissedAnswer, WrittenAnswer, DroppedCalls, Answers DEF SettingsAnswer

LEMMA MenuAnswers ==
    ASSUME Orderly, NEW i \in CallIds, page = "menu", NEW ok \in BOOLEAN, MenuAnswer(i, ok)
    PROVE  AnswerStep(i)
<1>1. DOMAIN seen \subseteq {"catalog"} /\ "itemImage" \in OpsOf(page)
  BY DEF Orderly, KeysOf, OpsOf
<1>2. AnsweredQueries(i)
  BY <1>1, MissedAnswer, RefreshedAnswer DEF MenuAnswer
<1>3. calls' = Dropped(i) \/ calls' = Called(i, "itemImage", "page", None, calls)
  BY DEF MenuAnswer
<1>4. ASSUME calls' = Called(i, "itemImage", "page", None, calls) PROVE AnsweredCalls(i)
  <2> DEFINE cs == Called(i, "itemImage", "page", None, calls)
  <2>0. /\ CallsOK(cs, OpsOf(page))
        /\ \A j \in CallIds \ {i} : calls[j].phase = "ok" => cs[j].phase = "ok" /\ cs[j].op = calls[j].op
    <3>1. CallsOK(calls, OpsOf(page)) /\ "page" \in Components
      BY DEF Components, Orderly
    <3> QED BY <1>1, <3>1, SendsCall
  <2> HIDE DEF cs
  <2>1. /\ CallsOK(calls', OpsOf(page))
        /\ \A j \in CallIds \ {i} : calls[j].phase = "ok" => calls'[j].phase = "ok" /\ calls'[j].op = calls[j].op
    <3>1. calls' = cs
      BY <1>4 DEF cs
    <3> QED BY <2>0, <3>1
  <2> QED BY <2>1 DEF AnsweredCalls
<1>5. AnsweredCalls(i)
  BY <1>3, <1>4, DroppedCalls
<1> QED BY <1>2, <1>5, Answers DEF MenuAnswer

LEMMA GalleryAnswers ==
    ASSUME Orderly, NEW i \in CallIds, page = "gallery", NEW ok \in BOOLEAN, GalleryAnswer(i, ok)
    PROVE  AnswerStep(i)
<1>1. DOMAIN seen \subseteq {"gallery"}
  BY DEF Orderly, KeysOf
<1> QED BY <1>1, MissedAnswer, RefreshedAnswer, DroppedCalls, Answers DEF GalleryAnswer

LEMMA TeamAnswers ==
    ASSUME Orderly, NEW i \in CallIds, page = "team", NEW ok \in BOOLEAN, TeamAnswer(i, ok)
    PROVE  AnswerStep(i)
<1>1. DOMAIN seen \subseteq {"team"}
  BY DEF Orderly, KeysOf
<1>2. AnsweredQueries(i)
  BY <1>1, MissedAnswer, RefreshedAnswer DEF TeamAnswer
<1>3. AnsweredCalls(i)
  BY GoneDroppedCalls, DroppedCalls DEF TeamAnswer
<1> QED BY <1>2, <1>3, Answers DEF TeamAnswer

LEMMA SetupAnswers ==
    ASSUME Orderly, NEW i \in CallIds, page = "setup", NEW ok \in BOOLEAN, SetupAnswer(i, ok)
    PROVE  AnswerStep(i)
BY MissedAnswer, RefreshedAnswer, DroppedCalls, Answers DEF SetupAnswer

LEMMA StaffingAnswers ==
    ASSUME Orderly, NEW i \in CallIds, page = "staffing", NEW ok \in BOOLEAN, StaffingAnswer(i, ok)
    PROVE  AnswerStep(i)
<1>1. DOMAIN seen \subseteq {"team"}
  BY DEF Orderly, KeysOf
<1> QED BY <1>1, MissedAnswer, RefreshedAnswer, DroppedCalls, Answers DEF StaffingAnswer

LEMMA OverviewAnswers ==
    ASSUME Orderly, NEW i \in CallIds, page = "overview", NEW ok \in BOOLEAN, OverviewAnswer(i, ok)
    PROVE  AnswerStep(i)
<1>1. DOMAIN seen \subseteq {"state"}
  BY DEF Orderly, KeysOf
<1> QED BY <1>1, MissedAnswer, RefreshedAnswer, DroppedCalls, Answers DEF OverviewAnswer

LEMMA ContactAnswers ==
    ASSUME Orderly, NEW i \in CallIds, page = "contact", NEW ok, ContactAnswer(i, ok)
    PROVE  AnswerStep(i)
<1>1. DOMAIN seen \subseteq WrittenKeys
  BY DEF Orderly, KeysOf, WrittenKeys
<1> QED BY <1>1, SameAnswer, DroppedCalls, Answers DEF ContactAnswer

LEMMA NearbyAnswers ==
    ASSUME Orderly, NEW i \in CallIds, calls[i].op # "none", page = "nearby", NEW ok, NearbyAnswer(i, ok)
    PROVE  AnswerStep(i)
<1>1. \A k : ~ Touches(calls[i].op, k)
  BY OpOfPage DEF OpsOf, Touches
<1>2. Requeried
  BY SentAgain, SameQueries DEF NearbyAnswer, NearbyUses, Orderly
<1>3. AnsweredQueries(i)
  BY <1>1, <1>2 DEF Requeried, AnsweredQueries
<1> QED BY <1>3, DroppedCalls, Answers DEF NearbyAnswer

LEMMA HomeAnswers ==
    ASSUME Orderly, NEW i \in CallIds, page = "home", NEW ok \in BOOLEAN, HomeAnswer(i, ok)
    PROVE  AnswerStep(i)
<1>1. DOMAIN seen \subseteq WrittenKeys
  BY DEF Orderly, KeysOf, WrittenKeys
<1> QED BY <1>1, MissedAnswer, WrittenAnswer, DroppedCalls, Answers DEF HomeAnswer

LEMMA TabAnswers ==
    ASSUME Orderly, NEW i \in CallIds, page = "tab", NEW ok \in BOOLEAN, TabAnswer(i, ok)
    PROVE  AnswerStep(i)
<1>1. DOMAIN seen \subseteq {"feed", "summary"}
  BY DEF Orderly, KeysOf
<1> QED BY <1>1, MissedAnswer, RefreshedAnswer, DroppedCalls, Answers DEF TabAnswer

LEMMA OfferAnswers ==
    ASSUME Orderly, NEW i \in CallIds, page = "offer", NEW ok \in BOOLEAN, OfferAnswer(i, ok)
    PROVE  AnswerStep(i)
<1>1. DOMAIN seen \subseteq {"offer"}
  BY DEF Orderly, KeysOf
<1> QED BY <1>1, MissedAnswer, RefreshedAnswer, DroppedCalls, Answers DEF OfferAnswer

LEMMA GroupAnswers ==
    ASSUME Orderly, NEW i \in CallIds, page = "group", NEW ok \in BOOLEAN, GroupAnswer(i, ok)
    PROVE  AnswerStep(i)
<1>1. DOMAIN seen \subseteq {"mygroups", "session"} /\ QueriesOK(seen)
  BY DEF Orderly, KeysOf
<1>2. AnsweredCalls(i) /\ UNCHANGED <<page, srv>>
  BY GoneDroppedCalls DEF GroupAnswer
<1>3. CASE ~ ok
  BY <1>2, <1>3, MissedAnswer, Answers DEF GroupAnswer
<1>4. CASE ok
  <2>1. PICK qs : QueriesOK(qs) /\ DOMAIN qs = DOMAIN seen /\ seen' = Invalidated({"mygroups"}, {"mygroups"}, qs)
    <3>1. CASE calls[i].op = "start"
      <4> DEFINE rs == WrittenTo("session", calls[i].row.status, seen)
                 qs == WrittenTo("mygroups", calls[i].row.status, rs)
      <4>1. QueriesOK(rs) /\ DOMAIN rs = DOMAIN seen
        BY <1>1, WrittenKept
      <4>2. seen' = Invalidated({"mygroups"}, {"mygroups"}, qs)
        BY <1>4, <3>1 DEF GroupAnswer, GroupHooks, startInvalidates
      <4> HIDE DEF rs
      <4>3. QueriesOK(qs) /\ DOMAIN qs = DOMAIN seen
        BY <4>1, WrittenKept
      <4> QED BY <4>2, <4>3
    <3>2. CASE calls[i].op = "demoFill"
      <4> DEFINE qs == WrittenTo("session", calls[i].row.status, seen)
      <4>1. QueriesOK(qs) /\ DOMAIN qs = DOMAIN seen
        BY <1>1, WrittenKept
      <4>2. seen' = Invalidated({"mygroups"}, {"mygroups"}, qs)
        BY <1>4, <3>2 DEF GroupAnswer, GroupHooks
      <4> QED BY <4>1, <4>2
    <3>3. CASE calls[i].op \notin {"start", "demoFill"}
      <4> DEFINE qs == [seen EXCEPT !.session = [Cached(None) EXCEPT !.stale = TRUE]]
      <4>1. [Cached(None) EXCEPT !.stale = TRUE] =
              [data |-> None, stale |-> TRUE, fetch |-> "no", got |-> None, bad |-> FALSE, missed |-> FALSE]
        <5>1. ASSUME NEW q, q = [Cached(None) EXCEPT !.stale = TRUE]
              PROVE  q = [data |-> None, stale |-> TRUE, fetch |-> "no", got |-> None, bad |-> FALSE, missed |-> FALSE]
          BY <5>1 DEF Cached
        <5> QED BY <5>1
      <4>2. QueryOK([Cached(None) EXCEPT !.stale = TRUE])
        BY <4>1 DEF QueryOK
      <4>3. QueriesOK(qs) /\ DOMAIN qs = DOMAIN seen
        BY <1>1, <4>2 DEF QueriesOK
      <4>4. seen' = Invalidated({"mygroups"}, {"mygroups"}, qs)
        BY <1>4, <3>3 DEF GroupAnswer, GroupHooks
      <4> QED BY <4>3, <4>4
    <3> QED BY <3>1, <3>2, <3>3
  <2>2. AnsweredQueries(i)
    BY <1>1, <2>1, InvalidatedAnswer DEF WrittenKeys
  <2> QED BY <1>2, <2>2, Answers
<1> QED BY <1>3, <1>4

LEMMA VoucherAnswers ==
    ASSUME Orderly, NEW i \in CallIds, page = "voucher", NEW ok \in BOOLEAN, VoucherAnswer(i, ok)
    PROVE  AnswerStep(i)
<1>1. DOMAIN seen \subseteq WrittenKeys
  BY DEF Orderly, KeysOf, WrittenKeys
<1>2. AnsweredQueries(i)
  BY <1>1, MissedAnswer, WrittenAnswer DEF VoucherAnswer
<1>3. AnsweredCalls(i) /\ UNCHANGED <<page, srv>>
  BY GoneDroppedCalls DEF VoucherAnswer
<1> QED BY <1>2, <1>3, Answers

LEMMA WalletAnswers ==
    ASSUME Orderly, NEW i \in CallIds, calls[i].op # "none", page = "wallet", NEW ok \in BOOLEAN, WalletAnswer(i, ok)
    PROVE  AnswerStep(i)
<1>1. DOMAIN seen \subseteq {"cards", "vouchers", "cwallet"}
  BY DEF Orderly, KeysOf
<1>2. CASE ~ ok
  BY <1>2, MissedAnswer, DroppedCalls, Answers DEF WalletAnswer
<1>3. CASE ok
  <2> DEFINE keys == WalletInvalidates(calls[i].op)
  <2>1. seen' = Invalidated(keys, keys, seen)
    BY <1>3 DEF WalletAnswer
  <2>2. calls[i].op \in {"redeem", "present"}
    BY OpOfPage DEF OpsOf
  <2>3. \A k \in DOMAIN seen : k \notin keys => ~ Touches(calls[i].op, k)
    BY <1>1, <2>2 DEF Touches, WalletInvalidates
  <2> HIDE DEF keys
  <2>4. AnsweredQueries(i)
    BY <2>1, <2>3, InvalidatedAnswer DEF Orderly
  <2> QED BY <2>4, DroppedCalls, Answers DEF WalletAnswer
<1> QED BY <1>2, <1>3

LEMMA BoardAnswers ==
    ASSUME Orderly, NEW i \in CallIds, page = "board", NEW ok \in BOOLEAN, BoardAnswer(i, ok)
    PROVE  AnswerStep(i)
<1>1. DOMAIN seen \subseteq {"patches"}
  BY DEF Orderly, KeysOf
<1> QED BY <1>1, MissedAnswer, RefreshedAnswer, DroppedCalls, Answers DEF BoardAnswer

LEMMA ProfileAnswers ==
    ASSUME Orderly, NEW i \in CallIds, page = "profile", NEW ok \in BOOLEAN, ProfileAnswer(i, ok)
    PROVE  AnswerStep(i)
<1>1. DOMAIN seen \subseteq {"account"}
  BY DEF Orderly, KeysOf
<1> QED BY <1>1, MissedAnswer, RefreshedAnswer, DroppedCalls, Answers DEF ProfileAnswer

LEMMA Settles ==
    ASSUME Orderly, NEW i \in CallIds, calls[i].op # "none", NEW ok \in BOOLEAN, Settle(i, ok)
    PROVE  AnswerStep(i)
BY LoyaltyNewAnswers, LoyaltyDetailAnswers, CampaignNewAnswers, CampaignDetailAnswers, OnboardingAnswers,
   SettingsAnswers, MenuAnswers, GalleryAnswers, TeamAnswers, SetupAnswers, StaffingAnswers, OverviewAnswers,
   ContactAnswers, NearbyAnswers, HomeAnswers, TabAnswers, OfferAnswers, GroupAnswers, VoucherAnswers, WalletAnswers,
   BoardAnswers, ProfileAnswers DEF Settle

LEMMA AnswerSteps == ASSUME Orderly, NEW i \in CallIds, Answer(i) PROVE AnswerStep(i) /\ calls[i].op # "none"
<1>1. calls[i].op # "none"
  <2>1. "none" \notin OpsOf(page)
    BY DEF OpsOf, LifecycleOps, CampaignActions, MemberOps
  <2>2. calls[i] # NoCall
    <3>1. calls[i].phase = "ok" \/ calls[i] # NoCall
      BY DEF Answer
    <3> QED BY <3>1 DEF NoCall
  <2> QED BY <2>1, <2>2 DEF Orderly, CallsOK, CallOK
<1> QED BY <1>1, Settles DEF Answer


-----------------------------------------------------------------------------
(* The steps of a fetch. *)

\* Components are unmounted, or not.
LEMMA GoneCalls ==
    ASSUME Orderly, calls' = calls \/ \E ats : calls' = Gone(ats)
    PROVE  CallsOK(calls', OpsOf(page)) /\ OkKept(calls') /\ (calls = NoCalls => calls' = NoCalls)
<1>1. CallsOK(calls', OpsOf(page)) /\ OkKept(calls')
  BY SameCalls, GoneKept DEF Orderly
<1>2. ASSUME calls = NoCalls, NEW ats, calls' = Gone(ats) PROVE calls' = NoCalls
  <2>1. [NoCall EXCEPT !.at = "gone"] = NoCall
    BY DEF NoCall
  <2>2. \A i \in CallIds : calls[i] = NoCall
    BY <1>2 DEF NoCalls
  <2>3. calls' = [i \in CallIds |-> NoCall]
    BY <1>2, <2>1, <2>2 DEF Gone
  <2> QED BY <2>3 DEF NoCalls
<1> QED BY <1>1, <1>2

LEMMA HearsCalls == ASSUME NEW k, PageHears(k) PROVE calls' = calls \/ \E ats : calls' = Gone(ats)
<1>1. CASE k \in {"feed", "summary"}
  BY <1>1 DEF PageHears, NearbyKeys, TabArrives
<1>2. CASE k = "mygroups"
  BY <1>2 DEF PageHears, NearbyKeys, GroupArrives
<1>3. CASE k = "voucher"
  BY <1>3 DEF PageHears, NearbyKeys
<1>4. CASE k \notin {"feed", "summary", "mygroups", "voucher"}
  <2>1. UNCHANGED calls
    BY <1>4 DEF PageHears, NearbyKeys
  <2> QED BY <2>1
<1> QED BY <1>1, <1>2, <1>3, <1>4

LEMMA FailsCalls == ASSUME NEW k, FetchFails(k) PROVE calls' = calls \/ \E ats : calls' = Gone(ats)
<1>1. CASE k = "program"
  BY <1>1 DEF FetchFails, LoyaltyUnmounted
<1>2. CASE k = "detail"
  BY <1>2 DEF FetchFails, CampaignUnmounted
<1>3. CASE k \in {"offer", "voucher"}
  BY <1>3 DEF FetchFails
<1>4. CASE k = "mygroups"
  BY <1>4 DEF FetchFails, GroupArrives
<1>5. CASE k = "cards"
  BY <1>5 DEF FetchFails, WalletUnmounted
<1>6. CASE k \notin {"program", "detail", "offer", "voucher", "mygroups", "cards"}
  BY <1>6 DEF FetchFails
<1> QED BY <1>1, <1>2, <1>3, <1>4, <1>5, <1>6

\* One query changes.
LEMMA OneQuery ==
    ASSUME QueriesOK(seen), NEW k \in DOMAIN seen, NEW q, QueryOK(q), NEW qs, qs = [seen EXCEPT ![k] = q]
    PROVE  QueriesOK(qs) /\ DOMAIN qs = DOMAIN seen /\ qs[k] = q /\ \A j \in DOMAIN seen \ {k} : qs[j] = seen[j]
BY DEF QueriesOK

\* What a fetch makes of its query.
ReadQuery(q, v) == [data |-> q.data, stale |-> q.stale, fetch |-> "read", got |-> v, bad |-> q.bad, missed |-> FALSE]
ListedQuery(q, v) == [data |-> q.data, stale |-> q.stale, fetch |-> "listed", got |-> v, bad |-> q.bad, missed |-> FALSE]
FeedReadQuery(q, v) == [data |-> q.data, stale |-> q.stale, fetch |-> "read", got |-> v, bad |-> q.bad, missed |-> q.missed]
ArrivedQuery(q) == [data |-> q.got, stale |-> FALSE, fetch |-> "no", got |-> None, bad |-> FALSE, missed |-> q.missed]
FailedQuery(q) == [data |-> q.data, stale |-> q.stale, fetch |-> "no", got |-> None, bad |-> TRUE, missed |-> q.missed]
SentQuery(q) == [data |-> q.data, stale |-> q.stale, fetch |-> "sent", got |-> q.got, bad |-> q.bad, missed |-> q.missed]

LEMMA FetchedQueries ==
    ASSUME NEW q, QueryOK(q), NEW v
    PROVE  /\ QueryOK(ReadQuery(q, v)) /\ QueryOK(ListedQuery(q, v)) /\ QueryOK(FeedReadQuery(q, v))
           /\ QueryOK(ArrivedQuery(q)) /\ QueryOK(FailedQuery(q)) /\ QueryOK(SentQuery(q))
BY DEF QueryOK, ReadQuery, ListedQuery, FeedReadQuery, ArrivedQuery, FailedQuery, SentQuery

LEMMA QueryMade ==
    ASSUME NEW q, QueryOK(q), NEW v
    PROVE  /\ [q EXCEPT !.fetch = "read", !.got = v, !.missed = FALSE] = ReadQuery(q, v)
           /\ [q EXCEPT !.fetch = "listed", !.missed = FALSE, !.got = v] = ListedQuery(q, v)
           /\ [q EXCEPT !.fetch = "read", !.got = v] = FeedReadQuery(q, v)
           /\ [q EXCEPT !.fetch = "no", !.got = None, !.bad = TRUE] = FailedQuery(q)
           /\ [q EXCEPT !.fetch = "sent"] = SentQuery(q)
<1>1. q = [data |-> q.data, stale |-> q.stale, fetch |-> q.fetch, got |-> q.got, bad |-> q.bad, missed |-> q.missed]
  BY DEF QueryOK
<1>2. ASSUME NEW r, r = [q EXCEPT !.fetch = "read", !.got = v, !.missed = FALSE] PROVE r = ReadQuery(q, v)
  BY <1>1, <1>2 DEF ReadQuery
<1>3. ASSUME NEW r, r = [q EXCEPT !.fetch = "listed", !.missed = FALSE, !.got = v] PROVE r = ListedQuery(q, v)
  BY <1>1, <1>3 DEF ListedQuery
<1>4. ASSUME NEW r, r = [q EXCEPT !.fetch = "read", !.got = v] PROVE r = FeedReadQuery(q, v)
  BY <1>1, <1>4 DEF FeedReadQuery
<1>5. ASSUME NEW r, r = [q EXCEPT !.fetch = "no", !.got = None, !.bad = TRUE] PROVE r = FailedQuery(q)
  BY <1>1, <1>5 DEF FailedQuery
<1>6. ASSUME NEW r, r = [q EXCEPT !.fetch = "sent"] PROVE r = SentQuery(q)
  BY <1>1, <1>6 DEF SentQuery
<1> QED BY <1>2, <1>3, <1>4, <1>5, <1>6

LEMMA FetchesQuery ==
    ASSUME QueriesOK(seen), NEW k \in DOMAIN seen, NEW qs
    PROVE  /\ qs = Arrived(k) => qs = [seen EXCEPT ![k] = ArrivedQuery(seen[k])]
           /\ qs = FetchFailed(k) => qs = [seen EXCEPT ![k] = FailedQuery(seen[k])]
           /\ qs = [seen EXCEPT ![k].fetch = "sent"] => qs = [seen EXCEPT ![k] = SentQuery(seen[k])]
<1> DEFINE q == seen[k]
<1>1. QueryOK(q)
  BY DEF QueriesOK
<1>2. [Cached(q.got) EXCEPT !.missed = q.missed] = ArrivedQuery(q)
  <2>1. ASSUME NEW r, r = [Cached(q.got) EXCEPT !.missed = q.missed] PROVE r = ArrivedQuery(q)
    BY <2>1 DEF ArrivedQuery, Cached
  <2> QED BY <2>1
<1>3. /\ qs = FetchFailed(k) => qs = [seen EXCEPT ![k] = [q EXCEPT !.fetch = "no", !.got = None, !.bad = TRUE]]
      /\ qs = [seen EXCEPT ![k].fetch = "sent"] => qs = [seen EXCEPT ![k] = [q EXCEPT !.fetch = "sent"]]
  BY DEF FetchFailed
<1> QED BY <1>1, <1>2, <1>3, QueryMade DEF Arrived

\* A fetch reads, arrives, fails or is sent again; the feed is listed, then read.
FetchStep(k) ==
    /\ page' = page /\ srv' = srv
    /\ CallsOK(calls', OpsOf(page)) /\ OkKept(calls') /\ (calls = NoCalls => calls' = NoCalls)
    /\ QueriesOK(seen') /\ DOMAIN seen' = DOMAIN seen
    /\ \A j \in DOMAIN seen \ {k} : seen'[j] = seen[j]
    /\ \/ seen'[k] = ReadQuery(seen[k], View(k)) /\ k # "feed"
       \/ seen'[k] = ListedQuery(seen[k], srv.status \in JoinedStatuses) /\ k = "feed"
       \/ seen'[k] = FeedReadQuery(seen[k], feed_for_customer(seen[k].got)) /\ seen[k].fetch = "listed" /\ k = "feed"
       \/ seen'[k] = ArrivedQuery(seen[k]) /\ seen[k].fetch = "read"
       \/ seen'[k] = FailedQuery(seen[k])
       \/ seen'[k] = SentQuery(seen[k])

LEMMA FetchSteps ==
    ASSUME Orderly, NEW k \in DOMAIN seen, Fetch(k) \/ FetchFails(k) \/ Refetch(k)
    PROVE  FetchStep(k)
<1>1. QueriesOK(seen) /\ QueryOK(seen[k])
  BY DEF Orderly, QueriesOK
<1>2. UNCHANGED <<page, srv>>
  BY DEF Fetch, FetchRead, FetchFails, Refetch
<1>3. CallsOK(calls', OpsOf(page)) /\ OkKept(calls') /\ (calls = NoCalls => calls' = NoCalls)
  <2>1. calls' = calls \/ \E ats : calls' = Gone(ats)
    BY HearsCalls, FailsCalls DEF Fetch, FetchRead, Refetch
  <2> QED BY <2>1, GoneCalls
<1>4. PICK q : /\ QueryOK(q) /\ seen' = [seen EXCEPT ![k] = q]
               /\ \/ q = ReadQuery(seen[k], View(k)) /\ k # "feed"
                  \/ q = ArrivedQuery(seen[k]) /\ seen[k].fetch = "read"
                  \/ q = FailedQuery(seen[k])
                  \/ q = SentQuery(seen[k])
  <2>1. CASE k # "feed" /\ FetchRead(k, View(k))
    <3>1. PICK v : v = View(k)
      OBVIOUS
    <3>2. seen' = [seen EXCEPT ![k].fetch = "read", ![k].got = v, ![k].missed = FALSE]
      BY <2>1, <3>1 DEF FetchRead
    <3>3. seen' = [seen EXCEPT ![k] = ReadQuery(seen[k], v)]
      <4>1. seen' = [seen EXCEPT ![k] = [seen[k] EXCEPT !.fetch = "read", !.got = v, !.missed = FALSE]]
        BY <3>2
      <4>2. [seen[k] EXCEPT !.fetch = "read", !.got = v, !.missed = FALSE] = ReadQuery(seen[k], v)
        BY <1>1, QueryMade
      <4> QED BY <4>1, <4>2
    <3> QED BY <1>1, <2>1, <3>1, <3>3, FetchedQueries
  <2>2. CASE seen[k].fetch = "read" /\ seen' = Arrived(k)
    <3>1. seen' = [seen EXCEPT ![k] = ArrivedQuery(seen[k])]
      BY <1>1, <2>2, FetchesQuery
    <3> QED BY <1>1, <2>2, <3>1, FetchedQueries
  <2>3. CASE FetchFails(k)
    <3>1. seen' = [seen EXCEPT ![k] = FailedQuery(seen[k])]
      BY <1>1, <2>3, FetchesQuery DEF FetchFails
    <3> QED BY <1>1, <3>1, FetchedQueries
  <2>4. CASE Refetch(k)
    <3>1. seen' = [seen EXCEPT ![k] = SentQuery(seen[k])]
      BY <1>1, <2>4, FetchesQuery DEF Refetch
    <3> QED BY <1>1, <3>1, FetchedQueries
  <2> QED BY <2>1, <2>2, <2>3, <2>4 DEF Fetch
<1>5. /\ QueriesOK(seen') /\ DOMAIN seen' = DOMAIN seen /\ seen'[k] = q
      /\ \A j \in DOMAIN seen \ {k} : seen'[j] = seen[j]
  BY <1>1, <1>4, OneQuery
<1> QED BY <1>2, <1>3, <1>4, <1>5 DEF FetchStep

LEMMA FeedSteps ==
    ASSUME Orderly, "feed" \in DOMAIN seen, FeedListed \/ FeedRead
    PROVE  FetchStep("feed")
<1>1. QueriesOK(seen) /\ QueryOK(seen["feed"])
  BY DEF Orderly, QueriesOK
<1>2. UNCHANGED <<page, srv, calls>>
  BY DEF FeedListed, FeedRead
<1>3. CallsOK(calls', OpsOf(page)) /\ OkKept(calls')
  BY <1>2, SameCalls DEF Orderly
<1>4. PICK q : /\ QueryOK(q) /\ seen' = [seen EXCEPT !["feed"] = q]
               /\ \/ q = ListedQuery(seen["feed"], srv.status \in JoinedStatuses)
                  \/ q = FeedReadQuery(seen["feed"], feed_for_customer(seen["feed"].got)) /\ seen["feed"].fetch = "listed"
  <2>1. CASE FeedListed
    <3>1. PICK v : v = (srv.status \in JoinedStatuses)
      OBVIOUS
    <3>2. seen' = [seen EXCEPT !["feed"].fetch = "listed", !["feed"].missed = FALSE, !["feed"].got = v]
      BY <2>1, <3>1 DEF FeedListed
    <3>3. seen' = [seen EXCEPT !["feed"] = ListedQuery(seen["feed"], v)]
      <4>1. seen' = [seen EXCEPT !["feed"] = [seen["feed"] EXCEPT !.fetch = "listed", !.missed = FALSE, !.got = v]]
        BY <3>2
      <4>2. [seen["feed"] EXCEPT !.fetch = "listed", !.missed = FALSE, !.got = v] = ListedQuery(seen["feed"], v)
        BY <1>1, QueryMade
      <4> QED BY <4>1, <4>2
    <3> QED BY <1>1, <3>1, <3>3, FetchedQueries
  <2>2. CASE FeedRead
    <3>1. PICK v : v = feed_for_customer(seen["feed"].got)
      OBVIOUS
    <3>2. seen' = [seen EXCEPT !["feed"].fetch = "read", !["feed"].got = v]
      BY <2>2, <3>1 DEF FeedRead
    <3>3. seen' = [seen EXCEPT !["feed"] = FeedReadQuery(seen["feed"], v)]
      <4>1. seen' = [seen EXCEPT !["feed"] = [seen["feed"] EXCEPT !.fetch = "read", !.got = v]]
        BY <3>2
      <4>2. [seen["feed"] EXCEPT !.fetch = "read", !.got = v] = FeedReadQuery(seen["feed"], v)
        BY <1>1, QueryMade
      <4> QED BY <4>1, <4>2
    <3>4. seen["feed"].fetch = "listed"
      BY <2>2 DEF FeedRead
    <3> QED BY <1>1, <3>1, <3>3, <3>4, FetchedQueries
  <2> QED BY <2>1, <2>2
<1>5. /\ QueriesOK(seen') /\ DOMAIN seen' = DOMAIN seen /\ seen'["feed"] = q
      /\ \A j \in DOMAIN seen \ {"feed"} : seen'[j] = seen[j]
  BY <1>1, <1>4, OneQuery
<1> QED BY <1>2, <1>3, <1>4, <1>5 DEF FetchStep


-----------------------------------------------------------------------------
(* Orderly is an invariant. *)

LEMMA LiteralQueries ==
    ASSUME NEW v
    PROVE  /\ QueryOK(Cached(v)) /\ QueryOK(Fetching(v)) /\ QueryOK([Cached(v) EXCEPT !.stale = TRUE])
           /\ Fetching(v).stale = TRUE /\ Fetching(v).fetch = "sent"
           /\ Cached(v).data = v /\ Cached(v).fetch = "no"
           /\ [Cached(v) EXCEPT !.stale = TRUE].stale = TRUE /\ [Cached(v) EXCEPT !.stale = TRUE].fetch = "no"
<1>1. ASSUME NEW q, q = Cached(v) PROVE QueryOK(q) /\ q.data = v /\ q.fetch = "no"
  BY <1>1 DEF Cached, QueryOK
<1>2. ASSUME NEW q, q = [Cached(v) EXCEPT !.stale = TRUE] PROVE QueryOK(q) /\ q.stale = TRUE /\ q.fetch = "no"
  <2>1. q = [data |-> v, stale |-> TRUE, fetch |-> "no", got |-> None, bad |-> FALSE, missed |-> FALSE]
    BY <1>2 DEF Cached
  <2> QED BY <2>1 DEF QueryOK
<1>3. ASSUME NEW q, q = Fetching(v) PROVE QueryOK(q) /\ q.stale = TRUE /\ q.fetch = "sent"
  <2>1. q = [data |-> v, stale |-> TRUE, fetch |-> "sent", got |-> None, bad |-> FALSE, missed |-> FALSE]
    BY <1>3 DEF Fetching, Cached
  <2> QED BY <2>1 DEF QueryOK
<1> QED BY <1>1, <1>2, <1>3

\* What a query is when a page opens: to be fetched, written into, not in use
\* yet, or what the server said.
OpensWith(k) ==
    /\ QueryOK(seen[k])
    /\ k \in DOMAIN seen \ WrittenKeys =>
        \/ seen[k].stale = TRUE /\ seen[k].fetch \in {"sent", "no"}
        \/ k = "state" /\ page = "onboarding" /\ seen[k].data = OnboardingState(srv) /\ seen[k].fetch = "no"

Opened == /\ seen = [k \in DOMAIN seen |-> seen[k]] /\ \A k \in DOMAIN seen : OpensWith(k)
          /\ DOMAIN seen \subseteq KeysOf(page)
          /\ CallsOK(calls, OpsOf(page)) /\ (\A i \in CallIds : calls[i].phase = "sent")
          /\ RowsOK(page, srv)
          /\ page # "left" /\ (page = "tab" => DOMAIN seen = KeysOf(page))

LEMMA NoCallsSent == CallsOK(NoCalls, OpsOf(page)) /\ \A i \in CallIds : NoCalls[i].phase = "sent"
BY NoCallsOK DEF NoCalls, NoCall

LEMMA OpensStale ==
    ASSUME NEW k, NEW v, seen[k] = Fetching(v) \/ seen[k] = [Cached(v) EXCEPT !.stale = TRUE]
    PROVE  OpensWith(k)
<1>1. CASE seen[k] = Fetching(v)
  <2> DEFINE q == Fetching(v)
  <2>1. QueryOK(q) /\ q.stale = TRUE /\ q.fetch = "sent"
    BY LiteralQueries
  <2>2. seen[k] = q
    BY <1>1
  <2> HIDE DEF q
  <2> QED BY <2>1, <2>2 DEF OpensWith
<1>2. CASE seen[k] = [Cached(v) EXCEPT !.stale = TRUE]
  <2> DEFINE q == [Cached(v) EXCEPT !.stale = TRUE]
  <2>1. QueryOK(q) /\ q.stale = TRUE /\ q.fetch = "no"
    BY LiteralQueries
  <2>2. seen[k] = q
    BY <1>2
  <2> HIDE DEF q
  <2> QED BY <2>1, <2>2 DEF OpensWith
<1> QED BY <1>1, <1>2

\* Everything is to be fetched, or written into.
LEMMA OpensFetching ==
    ASSUME calls = NoCalls, RowsOK(page, srv), page # "left",
           seen = [k \in DOMAIN seen |-> seen[k]], DOMAIN seen \subseteq KeysOf(page),
           page = "tab" => DOMAIN seen = KeysOf(page),
           \A k \in DOMAIN seen : \E v : \/ seen[k] = Fetching(v) \/ seen[k] = [Cached(v) EXCEPT !.stale = TRUE]
                                         \/ k \in WrittenKeys /\ seen[k] = Cached(v)
    PROVE  Opened
<1>1. ASSUME NEW k \in DOMAIN seen PROVE OpensWith(k)
  <2>1. PICK v : \/ seen[k] = Fetching(v) \/ seen[k] = [Cached(v) EXCEPT !.stale = TRUE]
                 \/ k \in WrittenKeys /\ seen[k] = Cached(v)
    OBVIOUS
  <2>2. CASE seen[k] = Fetching(v)
    BY <2>2, OpensStale
  <2>3. CASE seen[k] = [Cached(v) EXCEPT !.stale = TRUE]
    BY <2>3, OpensStale
  <2>4. CASE k \in WrittenKeys /\ seen[k] = Cached(v)
    BY <2>4, LiteralQueries DEF OpensWith
  <2> QED BY <2>1, <2>2, <2>3, <2>4
<1>2. CallsOK(calls, OpsOf(page)) /\ \A i \in CallIds : calls[i].phase = "sent"
  BY NoCallsSent
<1> QED BY <1>1, <1>2 DEF Opened

LEMMA OpensOneQuery ==
    ASSUME NEW key, NEW v, calls = NoCalls, page \notin {"campaignDetail", "campaignPost", "wallet", "left", "tab"},
           key \in KeysOf(page), DOMAIN seen = {key}, seen = [k \in DOMAIN seen |-> seen[k]], seen[key] = Fetching(v)
    PROVE  Opened
<1>1. RowsOK(page, srv)
  BY DEF RowsOK
<1> QED BY <1>1, OpensFetching

LEMMA OneQueryOpens ==
    ASSUME \/ LoyaltyDetailInit
           \/ MenuInit
           \/ GalleryInit
           \/ TeamInit
           \/ StaffingInit
           \/ OverviewInit
           \/ OfferInit
           \/ VoucherInit
           \/ BoardInit
           \/ ProfileInit
           \/ HomeInit
    PROVE  Opened
<1>1. CASE LoyaltyDetailInit
  <2>1. calls = NoCalls /\ page = "loyaltyDetail" /\ \E v : seen = [program |-> Fetching(v)]
    BY <1>1 DEF LoyaltyDetailInit
  <2>2. PICK v, q : q = Fetching(v) /\ seen = [program |-> q]
    BY <2>1
  <2>3. DOMAIN seen = {"program"} /\ seen = [k \in DOMAIN seen |-> seen[k]] /\ seen["program"] = q
    BY <2>2
  <2>4. "program" \in KeysOf(page)
    BY <2>1 DEF KeysOf
  <2> QED BY <2>1, <2>2, <2>3, <2>4, OpensOneQuery
<1>2. CASE MenuInit
  <2>1. calls = NoCalls /\ page = "menu" /\ \E v : seen = [catalog |-> Fetching(v)]
    BY <1>2 DEF MenuInit
  <2>2. PICK v, q : q = Fetching(v) /\ seen = [catalog |-> q]
    BY <2>1
  <2>3. DOMAIN seen = {"catalog"} /\ seen = [k \in DOMAIN seen |-> seen[k]] /\ seen["catalog"] = q
    BY <2>2
  <2>4. "catalog" \in KeysOf(page)
    BY <2>1 DEF KeysOf
  <2> QED BY <2>1, <2>2, <2>3, <2>4, OpensOneQuery
<1>3. CASE GalleryInit
  <2>1. calls = NoCalls /\ page = "gallery" /\ \E v : seen = [gallery |-> Fetching(v)]
    BY <1>3 DEF GalleryInit
  <2>2. PICK v, q : q = Fetching(v) /\ seen = [gallery |-> q]
    BY <2>1
  <2>3. DOMAIN seen = {"gallery"} /\ seen = [k \in DOMAIN seen |-> seen[k]] /\ seen["gallery"] = q
    BY <2>2
  <2>4. "gallery" \in KeysOf(page)
    BY <2>1 DEF KeysOf
  <2> QED BY <2>1, <2>2, <2>3, <2>4, OpensOneQuery
<1>4. CASE TeamInit
  <2>1. calls = NoCalls /\ page = "team" /\ \E v : seen = [team |-> Fetching(v)]
    BY <1>4 DEF TeamInit
  <2>2. PICK v, q : q = Fetching(v) /\ seen = [team |-> q]
    BY <2>1
  <2>3. DOMAIN seen = {"team"} /\ seen = [k \in DOMAIN seen |-> seen[k]] /\ seen["team"] = q
    BY <2>2
  <2>4. "team" \in KeysOf(page)
    BY <2>1 DEF KeysOf
  <2> QED BY <2>1, <2>2, <2>3, <2>4, OpensOneQuery
<1>5. CASE StaffingInit
  <2>1. calls = NoCalls /\ page = "staffing" /\ \E v : seen = [team |-> Fetching(v)]
    BY <1>5 DEF StaffingInit
  <2>2. PICK v, q : q = Fetching(v) /\ seen = [team |-> q]
    BY <2>1
  <2>3. DOMAIN seen = {"team"} /\ seen = [k \in DOMAIN seen |-> seen[k]] /\ seen["team"] = q
    BY <2>2
  <2>4. "team" \in KeysOf(page)
    BY <2>1 DEF KeysOf
  <2> QED BY <2>1, <2>2, <2>3, <2>4, OpensOneQuery
<1>6. CASE OverviewInit
  <2>1. calls = NoCalls /\ page = "overview" /\ \E v : seen = [state |-> Fetching(v)]
    BY <1>6 DEF OverviewInit
  <2>2. PICK v, q : q = Fetching(v) /\ seen = [state |-> q]
    BY <2>1
  <2>3. DOMAIN seen = {"state"} /\ seen = [k \in DOMAIN seen |-> seen[k]] /\ seen["state"] = q
    BY <2>2
  <2>4. "state" \in KeysOf(page)
    BY <2>1 DEF KeysOf
  <2> QED BY <2>1, <2>2, <2>3, <2>4, OpensOneQuery
<1>7. CASE OfferInit
  <2>1. calls = NoCalls /\ page = "offer" /\ \E v : seen = [offer |-> Fetching(v)]
    BY <1>7 DEF OfferInit
  <2>2. PICK v, q : q = Fetching(v) /\ seen = [offer |-> q]
    BY <2>1
  <2>3. DOMAIN seen = {"offer"} /\ seen = [k \in DOMAIN seen |-> seen[k]] /\ seen["offer"] = q
    BY <2>2
  <2>4. "offer" \in KeysOf(page)
    BY <2>1 DEF KeysOf
  <2> QED BY <2>1, <2>2, <2>3, <2>4, OpensOneQuery
<1>8. CASE VoucherInit
  <2>1. calls = NoCalls /\ page = "voucher" /\ \E v : seen = [voucher |-> Fetching(v)]
    BY <1>8 DEF VoucherInit
  <2>2. PICK v, q : q = Fetching(v) /\ seen = [voucher |-> q]
    BY <2>1
  <2>3. DOMAIN seen = {"voucher"} /\ seen = [k \in DOMAIN seen |-> seen[k]] /\ seen["voucher"] = q
    BY <2>2
  <2>4. "voucher" \in KeysOf(page)
    BY <2>1 DEF KeysOf
  <2> QED BY <2>1, <2>2, <2>3, <2>4, OpensOneQuery
<1>9. CASE BoardInit
  <2>1. calls = NoCalls /\ page = "board" /\ \E v : seen = [patches |-> Fetching(v)]
    BY <1>9 DEF BoardInit
  <2>2. PICK v, q : q = Fetching(v) /\ seen = [patches |-> q]
    BY <2>1
  <2>3. DOMAIN seen = {"patches"} /\ seen = [k \in DOMAIN seen |-> seen[k]] /\ seen["patches"] = q
    BY <2>2
  <2>4. "patches" \in KeysOf(page)
    BY <2>1 DEF KeysOf
  <2> QED BY <2>1, <2>2, <2>3, <2>4, OpensOneQuery
<1>10. CASE ProfileInit
  <2>1. calls = NoCalls /\ page = "profile" /\ \E v : seen = [account |-> Fetching(v)]
    BY <1>10 DEF ProfileInit
  <2>2. PICK v, q : q = Fetching(v) /\ seen = [account |-> q]
    BY <2>1
  <2>3. DOMAIN seen = {"account"} /\ seen = [k \in DOMAIN seen |-> seen[k]] /\ seen["account"] = q
    BY <2>2
  <2>4. "account" \in KeysOf(page)
    BY <2>1 DEF KeysOf
  <2> QED BY <2>1, <2>2, <2>3, <2>4, OpensOneQuery
<1>11. CASE HomeInit
  <2>1. calls = NoCalls /\ page = "home" /\ \E v : seen = [notices |-> Fetching(v)]
    BY <1>11 DEF HomeInit
  <2>2. PICK v, q : q = Fetching(v) /\ seen = [notices |-> q]
    BY <2>1
  <2>3. DOMAIN seen = {"notices"} /\ seen = [k \in DOMAIN seen |-> seen[k]] /\ seen["notices"] = q
    BY <2>2
  <2>4. "notices" \in KeysOf(page)
    BY <2>1 DEF KeysOf
  <2> QED BY <2>1, <2>2, <2>3, <2>4, OpensOneQuery
<1> QED BY <1>1, <1>2, <1>3, <1>4, <1>5, <1>6, <1>7, <1>8, <1>9, <1>10, <1>11

LEMMA OthersOpen ==
    ASSUME \/ NewLoyaltyInit \/ NewCampaignInit \/ CampaignDetailInit \/ SettingsInit \/ SetupInit
           \/ TabInit \/ GroupInit \/ ContactInit \/ BusinessInit \/ HeroesInit \/ QrInit \/ WalletInit
    PROVE  Opened
<1>1. CASE NewLoyaltyInit \/ NewCampaignInit
  <2>1. calls = NoCalls /\ page \in {"loyaltyNew", "campaignNew"} /\ seen = <<>>
    BY <1>1 DEF NewLoyaltyInit, NewCampaignInit
  <2>2. DOMAIN seen = {} /\ seen = [k \in DOMAIN seen |-> seen[k]] /\ RowsOK(page, srv)
    BY <2>1 DEF RowsOK
  <2> QED BY <2>1, <2>2, OpensFetching
<1>2. CASE CampaignDetailInit
  <2>1. calls = NoCalls /\ page \in {"campaignDetail", "campaignPost"} /\ RowsOK(page, srv)
    BY <1>2 DEF CampaignDetailInit, RowsOK
  <2>2. \/ seen = [detail |-> Fetching(None)]
        \/ seen = [detail |-> Fetching(None), post |-> [Cached(None) EXCEPT !.stale = TRUE]]
    BY <1>2 DEF CampaignDetailInit
  <2> DEFINE q == Fetching(None)
             r == [Cached(None) EXCEPT !.stale = TRUE]
  <2>3. seen = [detail |-> q] \/ seen = [detail |-> q, post |-> r]
    BY <2>2
  <2> HIDE DEF q, r
  <2>4. /\ DOMAIN seen \subseteq {"detail", "post"} /\ seen = [k \in DOMAIN seen |-> seen[k]]
        /\ \A k \in DOMAIN seen : seen[k] = q \/ seen[k] = r
    BY <2>3
  <2>5. DOMAIN seen \subseteq KeysOf(page)
    BY <2>1, <2>4 DEF KeysOf
  <2> USE DEF q, r
  <2> QED BY <2>1, <2>4, <2>5, OpensFetching
<1>3. CASE SettingsInit
  <2>1. calls = NoCalls /\ page = "settings" /\ seen = [me |-> Fetching(None)]
    BY <1>3 DEF SettingsInit
  <2>2. /\ DOMAIN seen \subseteq {"me"} /\ seen = [k \in DOMAIN seen |-> seen[k]]
        /\ \A k \in DOMAIN seen : seen[k] = Fetching(None)
    BY <2>1
  <2>3. RowsOK(page, srv) /\ DOMAIN seen \subseteq KeysOf(page)
    BY <2>1, <2>2 DEF RowsOK, KeysOf
  <2> QED BY <2>1, <2>2, <2>3, OpensFetching
<1>4. CASE SetupInit
  <2>1. calls = NoCalls /\ page = "setup" /\ (seen = [catalog |-> Fetching(None)] \/ seen = [gallery |-> Fetching(None)])
    BY <1>4 DEF SetupInit
  <2>2. /\ DOMAIN seen \subseteq {"catalog", "gallery"} /\ seen = [k \in DOMAIN seen |-> seen[k]]
        /\ \A k \in DOMAIN seen : seen[k] = Fetching(None)
    BY <2>1
  <2>3. RowsOK(page, srv) /\ DOMAIN seen \subseteq KeysOf(page)
    BY <2>1, <2>2 DEF RowsOK, KeysOf
  <2> QED BY <2>1, <2>2, <2>3, OpensFetching
<1>5. CASE TabInit
  <2>1. calls = NoCalls /\ page = "tab" /\ seen = [feed |-> Fetching(None), summary |-> Fetching(None)]
    BY <1>5 DEF TabInit
  <2>2. /\ DOMAIN seen = {"feed", "summary"} /\ seen = [k \in DOMAIN seen |-> seen[k]]
        /\ \A k \in DOMAIN seen : seen[k] = Fetching(None)
    BY <2>1
  <2>3. RowsOK(page, srv) /\ DOMAIN seen = KeysOf(page)
    BY <2>1, <2>2 DEF RowsOK, KeysOf
  <2> QED BY <2>1, <2>2, <2>3, OpensFetching
<1>6. CASE BusinessInit
  <2>1. calls = NoCalls /\ page = "business" /\ seen = [business |-> Fetching(None), bloyalty |-> Fetching(None)]
    BY <1>6 DEF BusinessInit
  <2>2. /\ DOMAIN seen \subseteq {"business", "bloyalty"} /\ seen = [k \in DOMAIN seen |-> seen[k]]
        /\ \A k \in DOMAIN seen : seen[k] = Fetching(None)
    BY <2>1
  <2>3. RowsOK(page, srv) /\ DOMAIN seen \subseteq KeysOf(page)
    BY <2>1, <2>2 DEF RowsOK, KeysOf
  <2> QED BY <2>1, <2>2, <2>3, OpensFetching
<1>7. CASE HeroesInit
  <2>1. calls = NoCalls /\ page = "heroes" /\ seen = [k \in HomeKeys |-> Fetching(None)]
    BY <1>7 DEF HeroesInit
  <2>2. /\ DOMAIN seen \subseteq HomeKeys /\ seen = [k \in DOMAIN seen |-> seen[k]]
        /\ \A k \in DOMAIN seen : seen[k] = Fetching(None)
    BY <2>1
  <2>3. RowsOK(page, srv) /\ DOMAIN seen \subseteq KeysOf(page)
    BY <2>1, <2>2 DEF RowsOK, KeysOf
  <2> QED BY <2>1, <2>2, <2>3, OpensFetching
<1>8. CASE WalletInit
  <2>1. /\ calls = NoCalls /\ page = "wallet" /\ seen = [k \in {"cards", "vouchers", "cwallet"} |-> Fetching(None)]
        /\ srv = [cards |-> "ready", vouchers |-> "none", cwallet |-> "active"]
    BY <1>8 DEF WalletInit
  <2>2. RowsOK(page, srv) /\ DOMAIN seen \subseteq KeysOf(page)
    BY <2>1 DEF RowsOK, KeysOf
  <2> QED BY <2>1, <2>2, OpensFetching
<1>9. CASE GroupInit
  <2>1. calls = NoCalls /\ page = "group" /\ \E v : seen = [mygroups |-> Fetching(v), session |-> [Cached(None) EXCEPT !.stale = TRUE]]
    BY <1>9 DEF GroupInit
  <2>2. PICK v : seen = [mygroups |-> Fetching(v), session |-> [Cached(None) EXCEPT !.stale = TRUE]]
    BY <2>1
  <2> DEFINE q == Fetching(v)
             r == [Cached(None) EXCEPT !.stale = TRUE]
  <2>3. seen = [mygroups |-> q, session |-> r]
    BY <2>2
  <2> HIDE DEF q, r
  <2>4. /\ DOMAIN seen = {"mygroups", "session"} /\ seen = [k \in DOMAIN seen |-> seen[k]]
        /\ \A k \in DOMAIN seen : seen[k] = q \/ seen[k] = r
    BY <2>3
  <2>5. RowsOK(page, srv) /\ DOMAIN seen \subseteq KeysOf(page)
    BY <2>1, <2>4 DEF RowsOK, KeysOf
  <2> USE DEF q, r
  <2> QED BY <2>1, <2>4, <2>5, OpensFetching
<1>10. CASE ContactInit
  <2>1. calls = NoCalls /\ page = "contact" /\ \E v : seen = [me |-> Cached(v)] \/ seen = [me |-> Fetching(v)]
    BY <1>10 DEF ContactInit
  <2>2. PICK v, q : seen = [me |-> q] /\ (q = Cached(v) \/ q = Fetching(v))
    BY <2>1
  <2>3. DOMAIN seen = {"me"} /\ seen = [k \in DOMAIN seen |-> seen[k]] /\ seen["me"] = q
    BY <2>2
  <2>4. RowsOK(page, srv) /\ DOMAIN seen \subseteq KeysOf(page) /\ "me" \in WrittenKeys
    BY <2>1, <2>3 DEF RowsOK, KeysOf, WrittenKeys
  <2> QED BY <2>1, <2>2, <2>3, <2>4, OpensFetching
<1>11. CASE QrInit
  <2>1. /\ calls = NoCalls /\ page = "qr"
        /\ \E ks \in SUBSET {"qr", "visits"} : seen = [k \in ks |-> Fetching(None)]
    BY <1>11 DEF QrInit
  <2>2. /\ DOMAIN seen \subseteq {"qr", "visits"} /\ seen = [k \in DOMAIN seen |-> seen[k]]
        /\ \A k \in DOMAIN seen : seen[k] = Fetching(None)
    BY <2>1
  <2>3. RowsOK(page, srv) /\ DOMAIN seen \subseteq KeysOf(page)
    BY <2>1, <2>2 DEF RowsOK, KeysOf
  <2> QED BY <2>1, <2>2, <2>3, OpensFetching
<1> QED BY <1>1, <1>2, <1>3, <1>4, <1>5, <1>6, <1>7, <1>8, <1>9, <1>10, <1>11

\* The wizard opens with what the server said.
LEMMA OnboardingOpens == ASSUME OnboardingInit PROVE Opened
<1>1. calls = NoCalls /\ page = "onboarding"
  BY DEF OnboardingInit
<1> DEFINE q == Cached(srv.logo)
           r == Cached(OnboardingState(srv))
<1>2. seen = [me |-> q, state |-> r]
  BY DEF OnboardingInit
<1>3. QueryOK(q) /\ QueryOK(r) /\ r.data = OnboardingState(srv) /\ r.fetch = "no"
  BY LiteralQueries
<1> HIDE DEF q, r
<1>4. DOMAIN seen = {"me", "state"} /\ seen = [k \in DOMAIN seen |-> seen[k]] /\ seen["me"] = q /\ seen["state"] = r
  BY <1>2
<1>5. \A k \in DOMAIN seen : OpensWith(k)
  BY <1>1, <1>3, <1>4 DEF OpensWith, WrittenKeys
<1>6. RowsOK(page, srv) /\ DOMAIN seen \subseteq KeysOf(page)
  BY <1>1, <1>4 DEF RowsOK, KeysOf
<1> QED BY <1>1, <1>4, <1>5, <1>6, NoCallsSent DEF Opened

LEMMA NearbyOpens == ASSUME NearbyInit PROVE Opened
<1>1. PICK i \in CallIds : calls = [NoCalls EXCEPT ![i] = [NoCall EXCEPT !.op = "locate", !.at = "map"]]
  BY DEF NearbyInit
<1>2. ASSUME NEW c, c = [NoCall EXCEPT !.op = "locate", !.at = "map"]
      PROVE  c = [op |-> "locate", at |-> "map", arg |-> None, phase |-> "sent", row |-> None]
  BY <1>2 DEF NoCall
<1>3. calls = [NoCalls EXCEPT ![i] = [op |-> "locate", at |-> "map", arg |-> None, phase |-> "sent", row |-> None]]
  BY <1>1, <1>2
<1>4. page = "nearby" /\ OpsOf(page) = {"locate"}
  BY DEF NearbyInit, OpsOf
<1>5. CallsOK(calls, OpsOf(page)) /\ \A j \in CallIds : calls[j].phase = "sent"
  BY <1>3, <1>4 DEF NoCalls, NoCall, CallsOK, CallOK, Components
<1>6. seen = [k \in NearbyKeys |-> IF k = "all" THEN Fetching(None) ELSE [Cached(None) EXCEPT !.stale = TRUE]]
  BY DEF NearbyInit
<1>7. /\ DOMAIN seen = NearbyKeys /\ seen = [k \in DOMAIN seen |-> seen[k]]
      /\ \A k \in DOMAIN seen : seen[k] = Fetching(None) \/ seen[k] = [Cached(None) EXCEPT !.stale = TRUE]
  BY <1>6
<1>8. ASSUME NEW k \in DOMAIN seen PROVE OpensWith(k)
  <2> QED BY <1>7, OpensStale
<1>9. RowsOK(page, srv) /\ DOMAIN seen \subseteq KeysOf(page)
  BY <1>4, <1>7 DEF RowsOK, KeysOf
<1> QED BY <1>4, <1>5, <1>7, <1>8, <1>9 DEF Opened

LEMMA Opens == ASSUME Init PROVE Opened
BY OneQueryOpens, OthersOpen, OnboardingOpens, NearbyOpens DEF Init

LEMMA OrderlyInit == ASSUME Init PROVE Orderly
<1>1. Opened /\ page \in OpenPages
  BY Opens DEF Init
<1> QED BY <1>1 DEF Opened, OpensWith, Orderly, QueriesOK

\* Every step is one of these.
LEMMA NextSteps ==
    ASSUME Orderly, Next
    PROVE  \/ page # "left" /\ PageStep
           \/ \E i \in CallIds : HandleStep(i)
           \/ \E i \in CallIds : AnswerStep(i) /\ calls[i].op # "none"
           \/ \E k \in DOMAIN seen : FetchStep(k)
<1>1. CASE Pages
  <2>1. page = "tab" => "feed" \in DOMAIN seen
    BY DEF Orderly, KeysOf
  <2>2. page # "left"
    BY <1>1 DEF Pages
  <2> QED BY <1>1, <2>1, <2>2, PageSteps, FeedSteps
<1>2. ASSUME NEW i \in CallIds, Handle(i) \/ Answer(i) PROVE HandleStep(i) \/ (AnswerStep(i) /\ calls[i].op # "none")
  BY <1>2, HandleSteps, AnswerSteps
<1>3. ASSUME NEW k \in DOMAIN seen, Fetch(k) \/ FetchFails(k) \/ Refetch(k) PROVE FetchStep(k)
  BY <1>3, FetchSteps
<1> QED BY <1>1, <1>2, <1>3 DEF Next


LEMMA OrderlyNext == ASSUME Orderly, [Next]_pageVars PROVE Orderly'
<1>1. CASE page # "left" /\ Proceeds
  BY <1>1 DEF Proceeds, Requeried, Orderly
<1>2. CASE page # "left" /\ Changes
  BY <1>2, MissedKept DEF Changes, Orderly
<1>3. CASE Leaves
  BY <1>3 DEF Leaves, Orderly, OpsOf, KeysOf, RowsOK
<1>4. ASSUME NEW i \in CallIds, HandleStep(i) PROVE Orderly'
  <2>1. page' = page /\ seen' = seen /\ RowsOK(page, srv') /\ calls[i].op # "none"
    BY <1>4 DEF HandleStep
  <2>2. PICK ph, r : ph \in {"row", "ok"} /\ calls' = [calls EXCEPT ![i].phase = ph, ![i].row = r]
    BY <1>4 DEF HandleStep
  <2>3. CallsOK(calls', OpsOf(page))
    <3> DEFINE c == calls[i]
    <3>1. CallOK(c, OpsOf(page)) /\ c # NoCall
      BY <2>1 DEF Orderly, CallsOK, NoCall
    <3>2. ASSUME NEW d, d = [c EXCEPT !.phase = ph, !.row = r] PROVE CallOK(d, OpsOf(page))
      <4>1. d = [op |-> c.op, at |-> c.at, arg |-> c.arg, phase |-> ph, row |-> r]
        <5> HIDE DEF c
        <5> QED BY <3>1, <3>2 DEF CallOK
      <4> QED BY <2>2, <3>1, <4>1 DEF CallOK
    <3>3. calls' = [calls EXCEPT ![i] = [c EXCEPT !.phase = ph, !.row = r]]
      BY <2>2
    <3> HIDE DEF c
    <3> QED BY <3>2, <3>3 DEF Orderly, CallsOK
  <2>4. page = "left" => DOMAIN seen = {} \/ calls' = NoCalls
    <3>1. page = "left" => DOMAIN seen = {}
      BY <2>1 DEF Orderly, NoCalls, NoCall
    <3> QED BY <3>1
  <2> QED BY <2>1, <2>3, <2>4 DEF Orderly
<1>5. ASSUME NEW i \in CallIds, AnswerStep(i) PROVE Orderly'
  BY <1>5 DEF AnswerStep, AnsweredCalls, AnsweredQueries, Orderly
<1>6. ASSUME NEW k \in DOMAIN seen, FetchStep(k) PROVE Orderly'
  <2>1. /\ page' = page /\ srv' = srv /\ CallsOK(calls', OpsOf(page))
        /\ QueriesOK(seen') /\ DOMAIN seen' = DOMAIN seen
        /\ calls = NoCalls => calls' = NoCalls
    BY <1>6 DEF FetchStep
  <2> QED BY <2>1 DEF Orderly
<1>7. CASE UNCHANGED pageVars
  BY <1>7 DEF pageVars, Orderly
<1> QED BY <1>1, <1>2, <1>3, <1>4, <1>5, <1>6, <1>7, NextSteps DEF PageStep

-----------------------------------------------------------------------------
(* What is cached is current once everything has been answered. *)

\* A handler has changed what the query shows, and its answer is still to come.
Covered(k) == \E i \in CallIds : calls[i].phase = "ok" /\ Touches(calls[i].op, k)

\* What is cached and what was read of it are the server's.
Current(k) ==
    /\ seen[k].fetch = "no" /\ ~ seen[k].stale /\ ~ seen[k].bad => Shows(k, seen[k].data)
    /\ seen[k].fetch = "read" => Shows(k, seen[k].got)
    /\ k = "feed" /\ seen[k].fetch = "listed" => seen[k].got = (srv.status \in JoinedStatuses)

FreshOne(k) == Covered(k) \/ seen[k].missed = TRUE \/ Current(k)

Fresh == \A k \in DOMAIN seen \ WrittenKeys : FreshOne(k)

FreshInv == Orderly /\ Fresh

\* What a query shows depends on the rows only, and on the page for one of them.
LEMMA ViewKept ==
    ASSUME NEW k, srv' = srv, page' = page \/ k # "state"
    PROVE  View(k)' = View(k)
<1>1. CASE page' = page
  BY <1>1 DEF View, SocialPost, OnboardingState, missingFields, required_fields, FeedView, feed_for_customer, CampaignProgress,
              MyGroupsView, PublicBusinessListView, HomeView, PatchesView
<1>2. CASE k # "state"
  BY <1>2 DEF View, SocialPost, OnboardingState, missingFields, FeedView, feed_for_customer, CampaignProgress,
              MyGroupsView, PublicBusinessListView, HomeView, PatchesView
<1> QED BY <1>1, <1>2

LEMMA ShowsKept ==
    ASSUME NEW k, srv' = srv, page' = page \/ k # "state", NEW data
    PROVE  Shows(k, data)' <=> Shows(k, data)
BY ViewKept DEF Shows

\* A query that is kept, or begins to be fetched, is as current as it was.
LEMMA CurrentKept ==
    ASSUME NEW k \in DOMAIN seen, Resent(seen[k], seen'[k]), QueryOK(seen[k]),
           srv' = srv, page' = page \/ k # "state", Current(k)
    PROVE  Current(k)'
<1>1. CASE seen'[k] = seen[k]
  <2>1. PICK d, g : d = seen[k].data /\ g = seen[k].got
    OBVIOUS
  <2>2. d = seen'[k].data /\ g = seen'[k].got
    BY <1>1, <2>1
  <2>3. (Shows(k, d)' <=> Shows(k, d)) /\ (Shows(k, g)' <=> Shows(k, g))
    BY ShowsKept
  <2>4. seen[k].fetch = "no" /\ ~ seen[k].stale /\ ~ seen[k].bad => Shows(k, d)'
    BY <2>1, <2>3 DEF Current
  <2>5. seen[k].fetch = "read" => Shows(k, g)'
    BY <2>1, <2>3 DEF Current
  <2> QED BY <1>1, <2>2, <2>4, <2>5 DEF Current
<1>2. CASE seen'[k] # seen[k]
  <2>1. seen'[k].fetch = "sent"
    BY <1>2 DEF Resent, QueryOK
  <2> QED BY <2>1 DEF Current
<1> QED BY <1>1, <1>2

LEMMA MissedResent ==
    ASSUME NEW k \in DOMAIN seen, Resent(seen[k], seen'[k]), QueryOK(seen[k]), seen[k].missed = TRUE
    PROVE  seen'[k].missed = TRUE
BY DEF Resent, QueryOK

LEMMA CoveredKept == ASSUME NEW k, Covered(k), OkKept(calls') PROVE Covered(k)'
BY DEF Covered, OkKept

LEMMA FreshKept ==
    ASSUME Orderly, NEW k \in DOMAIN seen, Resent(seen[k], seen'[k]), OkKept(calls'),
           srv' = srv, page' = page \/ k # "state", FreshOne(k)
    PROVE  FreshOne(k)'
<1>1. QueryOK(seen[k])
  BY DEF Orderly, QueriesOK
<1> QED BY <1>1, CurrentKept, MissedResent, CoveredKept DEF FreshOne

LEMMA FreshHandled ==
    ASSUME Orderly, NEW i \in CallIds, HandleStep(i), NEW k \in DOMAIN seen \ WrittenKeys, FreshOne(k)
    PROVE  FreshOne(k)'
<1>1. page' = page /\ seen' = seen /\ calls[i].op # "none"
  BY DEF HandleStep
<1>2. OkKept(calls')
  BY DEF HandleStep, OkKept, Orderly, CallsOK
<1>3. CASE srv' = srv
  BY <1>1, <1>2, <1>3, FreshKept DEF Resent
<1>4. CASE srv' # srv /\ Touches(calls[i].op, k)
  <2>1. calls'[i].phase = "ok" /\ calls'[i].op = calls[i].op
    BY <1>4 DEF HandleStep, Orderly, CallsOK, CallOK, NoCall
  <2>2. Touches(calls'[i].op, k)
    BY <1>4, <2>1
  <2> QED BY <2>1, <2>2 DEF FreshOne, Covered
<1>5. CASE srv' # srv /\ ~ Touches(calls[i].op, k)
  <2>1. \A data : Shows(k, data) => Shows(k, data)'
    BY <1>5 DEF HandleStep
  <2>2. k # "feed"
    <3>1. ASSUME k = "feed" PROVE FALSE
      <4>1. page = "tab"
        BY <3>1 DEF Orderly, KeysOf, NearbyKeys, HomeKeys
      <4>2. calls[i].op = "join"
        BY <1>1, <4>1, OpOfPage DEF OpsOf
      <4> QED BY <1>5, <4>2 DEF Touches
    <3> QED BY <3>1
  <2>3. Current(k) => Current(k)'
    <3>1. PICK d, g : d = seen[k].data /\ g = seen[k].got
      OBVIOUS
    <3>2. (Shows(k, d) => Shows(k, d)') /\ (Shows(k, g) => Shows(k, g)')
      BY <2>1
    <3>3. d = seen'[k].data /\ g = seen'[k].got
      BY <1>1, <3>1
    <3>4. Current(k) => (seen[k].fetch = "no" /\ ~ seen[k].stale /\ ~ seen[k].bad => Shows(k, d)')
      BY <3>1, <3>2 DEF Current
    <3>5. Current(k) => (seen[k].fetch = "read" => Shows(k, g)')
      BY <3>1, <3>2 DEF Current
    <3> QED BY <1>1, <2>2, <3>3, <3>4, <3>5 DEF Current
  <2> QED BY <1>1, <1>2, <2>3, CoveredKept DEF FreshOne
<1> QED BY <1>3, <1>4, <1>5

LEMMA FreshAnswered ==
    ASSUME Orderly, NEW i \in CallIds, AnswerStep(i), calls[i].op # "none", NEW k \in DOMAIN seen \ WrittenKeys,
           FreshOne(k)
    PROVE  FreshOne(k)'
<1>1. page' = page /\ srv' = srv
  BY DEF AnswerStep
<1>2. QueryOK(seen[k]) /\ QueryOK(seen'[k])
  BY DEF Orderly, QueriesOK, AnswerStep, AnsweredQueries
<1>3. CASE Renewed(k, seen'[k])
  <2>1. ~ seen'[k].missed => seen'[k].fetch # "read"
    BY <1>3 DEF Renewed
  <2> QED BY <1>2, <1>3, <2>1 DEF Renewed, FreshOne, Current, QueryOK
<1>4. CASE seen'[k].missed = TRUE
  BY <1>4 DEF FreshOne
<1>5. CASE (~ Touches(calls[i].op, k) \/ calls[i].phase # "ok") /\ Resent(seen[k], seen'[k])
  <2>1. Covered(k) => Covered(k)'
    <3>1. ASSUME NEW j \in CallIds, calls[j].phase = "ok", Touches(calls[j].op, k) PROVE Covered(k)'
      <4>1. j # i
        BY <1>5, <3>1
      <4>2. calls'[j].phase = "ok" /\ calls'[j].op = calls[j].op
        BY <3>1, <4>1 DEF AnswerStep, AnsweredCalls
      <4> QED BY <3>1, <4>2 DEF Covered
    <3> QED BY <3>1 DEF Covered
  <2> QED BY <1>1, <1>2, <1>5, <2>1, CurrentKept, MissedResent DEF FreshOne
<1> QED BY <1>3, <1>4, <1>5 DEF AnswerStep, AnsweredQueries

\* What a fetch has read is the server's.
LEMMA ReadShows == ASSUME Orderly, NEW k \in DOMAIN seen \ WrittenKeys PROVE Shows(k, View(k))
<1>1. CASE k = "detail"
  <2>1. page \in {"campaignDetail", "campaignPost"}
    BY <1>1 DEF Orderly, KeysOf, NearbyKeys, HomeKeys
  <2>2. srv = [f \in DOMAIN srv |-> srv[f]] /\ "voucher" \in DOMAIN srv
    BY <2>1 DEF Orderly, RowsOK
  <2>3. View(k) = srv
    BY <1>1 DEF View, NearbyKeys, HomeKeys
  <2>4. [srv EXCEPT !.voucher = srv.voucher] = srv
    BY <2>2
  <2> QED BY <1>1, <2>3, <2>4 DEF Shows
<1>2. CASE k # "detail"
  BY <1>2 DEF Shows
<1> QED BY <1>1, <1>2

\* A query that shows something shows it.
LEMMA CurrentMade ==
    ASSUME NEW k, NEW d, NEW g, seen'[k].data = d, seen'[k].got = g,
           \/ seen'[k].fetch = "sent"
           \/ seen'[k].bad = TRUE /\ seen'[k].fetch = "no"
           \/ seen'[k].fetch = "no" /\ Shows(k, d)'
           \/ seen'[k].fetch = "read" /\ Shows(k, g)'
           \/ seen'[k].fetch = "listed" /\ g = (srv'.status \in JoinedStatuses)
    PROVE  Current(k)'
BY DEF Current

LEMMA FreshFetched ==
    ASSUME Orderly, NEW i \in DOMAIN seen, FetchStep(i), NEW k \in DOMAIN seen \ WrittenKeys, FreshOne(k)
    PROVE  FreshOne(k)'
<1>1. page' = page /\ srv' = srv /\ OkKept(calls')
  BY DEF FetchStep
<1>2. CASE k # i
  BY <1>1, <1>2, FreshKept DEF FetchStep, Resent
<1>3. CASE k = i
  <2> DEFINE q == seen[k]
  <2>1. QueryOK(q)
    BY DEF Orderly, QueriesOK
  <2>2. Covered(k) => Covered(k)'
    BY <1>1, CoveredKept
  <2>3. ASSUME NEW d PROVE Shows(k, d)' <=> Shows(k, d)
    BY <1>1, ShowsKept
  <2>4. CASE seen'[k] = ReadQuery(q, View(k))
    <3>1. PICK v : v = View(k)
      OBVIOUS
    <3>2. seen'[k].got = v /\ seen'[k].fetch = "read" /\ Shows(k, v)
      BY <2>4, <3>1, ReadShows DEF ReadQuery
    <3> QED BY <2>3, <3>2, CurrentMade DEF FreshOne
  <2>5. CASE seen'[k] = ListedQuery(q, srv.status \in JoinedStatuses)
    <3>1. seen'[k].got = (srv'.status \in JoinedStatuses) /\ seen'[k].fetch = "listed"
      BY <1>1, <2>5 DEF ListedQuery
    <3> QED BY <3>1, CurrentMade DEF FreshOne
  <2>6. CASE seen'[k] = FeedReadQuery(q, feed_for_customer(q.got)) /\ q.fetch = "listed" /\ k = "feed"
    <3>1. PICK v : v = feed_for_customer(q.got)
      OBVIOUS
    <3>2. seen'[k].got = v /\ seen'[k].fetch = "read" /\ seen'[k].missed = q.missed
      BY <2>6, <3>1 DEF FeedReadQuery
    <3>3. ASSUME Current(k) PROVE Current(k)'
      <4>1. q.got = (srv.status \in JoinedStatuses)
        BY <2>6, <3>3 DEF Current
      <4>2. v = View(k)
        BY <2>6, <3>1, <4>1 DEF View, FeedView, NearbyKeys, HomeKeys
      <4>3. Shows(k, v)
        BY <4>2, ReadShows
      <4> QED BY <2>3, <3>2, <4>3, CurrentMade
    <3> QED BY <2>2, <3>2, <3>3 DEF FreshOne
  <2>7. CASE seen'[k] = ArrivedQuery(q) /\ q.fetch = "read"
    <3>1. PICK v : v = q.got
      OBVIOUS
    <3>2. seen'[k].data = v /\ seen'[k].fetch = "no" /\ seen'[k].missed = q.missed
      BY <2>7, <3>1 DEF ArrivedQuery
    <3>3. ASSUME Current(k) PROVE Current(k)'
      <4>1. Shows(k, v)
        BY <2>7, <3>1, <3>3 DEF Current
      <4> QED BY <2>3, <3>2, <4>1, CurrentMade
    <3> QED BY <2>2, <3>2, <3>3 DEF FreshOne
  <2>8. CASE seen'[k] = FailedQuery(q)
    <3>1. seen'[k].bad = TRUE /\ seen'[k].fetch = "no"
      BY <2>8 DEF FailedQuery
    <3> QED BY <3>1, CurrentMade DEF FreshOne
  <2>9. CASE seen'[k] = SentQuery(q)
    <3>1. seen'[k].fetch = "sent"
      BY <2>9 DEF SentQuery
    <3> QED BY <3>1 DEF FreshOne, Current
  <2>10. \/ seen'[k] = ReadQuery(q, View(k))
         \/ seen'[k] = ListedQuery(q, srv.status \in JoinedStatuses)
         \/ seen'[k] = FeedReadQuery(q, feed_for_customer(q.got)) /\ q.fetch = "listed" /\ k = "feed"
         \/ seen'[k] = ArrivedQuery(q) /\ q.fetch = "read"
         \/ seen'[k] = FailedQuery(q)
         \/ seen'[k] = SentQuery(q)
    BY <1>3 DEF FetchStep
  <2> HIDE DEF q
  <2> QED BY <2>4, <2>5, <2>6, <2>7, <2>8, <2>9, <2>10
<1> QED BY <1>2, <1>3

LEMMA FreshNext == ASSUME FreshInv, [Next]_pageVars PROVE FreshInv'
<1>0. Orderly /\ Fresh /\ Orderly'
  BY OrderlyNext DEF FreshInv
<1>1. CASE Proceeds
  <2>1. DOMAIN seen' = DOMAIN seen
    BY <1>1 DEF Proceeds, Requeried
  <2>2. ASSUME NEW k \in DOMAIN seen \ WrittenKeys PROVE FreshOne(k)'
    <3>1. FreshOne(k)
      BY <1>0 DEF Fresh
    <3> QED BY <1>0, <1>1, <3>1, FreshKept DEF Proceeds, Requeried
  <2> QED BY <1>0, <2>1, <2>2 DEF Fresh, FreshInv
<1>2. CASE Changes
  <2>1. seen' = MissedBy(seen) /\ QueriesOK(seen)
    BY <1>0, <1>2 DEF Changes, Orderly
  <2>2. DOMAIN seen' = DOMAIN seen /\ \A k \in DOMAIN seen \ WrittenKeys : seen'[k].missed = TRUE
    BY <2>1, MissedKept
  <2> QED BY <1>0, <2>2 DEF Fresh, FreshInv, FreshOne
<1>3. CASE Leaves
  <2>1. seen' = seen /\ srv' = srv /\ OkKept(calls')
    BY <1>3 DEF Leaves
  <2>2. "state" \notin DOMAIN seen
    BY <1>0, <1>3 DEF Leaves, Orderly, KeysOf, HomeKeys
  <2>3. ASSUME NEW k \in DOMAIN seen \ WrittenKeys PROVE FreshOne(k)'
    <3>1. FreshOne(k)
      BY <1>0 DEF Fresh
    <3> QED BY <1>0, <2>1, <2>2, <3>1, FreshKept DEF Resent
  <2> QED BY <1>0, <2>1, <2>3 DEF Fresh, FreshInv
<1>4. ASSUME NEW i \in CallIds, HandleStep(i) PROVE FreshInv'
  <2>1. seen' = seen
    BY <1>4 DEF HandleStep
  <2> QED BY <1>0, <1>4, <2>1, FreshHandled DEF Fresh, FreshInv
<1>5. ASSUME NEW i \in CallIds, AnswerStep(i), calls[i].op # "none" PROVE FreshInv'
  <2>1. DOMAIN seen' = DOMAIN seen
    BY <1>5 DEF AnswerStep, AnsweredQueries
  <2> QED BY <1>0, <1>5, <2>1, FreshAnswered DEF Fresh, FreshInv
<1>6. ASSUME NEW i \in DOMAIN seen, FetchStep(i) PROVE FreshInv'
  <2>1. DOMAIN seen' = DOMAIN seen
    BY <1>6 DEF FetchStep
  <2> QED BY <1>0, <1>6, <2>1, FreshFetched DEF Fresh, FreshInv
<1>7. CASE UNCHANGED pageVars
  <2>1. seen' = seen /\ srv' = srv /\ page' = page /\ OkKept(calls')
    BY <1>7 DEF pageVars, OkKept
  <2>2. ASSUME NEW k \in DOMAIN seen \ WrittenKeys PROVE FreshOne(k)'
    <3>1. FreshOne(k)
      BY <1>0 DEF Fresh
    <3> QED BY <1>0, <2>1, <3>1, FreshKept DEF Resent
  <2> QED BY <1>0, <2>1, <2>2 DEF Fresh, FreshInv
<1> QED BY <1>0, <1>1, <1>2, <1>3, <1>4, <1>5, <1>6, <1>7, NextSteps DEF PageStep

LEMMA FreshInit == ASSUME Init PROVE FreshInv
<1>1. Orderly /\ Opened
  BY OrderlyInit, Opens
<1>2. ASSUME NEW k \in DOMAIN seen \ WrittenKeys PROVE Current(k)
  <2>1. QueryOK(seen[k]) /\ OpensWith(k)
    BY <1>1 DEF Opened, OpensWith
  <2>2. CASE seen[k].stale = TRUE /\ seen[k].fetch \in {"sent", "no"}
    BY <2>2 DEF Current
  <2>3. CASE k = "state" /\ page = "onboarding" /\ seen[k].data = OnboardingState(srv) /\ seen[k].fetch = "no"
    <3>1. View(k) = OnboardingState(srv)
      BY <2>3 DEF View, NearbyKeys, HomeKeys
    <3>2. Shows(k, seen[k].data)
      BY <2>3, <3>1 DEF Shows
    <3> QED BY <2>3, <3>2 DEF Current
  <2> QED BY <2>1, <2>2, <2>3 DEF OpensWith
<1> QED BY <1>1, <1>2 DEF FreshInv, Fresh, FreshOne

LEMMA AlwaysFresh == Spec => []FreshInv
<1>1. Init => FreshInv
  BY FreshInit
<1>2. FreshInv /\ [Next]_pageVars => FreshInv'
  BY FreshNext
<1> QED BY <1>1, <1>2, PTL DEF Spec

LEMMA OpsOfPages == ASSUME NEW p PROVE OpsOf(p) \subseteq Ops /\ "none" \in Ops
BY DEF OpsOf, Ops

LEMMA OrderlyTyped == ASSUME Orderly PROVE PagesTypeOK
<1>1. ASSUME NEW i \in CallIds
      PROVE  calls[i].op \in Ops /\ calls[i].at \in Components /\ calls[i].phase \in {"sent", "row", "ok"}
  <2>1. CallOK(calls[i], OpsOf(page))
    BY DEF Orderly, CallsOK
  <2> QED BY <2>1, OpsOfPages DEF CallOK, NoCall, Components
<1>2. ASSUME NEW k \in DOMAIN seen
      PROVE  /\ seen[k].stale \in BOOLEAN /\ seen[k].bad \in BOOLEAN /\ seen[k].missed \in BOOLEAN
             /\ seen[k].fetch \in {"no", "sent", "listed", "read"}
  BY DEF Orderly, QueriesOK, QueryOK
<1> QED BY <1>1, <1>2 DEF PagesTypeOK, Orderly

\* Nothing is under way, and a query that is not known to be old has missed
\* nothing: it shows what the server would answer, on every page and whatever
\* the order in which calls are served, answered and lost and fetches read and
\* arrive.  The calls and the cache are well-typed throughout.
THEOREM CacheIsCurrent == Spec => []SettledIsCurrent
<1>1. FreshInv => SettledIsCurrent
  <2> SUFFICES ASSUME FreshInv PROVE SettledIsCurrent
    OBVIOUS
  <2>1. Orderly /\ PagesTypeOK
    BY OrderlyTyped DEF FreshInv
  <2>2. ASSUME Quiet, NEW k \in DOMAIN seen, seen[k].fetch = "no", ~ seen[k].stale, ~ seen[k].bad, ~ seen[k].missed
        PROVE  Shows(k, seen[k].data)
    <3>1. CASE k \in WrittenKeys
      BY <3>1 DEF Shows, WrittenKeys
    <3>2. CASE k \notin WrittenKeys
      <4>1. ~ Covered(k)
        BY <2>2 DEF Quiet, NoCalls, NoCall, Covered
      <4>2. FreshOne(k)
        BY <3>2 DEF FreshInv, Fresh
      <4> QED BY <2>2, <4>1, <4>2 DEF FreshOne, Current
    <3> QED BY <3>1, <3>2
  <2> QED BY <2>1, <2>2 DEF SettledIsCurrent
<1> QED BY <1>1, AlwaysFresh, PTL

-----------------------------------------------------------------------------
(* Lemmas about calls, for the pages one at a time. *)

\* A page stays itself until it is left.
LEMMA PageStays == ASSUME Orderly, [Next]_pageVars, page' # "left" PROVE page' = page
<1>1. CASE UNCHANGED pageVars
  BY <1>1 DEF pageVars
<1>2. CASE Next
  BY <1>2, NextSteps DEF PageStep, Proceeds, Changes, Leaves, HandleStep, AnswerStep, FetchStep
<1> QED BY <1>1, <1>2

\* What a call that goes on keeps.
SameCall(c, d) == d.op = c.op /\ d.arg = c.arg /\ d.phase = c.phase /\ d.row = c.row /\ d.at \in {c.at, "gone"}

LEMMA CallMakes ==
    ASSUME NEW ops, NEW cs, CallsOK(cs, ops), NEW i \in CallIds, NEW op, NEW at, NEW arg,
           NEW ds, ds = Called(i, op, at, arg, cs)
    PROVE  /\ ds[i].op = op /\ ds[i].at = at /\ ds[i].arg = arg /\ ds[i].phase = "sent"
           /\ \A j \in CallIds \ {i} : /\ SameCall(cs[j], ds[j])
                                       /\ cs[j].op = op /\ cs[j].at = at => ds[j].at = "gone"
<1>1. ds[i].op = op /\ ds[i].at = at /\ ds[i].arg = arg /\ ds[i].phase = "sent"
  <2>1. ASSUME NEW d, d = [NoCall EXCEPT !.op = op, !.at = at, !.arg = arg]
        PROVE  d.op = op /\ d.at = at /\ d.arg = arg /\ d.phase = "sent"
    BY <2>1 DEF NoCall
  <2>2. ds[i] = [NoCall EXCEPT !.op = op, !.at = at, !.arg = arg]
    BY DEF Called
  <2> QED BY <2>1, <2>2
<1>2. ASSUME NEW j \in CallIds \ {i}, NEW c, c = cs[j], NEW d, d = ds[j]
      PROVE  SameCall(c, d) /\ (c.op = op /\ c.at = at => d.at = "gone")
  <2>1. CallOK(c, ops)
    BY <1>2 DEF CallsOK
  <2>2. CASE c.op = op /\ c.at = at
    <3>1. d = [c EXCEPT !.at = "gone"]
      BY <1>2, <2>2 DEF Called
    <3> QED BY <2>1, <3>1 DEF CallOK, NoCall, SameCall
  <2>3. CASE ~ (c.op = op /\ c.at = at)
    BY <1>2, <2>3 DEF Called, SameCall
  <2> QED BY <2>2, <2>3
<1> QED BY <1>1, <1>2

\* One more call, the others go on.
Sent(op, at, arg, cs, ds) ==
    \E i \in CallIds :
        /\ cs[i] = NoCall
        /\ ds[i].op = op /\ ds[i].at = at /\ ds[i].arg = arg /\ ds[i].phase = "sent"
        /\ \A j \in CallIds \ {i} : /\ SameCall(cs[j], ds[j])
                                    /\ cs[j].op = op /\ cs[j].at = at => ds[j].at = "gone"

LEMMA CallSends ==
    ASSUME Orderly, NEW op, NEW at, NEW arg, Call(op, at, arg)
    PROVE  Sent(op, at, arg, calls, calls')
<1>1. PICK i \in CallIds : calls[i] = NoCall /\ calls' = Called(i, op, at, arg, calls)
  BY DEF Call, Unused
<1>2. CallsOK(calls, OpsOf(page))
  BY DEF Orderly
<1> QED BY <1>1, <1>2, CallMakes DEF Sent

LEMMA SameCalls2 == ASSUME NEW cs, NEW ds, ds = cs PROVE \A j \in CallIds : SameCall(cs[j], ds[j])
BY DEF SameCall

LEMMA GoneMakes ==
    ASSUME Orderly, NEW ats
    PROVE  \A j \in CallIds : SameCall(calls[j], Gone(ats)[j])
<1>1. ASSUME NEW j \in CallIds, NEW c, c = calls[j], NEW d, d = Gone(ats)[j] PROVE SameCall(c, d)
  <2>1. CallOK(c, OpsOf(page))
    BY <1>1 DEF Orderly, CallsOK
  <2>2. d = c \/ d = [c EXCEPT !.at = "gone"]
    BY <1>1 DEF Gone
  <2> QED BY <2>1, <2>2 DEF CallOK, NoCall, SameCall
<1> QED BY <1>1

\* A handler changes the phase of its call, and keeps what was sent.
LEMMA HandledCalls ==
    ASSUME Orderly, NEW i \in CallIds, HandleStep(i)
    PROVE  /\ \A j \in CallIds : calls'[j].op = calls[j].op /\ calls'[j].arg = calls[j].arg /\ calls'[j].at = calls[j].at
           /\ \A j \in CallIds \ {i} : calls'[j] = calls[j]
<1>1. CallOK(calls[i], OpsOf(page)) /\ calls = [j \in CallIds |-> calls[j]] /\ calls[i].op # "none"
  BY DEF Orderly, CallsOK, HandleStep
<1>2. PICK ph, r : calls' = [calls EXCEPT ![i].phase = ph, ![i].row = r]
  BY DEF HandleStep
<1>3. ASSUME NEW c, c = calls[i], NEW d, d = [c EXCEPT !.phase = ph, !.row = r]
      PROVE  d.op = c.op /\ d.arg = c.arg /\ d.at = c.at
  BY <1>1, <1>3 DEF CallOK, NoCall
<1>4. calls'[i] = [calls[i] EXCEPT !.phase = ph, !.row = r] /\ \A j \in CallIds \ {i} : calls'[j] = calls[j]
  <2>1. PICK d : d = [calls[i] EXCEPT !.phase = ph, !.row = r]
    OBVIOUS
  <2>2. calls' = [calls EXCEPT ![i] = d]
    BY <1>2, <2>1
  <2>3. calls'[i] = d /\ \A j \in CallIds \ {i} : calls'[j] = calls[j]
    BY <1>1, <2>2
  <2> QED BY <2>1, <2>3
<1>5. calls'[i].op = calls[i].op /\ calls'[i].arg = calls[i].arg /\ calls'[i].at = calls[i].at
  BY <1>3, <1>4
<1> QED BY <1>4, <1>5

LEMMA HandleIsStep == ASSUME Orderly, NEW i \in CallIds, Handle(i) PROVE UNCHANGED <<page, ui, seen>>
BY HandleSteps DEF HandleStep

-----------------------------------------------------------------------------
(* The form that creates a campaign. *)

\* The page was told of a campaign, and no other is being created.
Told(s, cs) == s.campaigns = s.untold + 1 /\ \A j \in CallIds : cs[j].op # "createCampaign"

\* While a campaign is being created the form is submitting, and there is none but
\* those whose answer was lost; a photo is uploaded, or has failed, once the page
\* was told of one.
CreateOK(u, s, cs) ==
    /\ {"submitting", "failed", "leaving", "step", "type", "named", "rewarded", "fixed", "item", "photo"} \subseteq DOMAIN u
    /\ {"campaigns", "photo", "untold"} \subseteq DOMAIN s
    /\ s.untold \in Nat /\ s.campaigns \in {s.untold, s.untold + 1}
    /\ \A i, j \in CallIds : cs[i].op = "createCampaign" /\ cs[j].op = "createCampaign" => i = j
    /\ \A i \in CallIds : /\ cs[i].op = "createCampaign" =>
                                /\ u.submitting = TRUE
                                /\ cs[i].phase = "ok" => s.campaigns = s.untold + 1
                                /\ cs[i].phase # "ok" => s.campaigns = s.untold
                          /\ cs[i].op = "photo" => Told(s, cs)
                          /\ cs[i].op \in {"createCampaign", "photo", "none"}
    /\ u.failed => Told(s, cs)
    /\ ~ u.submitting /\ ~ u.failed /\ ~ u.leaving => s.campaigns = s.untold

CreateInv == page = "campaignNew" => CreateOK(ui, srv, calls)

CreateSees(u) == <<u.submitting, u.failed, u.leaving>>

LEMMA CreateUi ==
    ASSUME CreateOK(ui, srv, calls), UNCHANGED <<srv, calls>>, DOMAIN ui' = DOMAIN ui,
           CreateSees(ui') = CreateSees(ui) \/ (ui'.leaving = TRUE /\ ui'.submitting = ui.submitting /\ ui'.failed = ui.failed)
    PROVE  CreateOK(ui', srv', calls')
BY DEF CreateOK, CreateSees, Told

LEMMA CreatePage == ASSUME Orderly, page = "campaignNew", CreateOK(ui, srv, calls), NewCampaignPage
                    PROVE  CreateOK(ui', srv', calls')
<1>0. /\ {"submitting", "failed", "leaving", "step", "type", "named", "rewarded", "fixed", "item", "photo"} \subseteq DOMAIN ui
      /\ ~ ui.leaving
  BY DEF CreateOK, NewCampaignPage
<1>1. CASE onSubmit
  <2>1. Sent("createCampaign", "page", ui.photo, calls, calls') /\ srv' = srv
    BY <1>1, CallSends DEF onSubmit
  <2>2. ui' = [ui EXCEPT !.submitting = TRUE] /\ ~ ui.submitting /\ ~ ui.failed
    BY <1>1 DEF onSubmit
  <2>3. DOMAIN ui' = DOMAIN ui /\ ui'.submitting = TRUE /\ ui'.failed = ui.failed /\ ui'.leaving = ui.leaving
    BY <1>0, <2>2
  <2>4. \A j \in CallIds : calls[j].op = "none"
    <3>1. srv.campaigns = srv.untold /\ srv.untold \in Nat
      BY <1>0, <2>2 DEF CreateOK
    <3> QED BY <1>0, <2>2, <3>1 DEF CreateOK, Told
  <2> QED BY <1>0, <2>1, <2>2, <2>3, <2>4 DEF CreateOK, Sent, SameCall, Told
<1>2. CASE retryPhoto
  <2>1. srv' = srv /\ ui.failed /\ ~ ui.submitting /\ Told(srv, calls)
    BY <1>2 DEF retryPhoto, CreateOK
  <2>2. \A j \in CallIds : calls[j].op # "createCampaign"
    BY <2>1 DEF Told
  <2>3. DOMAIN ui' = DOMAIN ui /\ ui'.failed = ui.failed /\ ui'.submitting = TRUE
    BY <1>0, <1>2 DEF retryPhoto, uploadThenGo
  <2>4. CASE calls' = calls
    BY <2>1, <2>2, <2>3, <2>4 DEF CreateOK, Told
  <2>5. CASE calls' # calls
    <3>1. Call("photo", "page", ui.photo)
      BY <1>2, <2>5 DEF retryPhoto, uploadThenGo, Call, Unused
    <3>2. Sent("photo", "page", ui.photo, calls, calls')
      BY <3>1, CallSends
    <3> QED BY <2>1, <2>2, <2>3, <3>2 DEF CreateOK, Sent, SameCall, Told
  <2> QED BY <2>4, <2>5
<1>3. CASE ~ onSubmit /\ ~ retryPhoto
  <2>1. /\ UNCHANGED <<srv, calls>>
        /\ \/ \E v : ui' = [ui EXCEPT !.step = v]
           \/ \E v : ui' = [ui EXCEPT !.leaving = TRUE]
           \/ \E t : ui' = [ui EXCEPT !.step = 1, !.type = t]
           \/ \E t : ui' = [ui EXCEPT !.step = 1, !.type = t, !.named = FALSE, !.rewarded = FALSE,
                         !.fixed = FALSE, !.item = FALSE]
           \/ \E v : ui' = [ui EXCEPT !.named = v]
           \/ \E v : ui' = [ui EXCEPT !.rewarded = v]
           \/ \E v : ui' = [ui EXCEPT !.fixed = v]
           \/ \E v : ui' = [ui EXCEPT !.item = v]
           \/ \E v : ui' = [ui EXCEPT !.photo = v]
    BY <1>3 DEF NewCampaignPage, StepOutcome, StepDetails, ItemRewardPicker, PhotoField, Ui
  <2>2. DOMAIN ui' = DOMAIN ui
        /\ (CreateSees(ui') = CreateSees(ui) \/ (ui'.leaving = TRUE /\ ui'.submitting = ui.submitting /\ ui'.failed = ui.failed))
    BY <1>0, <2>1 DEF CreateSees
  <2> QED BY <2>1, <2>2, CreateUi
<1> QED BY <1>1, <1>2, <1>3

LEMMA CreateHandled ==
    ASSUME Orderly, page = "campaignNew", CreateOK(ui, srv, calls), NEW i \in CallIds, Handle(i)
    PROVE  CreateOK(ui', srv', calls')
<1>1. HandleStep(i) /\ ui' = ui
  BY HandleSteps DEF HandleStep
<1>2. calls[i].op \in {"createCampaign", "photo"}
  BY <1>1 DEF HandleStep, CreateOK
<1>3. createCampaign(i) \/ uploadCampaignImage(i)
  BY <1>2 DEF Handle, createProgram, updateProgram, programAction, LifecycleOps, campaignAction, CampaignActions,
      updateCampaign, uploadImage, cancelCampaignVoucher, saveOnboarding, uploadLogo, submitOnboarding, updateMe,
      set_business_image, addCatalogItem, removeCatalogItem, uploadCatalogItemImage, add_gallery_image,
      remove_gallery_image, staffMember, createStaffAccount, createAccount, submitForReview, search, locate,
      markCampaignNoticesSeen, joinCampaign, start_group_session, leave_group_session, demo_fill_group,
      present_voucher, select_voucher_item, redeem_points, present_from_wallet, mark_seen, ProfileView, AvatarUploadView
<1>4. \A j \in CallIds : calls'[j].op = calls[j].op
  BY <1>1, HandledCalls
<1>5. CASE createCampaign(i)
  <2>1. calls[i].op = "createCampaign" /\ calls[i].phase # "ok"
    BY <1>5 DEF createCampaign, Served, ServedWith
  <2>2. srv.campaigns = srv.untold /\ srv.untold \in Nat
    BY <2>1 DEF CreateOK
  <2>3. DOMAIN srv' = DOMAIN srv /\ srv'.untold = srv.untold /\ srv'.campaigns = srv.campaigns + 1
    BY <1>5 DEF createCampaign, Served, ServedWith, CreateOK
  <2>4. calls'[i].phase = "ok"
    <3>1. PICK r : calls' = [calls EXCEPT ![i].phase = "ok", ![i].row = r]
      BY <1>5 DEF createCampaign, Served, ServedWith
    <3>2. calls'[i] = [calls[i] EXCEPT !.phase = "ok", !.row = r] /\ CallOK(calls[i], OpsOf(page))
      BY <3>1 DEF Orderly, CallsOK
    <3> QED BY <3>2 DEF CallOK, NoCall
  <2>5. \A j \in CallIds : calls[j].op = "createCampaign" => j = i
    BY <2>1 DEF CreateOK
  <2>6. ~ ui.failed /\ \A j \in CallIds : calls[j].op # "photo"
    BY <2>1 DEF CreateOK, Told
  <2>7. ui.submitting = TRUE
    BY <2>1 DEF CreateOK
  <2> QED BY <1>1, <1>4, <2>2, <2>3, <2>4, <2>5, <2>6, <2>7 DEF CreateOK
<1>6. CASE uploadCampaignImage(i)
  <2>1. DOMAIN srv' = DOMAIN srv /\ srv'.untold = srv.untold /\ srv'.campaigns = srv.campaigns
    BY <1>6 DEF uploadCampaignImage, Served, ServedWith, CreateOK
  <2>2. calls[i].op = "photo" /\ \A j \in CallIds \ {i} : calls'[j] = calls[j]
    BY <1>1, <1>6, HandledCalls DEF uploadCampaignImage
  <2>3. \A j \in CallIds : calls[j].op # "createCampaign"
    BY <2>2 DEF CreateOK, Told
  <2> QED BY <1>1, <1>4, <2>1, <2>2, <2>3 DEF CreateOK, Told
<1> QED BY <1>3, <1>5, <1>6

LEMMA CreateAnswered ==
    ASSUME Orderly, page = "campaignNew", CreateOK(ui, srv, calls), NEW i \in CallIds, NEW ok \in BOOLEAN,
           NewCampaignAnswer(i, ok), calls[i].op # "none", ok => calls[i].phase = "ok"
    PROVE  CreateOK(ui', srv', calls')
<1> DEFINE cs == Dropped(i)
<1>0. cs[i] = NoCall /\ (\A j \in CallIds \ {i} : cs[j] = calls[j]) /\ CallsOK(cs, OpsOf(page))
  BY DroppedKept DEF Orderly
<1> HIDE DEF cs
<1>1. CASE calls[i].op = "createCampaign" /\ ok
  <2>1. uploadThenGo(calls[i].arg, cs, ui) /\ srv' = srv
    BY <1>1 DEF NewCampaignAnswer, cs
  <2>2. srv.campaigns = srv.untold + 1 /\ ui.submitting = TRUE
    BY <1>1 DEF CreateOK
  <2>3. \A j \in CallIds : cs[j].op \in {"photo", "none"}
    BY <1>0, <1>1 DEF CreateOK, NoCall
  <2>4. CASE ui' = [ui EXCEPT !.leaving = TRUE] /\ calls' = cs
    <3>1. DOMAIN ui' = DOMAIN ui /\ ui'.leaving = TRUE /\ ui'.failed = ui.failed
      BY <2>4 DEF CreateOK
    <3>2. Told(srv', calls')
      BY <2>1, <2>2, <2>3, <2>4 DEF Told
    <3> QED BY <2>1, <2>3, <2>4, <3>1, <3>2 DEF CreateOK
  <2>5. CASE ui' = ui /\ \E k \in CallIds : cs[k] = NoCall /\ calls' = Called(k, "photo", "page", calls[i].arg, cs)
    <3>1. PICK k \in CallIds : calls' = Called(k, "photo", "page", calls[i].arg, cs)
      BY <2>5
    <3>2. calls'[k].op = "photo" /\ \A j \in CallIds \ {k} : calls'[j].op = cs[j].op
      BY <1>0, <3>1, CallMakes DEF SameCall
    <3>3. \A j \in CallIds : calls'[j].op \in {"photo", "none"}
      BY <2>3, <3>2
    <3>4. Told(srv', calls')
      BY <2>1, <2>2, <3>3 DEF Told
    <3> QED BY <2>1, <2>2, <2>5, <3>3, <3>4 DEF CreateOK
  <2> QED BY <2>1, <2>4, <2>5 DEF uploadThenGo
<1>2. CASE calls[i].op = "createCampaign" /\ ~ ok
  <2>1. /\ ui' = [ui EXCEPT !.submitting = FALSE] /\ calls' = cs
        /\ srv' = IF calls[i].phase = "ok" THEN [srv EXCEPT !.untold = srv.untold + 1] ELSE srv
    BY <1>2 DEF NewCampaignAnswer, cs
  <2>2. ~ ui.failed /\ DOMAIN ui' = DOMAIN ui /\ ui'.failed = ui.failed
    BY <1>2, <2>1 DEF CreateOK, Told
  <2>3. DOMAIN srv' = DOMAIN srv /\ srv'.untold \in Nat /\ srv'.campaigns = srv'.untold
    <3>1. CASE calls[i].phase = "ok"
      <4>1. srv.campaigns = srv.untold + 1 /\ srv.untold \in Nat
        BY <1>2, <3>1 DEF CreateOK
      <4>2. DOMAIN srv' = DOMAIN srv /\ srv'.untold = srv.untold + 1 /\ srv'.campaigns = srv.campaigns
        BY <2>1, <3>1 DEF CreateOK
      <4> QED BY <4>1, <4>2
    <3>2. CASE calls[i].phase # "ok"
      BY <1>2, <2>1, <3>2 DEF CreateOK
    <3> QED BY <3>1, <3>2
  <2>4. \A j \in CallIds : cs[j].op = "none"
    BY <1>0, <1>2 DEF CreateOK, NoCall, Told
  <2> QED BY <2>1, <2>2, <2>3, <2>4 DEF CreateOK
<1>3. CASE calls[i].op # "createCampaign"
  <2>1. calls[i].op = "photo" /\ Told(srv, calls)
    BY <1>3 DEF CreateOK
  <2>2. calls' = cs /\ srv' = srv /\ ui' = IF ok THEN [ui EXCEPT !.leaving = TRUE] ELSE PhotoFails(ui)
    BY <1>3 DEF NewCampaignAnswer, cs
  <2>3. DOMAIN ui' = DOMAIN ui /\ (ui'.leaving = TRUE \/ ui'.failed = TRUE)
    BY <2>2 DEF PhotoFails, CreateOK
  <2>4. \A j \in CallIds : cs[j].op \in {"photo", "none"}
    BY <1>0, <2>1 DEF CreateOK, NoCall, Told
  <2>5. Told(srv', calls')
    BY <2>1, <2>2, <2>4 DEF Told
  <2> QED BY <2>2, <2>3, <2>4, <2>5 DEF CreateOK
<1> QED BY <1>1, <1>2, <1>3

LEMMA CreateNext == ASSUME Orderly, CreateInv, [Next]_pageVars PROVE CreateInv'
<1> SUFFICES ASSUME page' = "campaignNew" PROVE CreateOK(ui', srv', calls')
  BY DEF CreateInv
<1>1. page = "campaignNew" /\ CreateOK(ui, srv, calls) /\ DOMAIN seen = {}
  BY PageStays DEF CreateInv, Orderly, KeysOf
<1>2. CASE Pages
  BY <1>1, <1>2, CreatePage DEF Pages
<1>3. ASSUME NEW i \in CallIds, Handle(i) PROVE CreateOK(ui', srv', calls')
  BY <1>1, <1>3, CreateHandled
<1>4. ASSUME NEW i \in CallIds, Answer(i) PROVE CreateOK(ui', srv', calls')
  <2>1. calls[i].op # "none" /\ calls[i].op # "create"
    BY <1>1, <1>4, AnswerSteps DEF CreateOK
  <2>2. \E ok \in BOOLEAN : NewCampaignAnswer(i, ok) /\ (ok => calls[i].phase = "ok")
    BY <1>1, <1>4, <2>1 DEF Answer, Settle
  <2> QED BY <1>1, <2>1, <2>2, CreateAnswered
<1>5. CASE UNCHANGED pageVars
  BY <1>1, <1>5 DEF pageVars
<1> QED BY <1>1, <1>2, <1>3, <1>4, <1>5 DEF Next

LEMMA CreateInit == ASSUME Init PROVE CreateInv
<1>1. ASSUME page = "campaignNew" PROVE NewCampaignInit
  BY <1>1 DEF Init, NewLoyaltyInit, LoyaltyDetailInit, CampaignDetailInit, OnboardingInit, SettingsInit, MenuInit,
      GalleryInit, TeamInit, SetupInit, StaffingInit, OverviewInit, HomeInit, TabInit, OfferInit, GroupInit,
      ContactInit, NearbyInit, BusinessInit, HeroesInit, QrInit, VoucherInit, WalletInit, BoardInit, ProfileInit
<1> QED BY <1>1 DEF CreateInv, CreateOK, Told, NewCampaignInit, NoCalls, NoCall

\* A form creates one campaign, those apart whose answer was lost on the way,
\* however often its photo fails and is retried and whatever is typed while it is
\* being sent: the page never sends it again once it was told of a campaign.
THEOREM FormCreatesOne == Spec => []CreatedOnce
<1>1. Init => Orderly /\ CreateInv
  BY OrderlyInit, CreateInit
<1>2. Orderly /\ CreateInv /\ [Next]_pageVars => Orderly' /\ CreateInv'
  BY OrderlyNext, CreateNext
<1>3. CreateInv => CreatedOnce
  <2> DEFINE S == {i \in CallIds : calls[i].op = "createCampaign" /\ calls[i].phase # "ok"}
  <2> SUFFICES ASSUME CreateInv, page = "campaignNew" PROVE srv.campaigns + Cardinality(S) <= 1 + srv.untold
    BY DEF CreatedOnce
  <2>0. srv.untold \in Nat /\ srv.campaigns \in {srv.untold, srv.untold + 1}
    BY DEF CreateInv, CreateOK
  <2>1. CASE S = {}
    <3>1. Cardinality(S) = 0
      BY <2>1, FS_EmptySet
    <3> HIDE DEF S
    <3> QED BY <2>0, <3>1
  <2>2. CASE S # {}
    <3>1. PICK i \in CallIds : calls[i].op = "createCampaign" /\ calls[i].phase # "ok"
      BY <2>2
    <3>2. S = {i} /\ srv.campaigns = srv.untold
      BY <3>1 DEF CreateInv, CreateOK
    <3>3. Cardinality(S) = 1
      BY <3>2, FS_Singleton
    <3> HIDE DEF S
    <3> QED BY <2>0, <3>2, <3>3
  <2> QED BY <2>1, <2>2
<1> QED BY <1>1, <1>2, <1>3, PTL DEF Spec

-----------------------------------------------------------------------------
(* The onboarding wizard. *)

FollowedSave(c) == c.op = "save" /\ c.at = "page"

\* A timer that runs has the form that is shown; with none, the save the wizard
\* follows has it.  Served after all others it leaves its form on the server, and
\* this is still so when it was answered.
SaveOK(u, s, cs) ==
    /\ {"stage", "form", "timer", "failed", "preview", "asking"} \subseteq DOMAIN u
    /\ {"form", "logo", "status", "late"} \subseteq DOMAIN s
    /\ u.form \in Forms /\ u.timer \in {None, u.form}
    /\ \A i \in CallIds : cs[i].op = "save" => cs[i].at \in {"page", "gone"}
    /\ \A i \in CallIds : FollowedSave(cs[i]) =>
          /\ u.timer = None => cs[i].arg = u.form
          /\ cs[i].phase = "ok" => s.late = TRUE \/ s.form = cs[i].arg
    /\ \A i, j \in CallIds : FollowedSave(cs[i]) /\ FollowedSave(cs[j]) => i = j
    /\ \/ u.timer # None \/ u.failed = TRUE \/ s.late = TRUE \/ s.form = u.form
       \/ \E i \in CallIds : FollowedSave(cs[i])

\* The business was cached when the wizard opened, and is not fetched.
MeCached(qs) == {"me", "state"} \subseteq DOMAIN qs /\ qs["me"].fetch = "no"

SaveInv == page = "onboarding" => SaveOK(ui, srv, calls) /\ MeCached(seen)

\* The saves go on, and the rows they left.
SavesKept ==
    /\ DOMAIN ui' = DOMAIN ui /\ ui'.form = ui.form /\ ui'.timer = ui.timer /\ ui'.failed = ui.failed
    /\ DOMAIN srv' = DOMAIN srv /\ srv'.form = srv.form /\ srv'.late = srv.late
    /\ \A j \in CallIds : calls'[j] = calls[j] \/ (calls[j].op # "save" /\ calls'[j].op # "save")

LEMMA SaveKept == ASSUME SaveOK(ui, srv, calls), SavesKept PROVE SaveOK(ui', srv', calls')
<1>1. \A j \in CallIds : FollowedSave(calls'[j]) => calls'[j] = calls[j] /\ FollowedSave(calls[j])
  BY DEF SavesKept, FollowedSave
<1>2. \A j \in CallIds : FollowedSave(calls[j]) => calls'[j] = calls[j] /\ FollowedSave(calls'[j])
  BY DEF SavesKept, FollowedSave
<1>3. \A j \in CallIds : calls'[j].op = "save" => calls'[j] = calls[j]
  BY DEF SavesKept
<1> QED BY <1>1, <1>2, <1>3 DEF SavesKept, SaveOK

LEMMA SaveSends ==
    ASSUME NEW op, op # "save", NEW at, NEW arg, Call(op, at, arg), SaveOK(ui, srv, calls)
    PROVE  \A j \in CallIds : calls'[j] = calls[j] \/ (calls[j].op # "save" /\ calls'[j].op # "save")
<1>1. PICK i \in CallIds : calls[i] = NoCall /\ calls' = Called(i, op, at, arg, calls)
  BY DEF Call, Unused
<1>2. calls[i].op # "save" /\ calls'[i].op # "save"
  <2>1. ASSUME NEW d, d = [NoCall EXCEPT !.op = op, !.at = at, !.arg = arg] PROVE d.op = op
    BY <2>1 DEF NoCall
  <2>2. calls'[i] = [NoCall EXCEPT !.op = op, !.at = at, !.arg = arg]
    BY <1>1 DEF Called
  <2>3. calls'[i].op = op
    BY <2>1, <2>2
  <2>4. calls[i].op = "none"
    BY <1>1 DEF NoCall
  <2> QED BY <2>3, <2>4
<1>3. ASSUME NEW j \in CallIds \ {i}
      PROVE  calls'[j] = calls[j] \/ (calls[j].op # "save" /\ calls'[j].op # "save")
  <2>1. CASE calls[j].op = op /\ calls[j].at = at
    <3>1. calls'[j] = [calls[j] EXCEPT !.at = "gone"]
      BY <1>1, <2>1 DEF Called
    <3>2. calls'[j].op = calls[j].op
      BY <3>1
    <3> QED BY <2>1, <3>2
  <2>2. CASE ~ (calls[j].op = op /\ calls[j].at = at)
    BY <1>1, <2>2 DEF Called
  <2> QED BY <2>1, <2>2
<1> QED BY <1>2, <1>3

LEMMA MeKept == ASSUME MeCached(seen), NEW q, seen' = [seen EXCEPT !["state"] = q] PROVE MeCached(seen')
BY DEF MeCached

LEMMA SavePage ==
    ASSUME Orderly, page = "onboarding", SaveOK(ui, srv, calls), MeCached(seen), OnboardingFlow \/ AdminReviews
    PROVE  SaveOK(ui', srv', calls') /\ MeCached(seen')
<1>0. /\ {"stage", "form", "timer", "failed", "preview", "asking"} \subseteq DOMAIN ui
      /\ ui.form \in Forms /\ ui.timer \in {None, ui.form}
  BY DEF SaveOK
<1>1. CASE AutoSave
  <2>1. /\ Sent("save", "page", ui.timer, calls, calls') /\ ui' = [ui EXCEPT !.timer = None, !.failed = FALSE]
        /\ seen' = seen /\ srv' = srv /\ ui.timer = ui.form
    BY <1>0, <1>1, CallSends DEF AutoSave
  <2>2. DOMAIN ui' = DOMAIN ui /\ ui'.timer = None /\ ui'.form = ui.form
    BY <1>0, <2>1
  <2>3. PICK i \in CallIds :
            /\ calls'[i].op = "save" /\ calls'[i].at = "page" /\ calls'[i].arg = ui.form /\ calls'[i].phase = "sent"
            /\ \A j \in CallIds \ {i} : /\ SameCall(calls[j], calls'[j])
                                        /\ calls[j].op = "save" /\ calls[j].at = "page" => calls'[j].at = "gone"
    BY <2>1 DEF Sent
  <2>4. ASSUME NEW j \in CallIds \ {i}, calls'[j].op = "save" PROVE calls'[j].at = "gone"
    <3>1. calls[j].op = "save" /\ calls[j].at \in {"page", "gone"} /\ calls'[j].at \in {calls[j].at, "gone"}
      BY <2>3, <2>4 DEF SameCall, SaveOK
    <3> QED BY <2>3, <3>1
  <2>5. FollowedSave(calls'[i]) /\ \A j \in CallIds : FollowedSave(calls'[j]) => j = i
    BY <2>3, <2>4 DEF FollowedSave
  <2>6. \A j \in CallIds : calls'[j].op = "save" => calls'[j].at \in {"page", "gone"}
    BY <2>3, <2>4
  <2> QED BY <1>0, <2>1, <2>2, <2>3, <2>5, <2>6 DEF SaveOK
<1>2. CASE StageIdentity \/ StageType
  <2>1. PICK f \in Forms : ui' = [ui EXCEPT !.form = f, !.timer = f] /\ calls' = calls /\ seen' = seen /\ srv' = srv
    <3>1. ASSUME NEW f \in Forms, setForm(f)
          PROVE  ui' = [ui EXCEPT !.form = f, !.timer = f] /\ calls' = calls /\ seen' = seen /\ srv' = srv
      BY <3>1 DEF setForm, persist, Ui
    <3>2. \E f \in Forms : setForm(f)
      <4>1. CASE StageIdentity
        <5>1. 1 - ui.form \in Forms
          BY <1>0, <4>1 DEF StageIdentity, Forms
        <5> QED BY <4>1, <5>1 DEF StageIdentity
      <4>2. CASE StageType
        BY <4>2 DEF StageType, Forms
      <4> QED BY <1>2, <4>1, <4>2
    <3> QED BY <3>1, <3>2
  <2>2. f # None
    BY NothingIsNoNumber DEF Forms
  <2>3. DOMAIN ui' = DOMAIN ui /\ ui'.form = f /\ ui'.timer = f
    BY <1>0, <2>1
  <2> QED BY <2>1, <2>2, <2>3 DEF SaveOK
<1>3. ASSUME NEW s, GoStage(s) PROVE SaveOK(ui', srv', calls') /\ MeCached(seen')
  <2>1. ui' = [ui EXCEPT !.stage = s] /\ calls' = calls /\ srv' = srv
    BY <1>3 DEF GoStage
  <2>2. SavesKept
    BY <1>0, <2>1 DEF SavesKept
  <2>3. MeCached(seen')
    <3>1. seen' = seen \/ seen' = [seen EXCEPT !["state"] = [@ EXCEPT !.fetch = "sent", !.got = None]]
      BY <1>3 DEF GoStage
    <3> QED BY <3>1, MeKept
  <2> QED BY <2>2, <2>3, SaveKept
<1>4. CASE goNext \/ goBack
  BY <1>3, <1>4 DEF goNext, goBack
<1>5. CASE onLogoPick
  <2>1. Call("logo", "page", None) /\ ui' = [ui EXCEPT !.preview = TRUE] /\ seen' = seen /\ srv' = srv
    BY <1>5 DEF onLogoPick
  <2>2. SavesKept
    BY <1>0, <2>1, SaveSends DEF SavesKept
  <2> QED BY <2>1, <2>2, SaveKept
<1>6. CASE StageReview \/ OnboardSubmitDialog
  <2>1. /\ seen' = seen /\ srv' = srv /\ \E v : ui' = [ui EXCEPT !.asking = v]
        /\ calls' = calls \/ Call("submit", "page", None)
    BY <1>6 DEF StageReview, OnboardSubmitDialog, Ui
  <2>2. \A j \in CallIds : calls'[j] = calls[j] \/ (calls[j].op # "save" /\ calls'[j].op # "save")
    <3>1. CASE calls' = calls
      BY <3>1
    <3>2. CASE Call("submit", "page", None)
      BY <3>2, SaveSends
    <3> QED BY <2>1, <3>1, <3>2
  <2>3. SavesKept
    BY <1>0, <2>1, <2>2 DEF SavesKept
  <2> QED BY <2>1, <2>3, SaveKept
<1>7. CASE Pending
  <2>1. CASE seen' = [seen EXCEPT !["state"] = [@ EXCEPT !.fetch = "sent", !.got = None]] /\ UNCHANGED <<page, ui, srv, calls>>
    BY <2>1, MeKept
  <2> QED BY <1>3, <1>7, <2>1 DEF Pending
<1>8. CASE AdminReviews
  <2>1. seen' = [seen EXCEPT !["state"] = [@ EXCEPT !.missed = TRUE]] /\ UNCHANGED <<ui, calls>>
        /\ srv' = [srv EXCEPT !.status = "changes_requested"]
    BY <1>8 DEF AdminReviews
  <2>2. SavesKept
    BY <2>1 DEF SavesKept, SaveOK
  <2> QED BY <2>1, <2>2, SaveKept, MeKept
<1> QED BY <1>1, <1>2, <1>4, <1>5, <1>6, <1>7, <1>8 DEF OnboardingFlow

LEMMA SaveHandled ==
    ASSUME Orderly, page = "onboarding", SaveOK(ui, srv, calls), NEW i \in CallIds, Handle(i), HandleStep(i), ui' = ui
    PROVE  SaveOK(ui', srv', calls')
<1>1. /\ \A j \in CallIds : calls'[j].op = calls[j].op /\ calls'[j].arg = calls[j].arg /\ calls'[j].at = calls[j].at
      /\ \A j \in CallIds \ {i} : calls'[j] = calls[j]
  BY HandledCalls
<1>2. calls[i].op \in {"save", "logo", "submit"}
  BY DEF HandleStep, Orderly, CallsOK, CallOK, OpsOf, NoCall
<1>3. saveOnboarding(i) \/ uploadLogo(i) \/ submitOnboarding(i)
  BY <1>2 DEF Handle, createProgram, updateProgram, programAction, LifecycleOps, createCampaign, uploadCampaignImage,
      campaignAction, CampaignActions, updateCampaign, uploadImage, cancelCampaignVoucher, updateMe,
      set_business_image, addCatalogItem, removeCatalogItem, uploadCatalogItemImage, add_gallery_image,
      remove_gallery_image, staffMember, createStaffAccount, createAccount, submitForReview, search, locate,
      markCampaignNoticesSeen, joinCampaign, start_group_session, leave_group_session, demo_fill_group,
      present_voucher, select_voucher_item, redeem_points, present_from_wallet, mark_seen, ProfileView, AvatarUploadView
<1>4. \A j \in CallIds : FollowedSave(calls'[j]) <=> FollowedSave(calls[j])
  BY <1>1 DEF FollowedSave
<1>5. CASE uploadLogo(i) \/ submitOnboarding(i)
  <2>1. calls[i].op # "save"
    BY <1>5 DEF uploadLogo, submitOnboarding
  <2>2. DOMAIN srv' = DOMAIN srv /\ srv'.form = srv.form /\ srv'.late = srv.late
    BY <1>5 DEF uploadLogo, submitOnboarding, Served, ServedWith, SaveOK
  <2>3. SavesKept
    BY <1>1, <2>1, <2>2 DEF SavesKept
  <2> QED BY <2>3, SaveKept
<1>6. CASE saveOnboarding(i) /\ srv' = srv
  <2>1. calls'[i].phase = "row" \/ (srv'.late = TRUE \/ srv'.form = calls'[i].arg \/ ~ FollowedSave(calls'[i]))
    <3>1. CASE \E row : Loaded(i, row)
      <4>1. PICK row : calls' = [calls EXCEPT ![i].phase = "row", ![i].row = row]
        BY <3>1 DEF Loaded
      <4>2. calls'[i] = [calls[i] EXCEPT !.phase = "row", !.row = row] /\ CallOK(calls[i], OpsOf(page))
        BY <4>1 DEF Orderly, CallsOK
      <4>3. calls'[i].phase = "row"
        BY <4>2 DEF CallOK, NoCall
      <4> QED BY <4>3
    <3>2. CASE ~ \E row : Loaded(i, row)
      <4>1. PICK logo, status : srv' = [form |-> calls[i].arg, logo |-> logo, status |-> status, late |-> ~ Here(i)]
        BY <1>6, <3>2 DEF saveOnboarding, ServedWith
      <4>2. srv'.form = calls[i].arg
        BY <4>1
      <4> QED BY <1>1, <4>2
    <3> QED BY <3>1, <3>2
  <2>2. \A j \in CallIds : FollowedSave(calls'[j]) /\ calls'[j].phase = "ok" => srv'.late = TRUE \/ srv'.form = calls'[j].arg
    BY <1>1, <1>4, <1>6, <2>1 DEF SaveOK
  <2>3. \A j \in CallIds : FollowedSave(calls'[j]) => (ui'.timer = None => calls'[j].arg = ui'.form)
    BY <1>1, <1>4 DEF SaveOK
  <2>4. \/ ui'.timer # None \/ ui'.failed = TRUE \/ srv'.late = TRUE \/ srv'.form = ui'.form
        \/ \E j \in CallIds : FollowedSave(calls'[j])
    BY <1>4, <1>6 DEF SaveOK
  <2> QED BY <1>1, <1>4, <1>6, <2>2, <2>3, <2>4 DEF SaveOK
<1>7. CASE saveOnboarding(i) /\ srv' # srv
  <2>1. PICK logo, status : srv' = [form |-> calls[i].arg, logo |-> logo, status |-> status, late |-> ~ Here(i)]
    BY <1>7 DEF saveOnboarding, Loaded, ServedWith
  <2>2. {"form", "logo", "status", "late"} \subseteq DOMAIN srv' /\ srv'.form = calls[i].arg
    BY <2>1
  <2>3. srv'.late = TRUE \/ FollowedSave(calls[i])
    <3>1. CASE Here(i)
      BY <1>7, <3>1 DEF saveOnboarding, SaveOK, Here, FollowedSave
    <3>2. CASE ~ Here(i)
      <4>1. PICK b : b = ~ Here(i)
        OBVIOUS
      <4>2. b = TRUE
        BY <3>2, <4>1, Zenon
      <4>3. srv' = [form |-> calls[i].arg, logo |-> logo, status |-> status, late |-> b]
        BY <2>1, <4>1, Zenon
      <4>4. srv'.late = b
        BY <4>3
      <4> QED BY <4>2, <4>4
    <3> QED BY <3>1, <3>2
  <2>4. \A j \in CallIds : FollowedSave(calls'[j]) => (ui'.timer = None => calls'[j].arg = ui'.form)
    BY <1>1, <1>4 DEF SaveOK
  <2>5. \A j \in CallIds : FollowedSave(calls'[j]) => srv'.late = TRUE \/ srv'.form = calls'[j].arg
    <3>1. CASE FollowedSave(calls[i])
      <4>1. \A j \in CallIds : FollowedSave(calls[j]) => j = i
        BY <3>1 DEF SaveOK
      <4> QED BY <1>1, <1>4, <2>2, <4>1
    <3>2. CASE ~ FollowedSave(calls[i])
      BY <2>3, <3>2
    <3> QED BY <3>1, <3>2
  <2>6. srv'.late = TRUE \/ \E j \in CallIds : FollowedSave(calls'[j])
    BY <1>4, <2>3
  <2> QED BY <1>1, <1>4, <2>2, <2>4, <2>5, <2>6 DEF SaveOK
<1> QED BY <1>3, <1>5, <1>6, <1>7

LEMMA SaveAnswered ==
    ASSUME Orderly, page = "onboarding", SaveOK(ui, srv, calls), MeCached(seen), NEW i \in CallIds, NEW ok \in BOOLEAN,
           OnboardingAnswer(i, ok), ok => calls[i].phase = "ok"
    PROVE  SaveOK(ui', srv', calls') /\ MeCached(seen')
<1> DEFINE cs == Dropped(i)
<1>0. cs[i] = NoCall /\ (\A j \in CallIds \ {i} : cs[j] = calls[j]) /\ calls' = cs /\ NoCall.op = "none"
  BY DroppedKept DEF Orderly, OnboardingAnswer, NoCall
<1> HIDE DEF cs
<1>1. /\ DOMAIN ui' = DOMAIN ui /\ ui'.form = ui.form /\ ui'.timer = ui.timer /\ srv' = srv
      /\ ui'.failed = ui.failed \/ ui'.failed = TRUE
      /\ FollowedSave(calls[i]) /\ ~ ok => ui'.failed = TRUE
      /\ ~ FollowedSave(calls[i]) => ui'.failed = ui.failed
  <2>1. srv' = srv
    BY DEF OnboardingAnswer
  <2>2. calls[i].op = "save" => (Here(i) <=> FollowedSave(calls[i]))
    BY DEF SaveOK, Here, FollowedSave
  <2>3. CASE FollowedSave(calls[i]) /\ ~ ok
    <3>1. ui' = [ui EXCEPT !.failed = TRUE]
      BY <2>2, <2>3 DEF OnboardingAnswer, FollowedSave
    <3> QED BY <2>1, <2>3, <3>1 DEF SaveOK
  <2>4. CASE ~ (FollowedSave(calls[i]) /\ ~ ok)
    <3>1. ui' = ui \/ ui' = [ui EXCEPT !.preview = FALSE] \/ ui' = [ui EXCEPT !.stage = 6]
      BY <2>2, <2>4 DEF OnboardingAnswer
    <3> QED BY <2>1, <2>4, <3>1 DEF SaveOK
  <2> QED BY <2>3, <2>4
<1>2. SaveOK(ui', srv', calls')
  <2>1. CASE FollowedSave(calls[i])
    <3>1. \A j \in CallIds : j # i => ~ FollowedSave(calls[j])
      BY <2>1 DEF SaveOK
    <3>2. \A j \in CallIds : ~ FollowedSave(calls'[j]) /\ (calls'[j].op = "save" => calls'[j] = calls[j])
      BY <1>0, <3>1 DEF FollowedSave
    <3>3. \/ ui'.timer # None \/ ui'.failed = TRUE \/ srv'.late = TRUE \/ srv'.form = ui'.form
      <4>1. CASE ok
        <5>1. calls[i].phase = "ok"
          BY <4>1
        <5> QED BY <1>1, <2>1, <5>1 DEF SaveOK
      <4>2. CASE ~ ok
        BY <1>1, <2>1, <4>2
      <4> QED BY <4>1, <4>2
    <3> QED BY <1>1, <3>2, <3>3 DEF SaveOK
  <2>2. CASE ~ FollowedSave(calls[i])
    <3>1. \A j \in CallIds : FollowedSave(calls[j]) => calls'[j] = calls[j]
      BY <1>0, <2>2
    <3>2. \A j \in CallIds : calls'[j].op = "save" => calls'[j] = calls[j]
      BY <1>0
    <3>3. \A j \in CallIds : FollowedSave(calls'[j]) => calls'[j] = calls[j]
      BY <3>2 DEF FollowedSave
    <3> QED BY <1>1, <2>2, <3>1, <3>2, <3>3 DEF SaveOK
  <2> QED BY <2>1, <2>2
<1>3. QueriesOK(seen) /\ {"me", "state"} \subseteq DOMAIN seen /\ seen["me"].fetch = "no"
  BY DEF Orderly, MeCached
<1>4. MeCached(MissedBy(seen))
  BY <1>3 DEF MissedBy, WrittenKeys, MeCached
<1>5. ASSUME NEW qs, QueriesOK(qs), MeCached(qs), NEW ks, "me" \notin ks PROVE MeCached(Invalidated(ks, ks, qs))
  <2> DEFINE rs == Invalidated(ks, ks, qs)
  <2>1. DOMAIN rs = DOMAIN qs /\ \A k \in DOMAIN qs : k \notin ks => rs[k] = qs[k]
    BY <1>5, InvalidatedKept
  <2> HIDE DEF rs
  <2>2. MeCached(rs)
    BY <1>5, <2>1 DEF MeCached
  <2> QED BY <2>2 DEF rs
<1>6. ASSUME NEW v, NEW qs, qs = WrittenTo("me", v, seen) PROVE QueriesOK(qs) /\ MeCached(qs)
  <2>1. QueriesOK(qs) /\ DOMAIN qs = DOMAIN seen
    BY <1>3, <1>6, WrittenKept
  <2>2. qs["me"].fetch = "no"
    <3>1. qs["me"] = [seen["me"] EXCEPT !.data = v, !.stale = FALSE, !.bad = FALSE] /\ QueryOK(seen["me"])
      BY <1>3, <1>6 DEF WrittenTo, QueriesOK
    <3> QED BY <1>3, <3>1 DEF QueryOK
  <2> QED BY <1>3, <2>1, <2>2 DEF MeCached
<1>7. MeCached(seen')
  <2>1. CASE ok
    <3>1. PICK qs : qs = IF calls[i].op = "submit" THEN seen ELSE WrittenTo("me", calls[i].row, seen)
      OBVIOUS
    <3>2. QueriesOK(qs) /\ MeCached(qs)
      BY <1>3, <1>6, <3>1 DEF MeCached
    <3>3. seen' = Invalidated({"state"}, {"state"}, qs)
      BY <2>1, <3>1 DEF OnboardingAnswer, OnboardingHooks
    <3>4. "me" \notin {"state"}
      OBVIOUS
    <3> QED BY <1>5, <3>2, <3>3, <3>4
  <2>2. CASE ~ ok
    BY <1>4, <2>2 DEF OnboardingAnswer, Missed
  <2> QED BY <2>1, <2>2
<1> QED BY <1>2, <1>7

LEMMA SaveFetched ==
    ASSUME Orderly, page = "onboarding", SaveOK(ui, srv, calls), MeCached(seen), NEW k \in DOMAIN seen,
           Fetch(k) \/ FetchFails(k) \/ Refetch(k)
    PROVE  SaveOK(ui', srv', calls') /\ MeCached(seen')
<1>1. k = "state"
  <2>1. k \in {"me", "state"}
    BY DEF Orderly, KeysOf
  <2>2. k # "me"
    BY DEF MeCached, Fetch, FetchRead, FetchFails, Refetch, NearbyKeys
  <2> QED BY <2>1, <2>2
<1>2. UNCHANGED <<ui, srv, calls>>
  BY <1>1 DEF Fetch, FetchRead, PageHears, NearbyKeys, FetchFails, Refetch
<1>3. MeCached(seen')
  BY <1>1, FetchSteps DEF FetchStep, MeCached
<1> QED BY <1>2, <1>3

LEMMA SaveNext == ASSUME Orderly, SaveInv, [Next]_pageVars PROVE SaveInv'
<1> SUFFICES ASSUME page' = "onboarding" PROVE SaveOK(ui', srv', calls') /\ MeCached(seen')
  BY DEF SaveInv
<1>1. page = "onboarding" /\ SaveOK(ui, srv, calls) /\ MeCached(seen)
  BY PageStays DEF SaveInv
<1>2. CASE Pages
  BY <1>1, <1>2, SavePage DEF Pages
<1>3. ASSUME NEW i \in CallIds, Handle(i) PROVE SaveOK(ui', srv', calls') /\ MeCached(seen')
  <2>1. HandleStep(i) /\ ui' = ui /\ seen' = seen
    BY <1>3, HandleSteps DEF HandleStep
  <2> QED BY <1>1, <1>3, <2>1, SaveHandled
<1>4. ASSUME NEW i \in CallIds, Answer(i) PROVE SaveOK(ui', srv', calls') /\ MeCached(seen')
  <2>1. calls[i].op # "create"
    <3>1. calls[i].op \in {"save", "logo", "submit", "none"}
      BY <1>1 DEF Orderly, CallsOK, CallOK, OpsOf, NoCall
    <3> QED BY <3>1
  <2>2. \E ok \in BOOLEAN : OnboardingAnswer(i, ok) /\ (ok => calls[i].phase = "ok")
    BY <1>1, <1>4, <2>1 DEF Answer, Settle
  <2> QED BY <1>1, <2>2, SaveAnswered
<1>5. ASSUME NEW k \in DOMAIN seen, Fetch(k) \/ FetchFails(k) \/ Refetch(k) PROVE SaveOK(ui', srv', calls') /\ MeCached(seen')
  BY <1>1, <1>5, SaveFetched
<1>6. CASE UNCHANGED pageVars
  BY <1>1, <1>6 DEF pageVars
<1> QED BY <1>2, <1>3, <1>4, <1>5, <1>6 DEF Next

LEMMA SaveInit == ASSUME Init PROVE SaveInv
<1>1. ASSUME page = "onboarding" PROVE OnboardingInit
  BY <1>1 DEF Init, NewLoyaltyInit, LoyaltyDetailInit, NewCampaignInit, CampaignDetailInit, SettingsInit, MenuInit,
      GalleryInit, TeamInit, SetupInit, StaffingInit, OverviewInit, HomeInit, TabInit, OfferInit, GroupInit,
      ContactInit, NearbyInit, BusinessInit, HeroesInit, QrInit, VoucherInit, WalletInit, BoardInit, ProfileInit
<1>2. ASSUME OnboardingInit PROVE SaveOK(ui, srv, calls) /\ MeCached(seen)
  <2>1. SaveOK(ui, srv, calls)
    <3>1. \A j \in CallIds : ~ FollowedSave(calls[j]) /\ calls[j].op # "save"
      BY <1>2 DEF OnboardingInit, NoCalls, NoCall, FollowedSave
    <3> QED BY <1>2, <3>1 DEF OnboardingInit, SaveOK, Forms
  <2>2. PICK q : q = Cached(srv.logo)
    OBVIOUS
  <2>3. seen = [me |-> q, state |-> Cached(OnboardingState(srv))] /\ q.fetch = "no"
    BY <1>2, <2>2, LiteralQueries DEF OnboardingInit
  <2> QED BY <2>1, <2>3 DEF MeCached
<1> QED BY <1>1, <1>2 DEF SaveInv

\* The last autosave carries the form the owner sees, and leaves it on the server,
\* in whatever order saves are edited over, served, answered and lost; but for a
\* last save that was reported as failed and for an older one served after it.
THEOREM SavesWhatIsSeen == Spec => []AutosaveSendsForm
<1>1. Init => Orderly /\ SaveInv
  BY OrderlyInit, SaveInit
<1>2. Orderly /\ SaveInv /\ [Next]_pageVars => Orderly' /\ SaveInv'
  BY OrderlyNext, SaveNext
<1>3. SaveInv => AutosaveSendsForm
  <2> SUFFICES ASSUME SaveOK(ui, srv, calls)
               PROVE  /\ ui.timer \in {None, ui.form}
                      /\ ui.timer = None => \A i \in CallIds : calls[i].op = "save" /\ Here(i) => calls[i].arg = ui.form
                      /\ ui.timer = None /\ ~IsBusy("save", "page") /\ ~ui.failed /\ ~srv.late => srv.form = ui.form
    BY DEF SaveInv, AutosaveSendsForm
  <2>1. ui.timer = None => \A i \in CallIds : calls[i].op = "save" /\ Here(i) => calls[i].arg = ui.form
    BY DEF SaveOK, FollowedSave, Here
  <2>2. ~IsBusy("save", "page") => \A i \in CallIds : ~ FollowedSave(calls[i])
    BY DEF IsBusy, FollowedSave
  <2> QED BY <2>1, <2>2 DEF SaveOK
<1> QED BY <1>1, <1>2, <1>3, PTL DEF Spec

-----------------------------------------------------------------------------
(* The settings, and the place of the business. *)

\* What was typed is in the form; into a form that is not filled yet nothing
\* counts as typed.
TypedOK(u) ==
    /\ {"draft", "typed", "filled"} \subseteq DOMAIN u
    /\ DOMAIN u.typed = DOMAIN u.draft
    /\ \A f \in DOMAIN u.typed : u.typed[f] \in {None, u.draft[f]}
    /\ ~ u.filled => \A f \in DOMAIN u.typed : u.typed[f] = None

\* The contact page has more to it than its form.
ContactOK(u) == {"map", "marker", "query", "timer", "results", "searching"} \subseteq DOMAIN u

TypedInv == page \in {"settings", "contact"} => TypedOK(ui) /\ (page = "contact" => ContactOK(ui))

LEMMA TypedSame ==
    ASSUME NEW u, TypedOK(u), NEW w, DOMAIN w = DOMAIN u, w.draft = u.draft, w.typed = u.typed, w.filled = u.filled
    PROVE  TypedOK(w)
BY DEF TypedOK

LEMMA TypedKept ==
    ASSUME NEW u, TypedOK(u), NEW f, NEW v, NEW w, w = Typed(f, v, u)
    PROVE  TypedOK(w) /\ DOMAIN w = DOMAIN u
<1>1. PICK x : x = IF u.filled THEN v ELSE None
  OBVIOUS
<1>2. w = [u EXCEPT !.draft = [u.draft EXCEPT ![f] = v], !.typed = [u.typed EXCEPT ![f] = x]]
  BY <1>1 DEF Typed
<1>3. /\ DOMAIN w = DOMAIN u /\ w.filled = u.filled
      /\ w.draft = [u.draft EXCEPT ![f] = v] /\ w.typed = [u.typed EXCEPT ![f] = x]
  BY <1>2 DEF TypedOK
<1>4. DOMAIN w.typed = DOMAIN w.draft
  BY <1>3 DEF TypedOK
<1>5. ASSUME NEW g \in DOMAIN w.typed
      PROVE  w.typed[g] \in {None, w.draft[g]} /\ (~ u.filled => w.typed[g] = None)
  BY <1>1, <1>3 DEF TypedOK
<1> QED BY <1>3, <1>4, <1>5 DEF TypedOK

LEMMA HydratedKept ==
    ASSUME TypedOK(ui), NEW me, NEW w, w = useHydratedForm(me)
    PROVE  TypedOK(w) /\ DOMAIN w = DOMAIN ui
<1>1. CASE ~ ui.filled
  <2>1. PICK d : d = [f \in DOMAIN ui.draft |-> me[f]]
    OBVIOUS
  <2>2. w = [ui EXCEPT !.draft = d, !.filled = TRUE]
    BY <1>1, <2>1 DEF useHydratedForm, Filled
  <2>3. DOMAIN w = DOMAIN ui /\ w.filled = TRUE /\ w.draft = d /\ w.typed = ui.typed
    BY <2>2 DEF TypedOK
  <2> QED BY <1>1, <2>1, <2>3 DEF TypedOK
<1>2. CASE ui.filled
  BY <1>2 DEF useHydratedForm
<1> QED BY <1>1, <1>2

LEMMA SettingsTyped ==
    ASSUME TypedOK(ui), SettingsSections
    PROVE  TypedOK(ui')
<1>1. ASSUME NEW s, Section(s) PROVE TypedOK(ui')
  BY <1>1, TypedKept DEF Section, SaveButton, SendOnly, Ui
<1>2. CASE BrandSection
  BY <1>1, <1>2 DEF BrandSection, SendOnly
<1> QED BY <1>1, <1>2 DEF SettingsSections, ProfileSection, WalletSection, ContactSection

\* A picked place is typed into the form.
LEMMA ChangedKept ==
    ASSUME NEW u, TypedOK(u), NEW p, NEW a, NEW w, w = onChange(p, a, u)
    PROVE  TypedOK(w) /\ DOMAIN w = DOMAIN u
<1>1. PICK v : v = Typed("place", p, u)
  OBVIOUS
<1>2. TypedOK(v) /\ DOMAIN v = DOMAIN u
  BY <1>1, TypedKept
<1>3. w = v \/ w = Typed("address", a, v)
  BY <1>1 DEF onChange
<1> QED BY <1>2, <1>3, TypedKept

LEMMA ContactTyped ==
    ASSUME TypedOK(ui), ContactOK(ui), LocationPicker
    PROVE  TypedOK(ui') /\ ContactOK(ui')
<1>1. ASSUME DOMAIN ui' = DOMAIN ui, ui'.draft = ui.draft, ui'.typed = ui.typed, ui'.filled = ui.filled
      PROVE  TypedOK(ui') /\ ContactOK(ui')
  <2>1. ASSUME NEW w, w = ui' PROVE TypedOK(w)
    BY <1>1, <2>1, TypedSame
  <2> QED BY <1>1, <2>1 DEF ContactOK
<1>2. ASSUME NEW u, DOMAIN u = DOMAIN ui, u.draft = ui.draft, u.typed = ui.typed, u.filled = ui.filled,
             NEW p, NEW a, ui' = onChange(p, a, u)
      PROVE  TypedOK(ui') /\ ContactOK(ui')
  <2>1. TypedOK(u)
    BY <1>2, TypedSame
  <2>2. TypedOK(ui') /\ DOMAIN ui' = DOMAIN u
    BY <1>2, <2>1, ChangedKept
  <2> QED BY <1>2, <2>2 DEF ContactOK
<1>0. {"draft", "typed", "filled", "map", "marker", "query", "timer", "results", "searching"} \subseteq DOMAIN ui
  BY DEF TypedOK, ContactOK
<1>3. CASE PickerLoads \/ handleQueryChange
  <2>1. \/ \E m, k : ui' = [ui EXCEPT !.map = m, !.marker = k]
        \/ \E m : ui' = [ui EXCEPT !.map = m]
        \/ \E q, t : ui' = [ui EXCEPT !.query = q, !.results = None, !.timer = t]
    BY <1>3 DEF PickerLoads, handleQueryChange, Ui
  <2> QED BY <1>0, <1>1, <2>1
<1>4. ASSUME NEW q, runNominatimSearch(q) PROVE TypedOK(ui') /\ ContactOK(ui')
  <2>1. ui' = [ui EXCEPT !.timer = None, !.searching = TRUE]
    BY <1>4 DEF runNominatimSearch
  <2> QED BY <1>0, <1>1, <2>1
<1>5. CASE DragOrClick \/ GooglePicker
  <2>1. CASE \E m : ui' = [ui EXCEPT !.map = m]
    BY <1>0, <1>1, <2>1
  <2>2. CASE \E p, a : ui' = onChange(p, a, [ui EXCEPT !.marker = p])
    <3>1. PICK p, a, u : u = [ui EXCEPT !.marker = p] /\ ui' = onChange(p, a, u)
      BY <2>2
    <3>2. DOMAIN u = DOMAIN ui /\ u.draft = ui.draft /\ u.typed = ui.typed /\ u.filled = ui.filled
      BY <1>0, <3>1
    <3> QED BY <1>2, <3>1, <3>2
  <2> QED BY <1>5, <2>1, <2>2 DEF DragOrClick, GooglePicker, Ui
<1>6. CASE selectResult
  <2>1. PICK m, p, u : u = [ui EXCEPT !.query = p, !.results = None, !.marker = m] /\ ui' = onChange(p, p, u)
    BY <1>6 DEF selectResult, Ui
  <2>2. DOMAIN u = DOMAIN ui /\ u.draft = ui.draft /\ u.typed = ui.typed /\ u.filled = ui.filled
    BY <1>0, <2>1
  <2> QED BY <1>2, <2>1, <2>2
<1> QED BY <1>3, <1>4, <1>5, <1>6 DEF LocationPicker, OsmPicker, DebounceTimer

LEMMA TypedNext == ASSUME Orderly, TypedInv, [Next]_pageVars PROVE TypedInv'
<1> SUFFICES ASSUME page' \in {"settings", "contact"}
             PROVE  TypedOK(ui') /\ (page' = "contact" => ContactOK(ui'))
  BY DEF TypedInv
<1>1. page \in {"settings", "contact"} /\ page' = page /\ TypedOK(ui) /\ (page = "contact" => ContactOK(ui))
  BY PageStays DEF TypedInv
<1>2. CASE ui' = ui
  BY <1>1, <1>2
<1>3. CASE Pages
  BY <1>1, <1>3, SettingsTyped, ContactTyped DEF Pages
<1>4. ASSUME NEW i \in CallIds, Answer(i) PROVE TypedOK(ui') /\ (page' = "contact" => ContactOK(ui'))
  <2>1. calls[i].op # "create"
    <3>1. calls[i].op \in {"updateMe", "brandImage", "search", "none"}
      BY <1>1 DEF Orderly, CallsOK, CallOK, OpsOf, NoCall
    <3> QED BY <3>1
  <2>2. PICK ok \in BOOLEAN : \/ page = "settings" /\ SettingsAnswer(i, ok)
                              \/ page = "contact" /\ ContactAnswer(i, ok)
    BY <1>1, <1>4, <2>1 DEF Answer, Settle
  <2>3. CASE page = "settings" /\ SettingsAnswer(i, ok)
    BY <1>1, <2>3, HydratedKept DEF SettingsAnswer
  <2>4. CASE page = "contact" /\ ContactAnswer(i, ok)
    <3>1. PICK r : ui' = [ui EXCEPT !.searching = FALSE, !.results = r]
      BY <2>4 DEF ContactAnswer
    <3>2. DOMAIN ui' = DOMAIN ui /\ ui'.draft = ui.draft /\ ui'.typed = ui.typed /\ ui'.filled = ui.filled
      BY <1>1, <2>4, <3>1 DEF TypedOK, ContactOK
    <3>3. ASSUME NEW w, w = ui' PROVE TypedOK(w)
      BY <1>1, <3>2, <3>3, TypedSame
    <3> QED BY <1>1, <3>2, <3>3 DEF ContactOK
  <2> QED BY <2>2, <2>3, <2>4
<1>5. ASSUME NEW k \in DOMAIN seen, Fetch(k) \/ FetchFails(k) \/ Refetch(k)
      PROVE  TypedOK(ui') /\ (page' = "contact" => ContactOK(ui'))
  <2>1. k = "me"
    BY <1>1 DEF Orderly, KeysOf
  <2>2. ui' = ui \/ \E me : ui' = useHydratedForm(me)
    BY <1>5, <2>1 DEF Fetch, FetchRead, PageHears, NearbyKeys, FetchFails, Refetch
  <2> QED BY <1>1, <2>2, HydratedKept DEF ContactOK
<1>6. ASSUME NEW i \in CallIds, Handle(i) PROVE ui' = ui
  BY <1>6, HandleSteps DEF HandleStep
<1> QED BY <1>2, <1>3, <1>4, <1>5, <1>6 DEF Next, pageVars

LEMMA TypedInit == ASSUME Init PROVE TypedInv
<1>1. ASSUME page \in {"settings", "contact"} PROVE SettingsInit \/ ContactInit
  BY <1>1 DEF Init, NewLoyaltyInit, LoyaltyDetailInit, NewCampaignInit, CampaignDetailInit, OnboardingInit, MenuInit,
      GalleryInit, TeamInit, SetupInit, StaffingInit, OverviewInit, HomeInit, TabInit, OfferInit, GroupInit,
      NearbyInit, BusinessInit, HeroesInit, QrInit, VoucherInit, WalletInit, BoardInit, ProfileInit
<1>2. ASSUME SettingsInit PROVE TypedOK(ui) /\ page = "settings"
  BY <1>2 DEF SettingsInit, TypedOK
<1>3. ASSUME ContactInit PROVE TypedOK(ui) /\ ContactOK(ui)
  BY <1>3 DEF ContactInit, TypedOK, ContactOK
<1> QED BY <1>1, <1>2, <1>3 DEF TypedInv

\* What the owner has typed into a section or picked on its map stays there,
\* whatever is fetched, found or saved meanwhile by this section or another.
THEOREM FormKeepsTyped == Spec => []TypedStays
<1>1. Init => Orderly /\ TypedInv
  BY OrderlyInit, TypedInit
<1>2. Orderly /\ TypedInv /\ [Next]_pageVars => Orderly' /\ TypedInv'
  BY OrderlyNext, TypedNext
<1>3. TypedInv => TypedStays
  BY DEF TypedInv, TypedOK, TypedStays
<1> QED BY <1>1, <1>2, <1>3, PTL DEF Spec

-----------------------------------------------------------------------------
(* The board of patches. *)

LEMMA UnseenInOrder ==
    ASSUME NEW D \in SUBSET Patches
    PROVE  SetToSeq(D) \in Seq(Patches) /\ IsInjective(SetToSeq(D))
<1>1. IsFiniteSet(D)
  <2>1. D \in SUBSET Nat /\ 2 \in Nat /\ \A p \in D : p <= 2
    BY DEF Patches
  <2> QED BY <2>1, FS_BoundedSetOfNaturals
<1>2. PICK n \in Nat : n = Cardinality(D) /\ ExistsBijection(1..n, D)
  BY <1>1, FS_CardinalityType
<1>3. \E f \in [1..n -> D] : IsInjective(f)
  BY <1>2 DEF ExistsBijection, Bijection, Injection
<1>4. PICK f \in [1..n -> D] : f = SetToSeq(D) /\ IsInjective(f)
  BY <1>2, <1>3 DEF SetToSeq
<1>5. f \in Seq(Patches)
  <2>1. f \in [1..n -> Patches]
    BY <1>4
  <2> QED BY <2>1
<1> QED BY <1>4, <1>5

\* The head of the queue becomes the last of the moments.
LEMMA MomentMoves ==
    ASSUME NEW m \in Seq(Patches), NEW q \in Seq(Patches), q # <<>>
    PROVE  /\ Append(m, Head(q)) \in Seq(Patches) /\ Tail(q) \in Seq(Patches)
           /\ Append(m, Head(q)) \o Tail(q) = m \o q
OBVIOUS

\* A page without data has shown nothing and has nothing to show.
BoardOK(u) ==
    /\ {"seeded", "queue", "moments", "latched"} \subseteq DOMAIN u
    /\ u.queue \in Seq(Patches) /\ u.moments \in Seq(Patches)
    /\ IsInjective(u.moments \o u.queue)
    /\ ~ u.seeded => u.queue = <<>> /\ u.moments = <<>>

\* What is read lists patches.
ListsPatches(q) == q.got = None \/ q.got.unseen \subseteq Patches

BoardInv == page = "board" => /\ BoardOK(ui)
                              /\ \A k \in DOMAIN seen : k = "patches" /\ ListsPatches(seen[k])

LEMMA SeedKept ==
    ASSUME NEW u, BoardOK(u), NEW data, data = None \/ data.unseen \subseteq Patches, NEW w, w = SeedQueue(data, u)
    PROVE  BoardOK(w)
<1>1. CASE data = None \/ u.seeded
  BY <1>1 DEF SeedQueue
<1>2. CASE data # None /\ ~ u.seeded
  <2>1. PICK s : s = SetToSeq(data.unseen) /\ s \in Seq(Patches) /\ IsInjective(s)
    BY <1>2, UnseenInOrder
  <2>2. w = [u EXCEPT !.seeded = TRUE, !.queue = s]
    BY <1>2, <2>1 DEF SeedQueue
  <2>3. DOMAIN w = DOMAIN u /\ w.seeded = TRUE /\ w.queue = s /\ w.moments = <<>>
    BY <1>2, <2>2 DEF BoardOK
  <2>4. <<>> \o s = s
    BY <2>1
  <2> QED BY <2>1, <2>3, <2>4 DEF BoardOK
<1> QED BY <1>1, <1>2

LEMMA BoardPage == ASSUME BoardOK(ui), PatchesPage PROVE BoardOK(ui')
<1>1. CASE BoardSeenOnce
  <2>1. ui' = [ui EXCEPT !.latched = TRUE]
    BY <1>1 DEF BoardSeenOnce
  <2>2. DOMAIN ui' = DOMAIN ui /\ ui'.seeded = ui.seeded /\ ui'.queue = ui.queue /\ ui'.moments = ui.moments
    BY <2>1 DEF BoardOK
  <2> QED BY <2>2 DEF BoardOK
<1>2. CASE EarnMoment
  <2>1. ui.queue # <<>> /\ ui.seeded
    BY <1>2 DEF EarnMoment, BoardOK
  <2>2. PICK m, q : m = Append(ui.moments, Head(ui.queue)) /\ q = Tail(ui.queue)
    OBVIOUS
  <2>3. ui' = [ui EXCEPT !.queue = q, !.moments = m]
    BY <1>2, <2>2 DEF EarnMoment, BoardOK
  <2>4. DOMAIN ui' = DOMAIN ui /\ ui'.seeded = ui.seeded /\ ui'.queue = q /\ ui'.moments = m
    BY <2>3 DEF BoardOK
  <2>5. m \in Seq(Patches) /\ q \in Seq(Patches) /\ m \o q = ui.moments \o ui.queue
    BY <2>1, <2>2, MomentMoves DEF BoardOK
  <2> QED BY <2>1, <2>4, <2>5 DEF BoardOK
<1>3. CASE PatchEarned
  BY <1>3 DEF PatchEarned, Meanwhile
<1> QED BY <1>1, <1>2, <1>3 DEF PatchesPage

\* What is read of the board is nothing or the server's list.
LEMMA BoardQueries ==
    ASSUME Orderly, page = "board", BoardInv, Next
    PROVE  \A k \in DOMAIN seen' : k = "patches" /\ ListsPatches(seen'[k])
<1>1. \A k \in DOMAIN seen : k = "patches" /\ ListsPatches(seen[k]) /\ QueryOK(seen[k])
  BY DEF BoardInv, Orderly, QueriesOK
<1>2. ASSUME NEW q, QueryOK(q), ListsPatches(q), NEW r, Resent(q, r) PROVE ListsPatches(r)
  BY <1>2 DEF QueryOK, ListsPatches, Resent
<1>3. ASSUME NEW qs, qs = MissedBy(seen)
      PROVE  DOMAIN qs = DOMAIN seen /\ \A k \in DOMAIN qs : ListsPatches(qs[k])
  <2>1. DOMAIN qs = DOMAIN seen
    BY <1>3 DEF MissedBy
  <2>2. ASSUME NEW k \in DOMAIN seen PROVE qs[k].got = seen[k].got
    <3>1. qs[k] = seen[k] \/ qs[k] = [seen[k] EXCEPT !.missed = TRUE]
      BY <1>3, <2>2 DEF MissedBy
    <3> QED BY <1>1, <3>1 DEF QueryOK
  <2> QED BY <1>1, <2>1, <2>2 DEF ListsPatches
<1>4. CASE PageStep
  <2>1. CASE Proceeds
    BY <1>1, <1>2, <2>1 DEF Proceeds, Requeried
  <2>2. CASE Changes
    BY <1>1, <1>3, <2>2 DEF Changes
  <2>3. CASE Leaves
    BY <2>3 DEF Leaves
  <2> QED BY <1>4, <2>1, <2>2, <2>3 DEF PageStep
<1>5. ASSUME NEW i \in CallIds, HandleStep(i) PROVE seen' = seen
  BY <1>5 DEF HandleStep
<1>6. ASSUME NEW k \in DOMAIN seen, FetchStep(k) PROVE DOMAIN seen' = DOMAIN seen /\ ListsPatches(seen'[k])
  <2>1. k = "patches" /\ ListsPatches(seen[k])
    BY <1>1
  <2>2. View(k).unseen \subseteq Patches
    <3>1. View(k) = PatchesView
      BY <2>1 DEF View, NearbyKeys, HomeKeys
    <3> QED BY <3>1 DEF PatchesView
  <2>3. \/ seen'[k].got = None \/ seen'[k].got = seen[k].got \/ seen'[k].got = View(k)
    BY <1>6, <2>1 DEF FetchStep, ReadQuery, ArrivedQuery, FailedQuery, SentQuery
  <2> QED BY <1>6, <2>1, <2>2, <2>3 DEF FetchStep, ListsPatches
<1>7. ASSUME NEW i \in CallIds, Answer(i)
      PROVE  DOMAIN seen' = DOMAIN seen /\ \A k \in DOMAIN seen : ListsPatches(seen'[k])
  <2>1. calls[i].op # "create"
    <3>1. calls[i].op \in {"patchSeen", "boardSeen", "none"}
      BY DEF Orderly, CallsOK, CallOK, OpsOf, NoCall
    <3> QED BY <3>1
  <2>2. PICK ok \in BOOLEAN : BoardAnswer(i, ok)
    BY <1>7, <2>1 DEF Answer, Settle
  <2>3. CASE ok
    <3>1. seen' = Invalidated({"patches"}, {"patches"}, seen)
      BY <2>2, <2>3 DEF BoardAnswer
    <3>2. DOMAIN seen' = DOMAIN seen
      BY <3>1 DEF Invalidated
    <3>3. ASSUME NEW k \in DOMAIN seen PROVE seen'[k].got = None
      <4>1. seen'[k] = [seen[k] EXCEPT !.stale = TRUE, !.fetch = "sent", !.got = None]
        BY <1>1, <3>1, <3>3 DEF Invalidated
      <4> QED BY <1>1, <4>1 DEF QueryOK
    <3> QED BY <3>2, <3>3 DEF ListsPatches
  <2>4. CASE ~ ok
    BY <1>1, <1>3, <2>2, <2>4 DEF BoardAnswer, Missed
  <2> QED BY <2>3, <2>4
<1>8. CASE Pages
  <2>1. PageStep
    BY <1>8, PageSteps DEF Pages
  <2> QED BY <1>4, <2>1
<1>9. ASSUME NEW i \in CallIds, Handle(i) PROVE seen' = seen
  BY <1>9, <1>5, HandleSteps
<1>10. ASSUME NEW k \in DOMAIN seen, Fetch(k) \/ FetchFails(k) \/ Refetch(k)
       PROVE  \A j \in DOMAIN seen' : j = "patches" /\ ListsPatches(seen'[j])
  <2>1. FetchStep(k)
    BY <1>10, FetchSteps
  <2> QED BY <1>1, <1>6, <2>1
<1> QED BY <1>1, <1>7, <1>8, <1>9, <1>10 DEF Next

LEMMA BoardNext == ASSUME Orderly, BoardInv, [Next]_pageVars PROVE BoardInv'
<1> SUFFICES ASSUME page' = "board"
             PROVE  BoardOK(ui') /\ \A k \in DOMAIN seen' : k = "patches" /\ ListsPatches(seen'[k])
  BY DEF BoardInv
<1>1. page = "board" /\ BoardOK(ui) /\ \A k \in DOMAIN seen : k = "patches" /\ ListsPatches(seen[k])
  BY PageStays DEF BoardInv
<1>2. CASE UNCHANGED pageVars
  BY <1>1, <1>2 DEF pageVars
<1>3. ASSUME Pages PROVE BoardOK(ui')
  BY <1>1, <1>3, BoardPage DEF Pages
<1>4. ASSUME NEW i \in CallIds, Handle(i) PROVE BoardOK(ui')
  BY <1>1, <1>4, HandleSteps DEF HandleStep
<1>5. ASSUME NEW i \in CallIds, Answer(i) PROVE BoardOK(ui')
  <2>1. calls[i].op \in {"patchSeen", "boardSeen", "none"}
    BY <1>1 DEF Orderly, CallsOK, CallOK, OpsOf, NoCall
  <2>2. \E ok \in BOOLEAN : BoardAnswer(i, ok)
    BY <1>1, <1>5, <2>1 DEF Answer, Settle
  <2> QED BY <1>1, <2>2 DEF BoardAnswer
<1>6. ASSUME NEW k \in DOMAIN seen, Fetch(k) \/ FetchFails(k) \/ Refetch(k) PROVE BoardOK(ui')
  <2>1. k = "patches" /\ ListsPatches(seen["patches"])
    BY <1>1
  <2>2. ui' = ui \/ ui' = SeedQueue(seen["patches"].got, ui)
    BY <1>6, <2>1 DEF Fetch, FetchRead, PageHears, NearbyKeys, FetchFails, Refetch
  <2> QED BY <1>1, <2>1, <2>2, SeedKept DEF ListsPatches
<1>7. CASE Next
  <2>1. BoardOK(ui')
    BY <1>3, <1>4, <1>5, <1>6, <1>7 DEF Next
  <2>2. \A k \in DOMAIN seen' : k = "patches" /\ ListsPatches(seen'[k])
    BY <1>1, <1>7, BoardQueries
  <2> QED BY <2>1, <2>2
<1> QED BY <1>2, <1>7

LEMMA BoardOpens == ASSUME Init PROVE BoardInv
<1>1. ASSUME page = "board" PROVE BoardInit
  BY <1>1 DEF Init, NewLoyaltyInit, LoyaltyDetailInit, NewCampaignInit, CampaignDetailInit, OnboardingInit,
      SettingsInit, MenuInit, GalleryInit, TeamInit, SetupInit, StaffingInit, OverviewInit, HomeInit, TabInit,
      OfferInit, GroupInit, ContactInit, NearbyInit, BusinessInit, HeroesInit, QrInit, VoucherInit, WalletInit,
      ProfileInit
<1>2. ASSUME BoardInit
      PROVE  BoardOK(ui) /\ \A k \in DOMAIN seen : k = "patches" /\ ListsPatches(seen[k])
  <2>1. PICK old \in {None, [unseen |-> {}, board |-> FALSE], [unseen |-> {1}, board |-> FALSE]} :
              /\ seen = [patches |-> Fetching(old)]
              /\ ui = SeedQueue(old, [seeded |-> FALSE, queue |-> <<>>, moments |-> <<>>, latched |-> FALSE])
    BY <1>2 DEF BoardInit
  <2>2. ASSUME NEW u, u = [seeded |-> FALSE, queue |-> <<>>, moments |-> <<>>, latched |-> FALSE]
        PROVE  BoardOK(u)
    <3>1. u.moments \o u.queue = <<>>
      BY <2>2
    <3>2. IsInjective(u.moments \o u.queue)
      BY <3>1 DEF IsInjective
    <3> QED BY <2>2, <3>2 DEF BoardOK
  <2>3. old = None \/ old.unseen \subseteq Patches
    BY <2>1 DEF Patches
  <2>4. BoardOK(ui)
    BY <2>1, <2>2, <2>3, SeedKept
  <2>5. Fetching(old).got = None
    BY DEF Fetching, Cached
  <2> QED BY <2>1, <2>4, <2>5 DEF ListsPatches
<1> QED BY <1>1, <1>2 DEF BoardInv

\* A visit to the board celebrates each patch once: one data fills the queue,
\* and what has left it, while answers and marks cross, does not come back.
THEOREM CelebratedOnce == Spec => []EarnMomentOnce
<1>1. Init => Orderly /\ BoardInv
  BY OrderlyInit, BoardOpens
<1>2. Orderly /\ BoardInv /\ [Next]_pageVars => Orderly' /\ BoardInv'
  BY OrderlyNext, BoardNext
<1>3. BoardInv => EarnMomentOnce
  BY DEF BoardInv, BoardOK, EarnMomentOnce
<1> QED BY <1>1, <1>2, <1>3, PTL DEF Spec

-----------------------------------------------------------------------------
(* The wizard that creates a loyalty program. *)

Levels == [name : TierNames, visits : Texts, percent : Texts]

LevelsOK(rows) == rows \in Seq(Levels) /\ Len(rows) \in 1..MaxLevels

\* What a row is sent as, a ladder that keeps the service's rules, and what the
\* wizard may send.
SentLevels == [name : TierNames, min_visits : Nat, cashback_percent : Nat]

Ladder(tiers) == tiers \in Seq(SentLevels) /\ tiers # <<>> /\ validateTiers(tiers)

LadderOrNone(tiers) == tiers = <<>> \/ Ladder(tiers)

LEMMA LevelsAreCapped == MaxLevels \in Nat /\ 1 <= MaxLevels
<1>1. MaxLevels \in Nat \ {0}
  BY LoyaltyPagesAssumption, Zenon
<1> QED BY <1>1

LEMMA EmptyTexts == "" \in TierNames /\ "0" \in Texts /\ "5" \in Texts
<1>1. "" \in TierNames
  BY LoyaltyPagesAssumption, Zenon
<1>2. {"0", "5"} \subseteq Texts
  BY LoyaltyPagesAssumption, Zenon DEF Texts
<1> QED BY <1>1, <1>2

\* What the editor makes of the levels.
EditOf(rows, new) ==
    \/ \E i \in DOMAIN rows, n \in TierNames : new = [rows EXCEPT ![i].name = n]
    \/ \E i \in DOMAIN rows, x \in Texts : new = [rows EXCEPT ![i].percent = x]
    \/ \E i \in DOMAIN rows \ {1}, x \in Texts : new = [rows EXCEPT ![i].visits = x]
    \/ \E i \in DOMAIN rows \ {1} : new = RemoveAt(rows, i)
    \/ /\ Len(rows) < MaxLevels
       /\ \E x \in Texts : new = Append(rows, [name |-> "", visits |-> x, percent |-> LastOf(rows).percent])

LEMMA LevelsEdited ==
    ASSUME NEW rows, LevelsOK(rows), NEW new, EditOf(rows, new)
    PROVE  LevelsOK(new)
<1>0. /\ rows \in Seq(Levels) /\ Len(rows) \in 1..MaxLevels /\ Len(rows) \in Nat /\ MaxLevels \in Nat
      /\ DOMAIN rows = 1..Len(rows) /\ \A i \in 1..Len(rows) : rows[i] \in Levels
  BY LenProperties, ElementOfSeq, LevelsAreCapped DEF LevelsOK
<1>a. Len(rows) \in Nat /\ MaxLevels \in Nat /\ 1 <= Len(rows) /\ Len(rows) <= MaxLevels
  BY <1>0
<1>1. ASSUME NEW i \in 1..Len(rows), NEW e \in Levels PROVE LevelsOK([rows EXCEPT ![i] = e])
  BY <1>0, <1>1, ExceptSeq DEF LevelsOK
<1>2. ASSUME NEW i \in DOMAIN rows, NEW n \in TierNames, new = [rows EXCEPT ![i].name = n] PROVE LevelsOK(new)
  <2>0. i \in 1..Len(rows)
    BY <1>0
  <2>1. [rows[i] EXCEPT !.name = n] \in Levels
    BY <1>0, <2>0 DEF Levels
  <2>2. new = [rows EXCEPT ![i] = [rows[i] EXCEPT !.name = n]]
    BY <1>2
  <2> QED BY <1>1, <2>0, <2>1, <2>2
<1>3. ASSUME NEW i \in DOMAIN rows, NEW x \in Texts, new = [rows EXCEPT ![i].percent = x] PROVE LevelsOK(new)
  <2>0. i \in 1..Len(rows)
    BY <1>0
  <2>1. [rows[i] EXCEPT !.percent = x] \in Levels
    BY <1>0, <2>0 DEF Levels
  <2>2. new = [rows EXCEPT ![i] = [rows[i] EXCEPT !.percent = x]]
    BY <1>3
  <2> QED BY <1>1, <2>0, <2>1, <2>2
<1>4. ASSUME NEW i \in DOMAIN rows \ {1}, NEW x \in Texts, new = [rows EXCEPT ![i].visits = x] PROVE LevelsOK(new)
  <2>0. i \in 1..Len(rows)
    BY <1>0
  <2>1. [rows[i] EXCEPT !.visits = x] \in Levels
    BY <1>0, <1>4, <2>0 DEF Levels
  <2>2. new = [rows EXCEPT ![i] = [rows[i] EXCEPT !.visits = x]]
    BY <1>4
  <2> QED BY <1>1, <2>0, <2>1, <2>2
<1>5. ASSUME NEW i \in 2..Len(rows), new = RemoveAt(rows, i) PROVE LevelsOK(new)
  <2>1. PICK before, after : before = SubSeq(rows, 1, i - 1) /\ after = SubSeq(rows, i + 1, Len(rows))
    OBVIOUS
  <2>2. before \in Seq(Levels) /\ Len(before) = i - 1
    BY <1>0, <2>1, SubSeqProperties
  <2>3. after \in Seq(Levels) /\ Len(after) = Len(rows) - i
    <3>1. PICK m \in Int, n \in Int : m = i + 1 /\ n = Len(rows)
      BY <1>a, <1>5
    <3>2. \A j \in m..n : rows[j] \in Levels
      BY <1>0, <1>a, <1>5, <3>1
    <3>3. SubSeq(rows, m, n) \in Seq(Levels) /\ Len(SubSeq(rows, m, n)) = IF m <= n THEN n - m + 1 ELSE 0
      BY <3>2, SubSeqProperties, Zenon
    <3>4. after = SubSeq(rows, m, n)
      BY <2>1, <3>1
    <3>5. after \in Seq(Levels) /\ Len(after) = IF m <= n THEN n - m + 1 ELSE 0
      BY <3>3, <3>4
    <3>6. (IF m <= n THEN n - m + 1 ELSE 0) = Len(rows) - i
      BY <1>a, <1>5, <3>1
    <3> QED BY <3>5, <3>6
  <2>4. new = before \o after
    BY <1>5, <2>1 DEF RemoveAt
  <2>5. new \in Seq(Levels) /\ Len(new) = Len(before) + Len(after)
    BY <2>2, <2>3, <2>4, ConcatProperties, Zenon
  <2>6. Len(new) \in 1..MaxLevels
    BY <1>a, <1>5, <2>2, <2>3, <2>5
  <2> QED BY <2>5, <2>6 DEF LevelsOK
<1>6. ASSUME Len(rows) < MaxLevels, NEW x \in Texts,
             new = Append(rows, [name |-> "", visits |-> x, percent |-> LastOf(rows).percent])
      PROVE  LevelsOK(new)
  <2>1. PICK e : e = [name |-> "", visits |-> x, percent |-> LastOf(rows).percent]
    OBVIOUS
  <2>2. LastOf(rows).percent \in Texts
    BY <1>0 DEF Levels, LastOf
  <2>3. e \in Levels
    BY <2>1, <2>2, EmptyTexts DEF Levels
  <2>4. new \in Seq(Levels) /\ Len(new) = Len(rows) + 1
    BY <1>0, <1>6, <2>1, <2>3, AppendProperties, Zenon
  <2>5. Len(rows) < MaxLevels
    BY <1>6
  <2>6. Len(new) \in 1..MaxLevels
    BY <1>a, <2>4, <2>5
  <2> QED BY <2>4, <2>6 DEF LevelsOK
<1>7. DOMAIN rows \ {1} = 2..Len(rows)
  BY <1>0
<1>8. ASSUME NEW i \in DOMAIN rows \ {1}, new = RemoveAt(rows, i) PROVE LevelsOK(new)
  <2>1. i \in 2..Len(rows)
    BY <1>7
  <2> QED BY <2>1, <1>8, <1>5
<1>9. CASE \E i \in DOMAIN rows \ {1} : new = RemoveAt(rows, i)
  BY <1>8, <1>9
<1> QED BY <1>2, <1>3, <1>4, <1>6, <1>9, Zenon DEF EditOf

LEMMA HundredIsNat == HundredPercent \in Nat
BY DEF HundredPercent

LEMMA Percents == ASSUME NEW x \in 1..HundredPercent PROVE x \in Nat
BY HundredIsNat

\* Rows that pass the editor's check are sent as a ladder with the service's rules.
LEMMA LevelsAccepted ==
    ASSUME NEW rows, LevelsOK(rows), draftsToTiers(rows) # None
    PROVE  Ladder(draftsToTiers(rows))
<1>0. /\ rows \in Seq(Levels) /\ Len(rows) \in 1..MaxLevels /\ Len(rows) \in Nat /\ MaxLevels \in Nat
      /\ DOMAIN rows = 1..Len(rows) /\ \A i \in 1..Len(rows) : rows[i] \in Levels
  BY LenProperties, ElementOfSeq, LevelsAreCapped DEF LevelsOK
<1>1. /\ draftsToTiers(rows) = [i \in 1..Len(rows) |-> Level(rows[i])]
      /\ \A i \in 1..Len(rows) :
            /\ Lower[rows[i].name] # ""
            /\ \A j \in 1..(i - 1) : Lower[rows[j].name] # Lower[rows[i].name]
            /\ Number[rows[i].percent] \in 1..HundredPercent
            /\ Integer[rows[i].visits] \in Nat
            /\ IF i = 1 THEN Integer[rows[i].visits] = 0
               ELSE Integer[rows[i].visits] > Integer[rows[i - 1].visits]
  BY <1>0 DEF draftsToTiers
<1>2. PICK tiers : tiers = draftsToTiers(rows)
  OBVIOUS
<1>3. \A i \in 1..Len(rows) : /\ tiers[i].name = rows[i].name
                             /\ tiers[i].min_visits = Integer[rows[i].visits]
                             /\ tiers[i].cashback_percent = Number[rows[i].percent]
  <2>1. tiers = [i \in 1..Len(rows) |-> Level(rows[i])]
    BY <1>1, <1>2
  <2>2. ASSUME NEW i \in 1..Len(rows)
        PROVE  /\ Level(rows[i]).name = rows[i].name
               /\ Level(rows[i]).min_visits = Integer[rows[i].visits]
               /\ Level(rows[i]).cashback_percent = Number[rows[i].percent]
    BY DEF Level
  <2>3. \A i \in 1..Len(rows) : tiers[i] = Level(rows[i])
    BY <2>1
  <2> QED BY <2>2, <2>3
<1>4. tiers \in Seq(SentLevels) /\ Len(tiers) = Len(rows) /\ DOMAIN tiers = 1..Len(rows)
  <2>1. ASSUME NEW i \in 1..Len(rows) PROVE Level(rows[i]) \in SentLevels
    <3>1. rows[i].name \in TierNames
      BY <1>0 DEF Levels
    <3>2. Integer[rows[i].visits] \in Nat
      BY <1>1
    <3>3. Number[rows[i].percent] \in 1..HundredPercent
      BY <1>1
    <3>4. Number[rows[i].percent] \in Nat
      BY <3>3, Percents
    <3> QED BY <3>1, <3>2, <3>4 DEF Level, SentLevels
  <2>2. tiers \in [1..Len(rows) -> SentLevels]
    BY <1>1, <1>2, <2>1
  <2>3. tiers \in Seq(SentLevels)
    BY <1>0, <2>2, SeqDef
  <2>4. DOMAIN tiers = 1..Len(rows)
    BY <2>2
  <2> QED BY <1>0, <2>3, <2>4, LenProperties
<1> DEFINE N == {Lower[tiers[i].name] : i \in 1..Len(rows)}
           f == [i \in 1..Len(rows) |-> Lower[tiers[i].name]]
<1>5. Cardinality(N) = Len(rows)
  <2>1. f \in [1..Len(rows) -> N]
    OBVIOUS
  <2>2. \A i, j \in 1..Len(rows) : f[i] = f[j] => i = j
    <3>1. ASSUME NEW i \in 1..Len(rows), NEW j \in 1..Len(rows), j < i PROVE f[j] # f[i]
      <4>1. j \in 1..(i - 1)
        BY <1>0, <3>1
      <4>2. Lower[rows[j].name] # Lower[rows[i].name]
        BY <1>1, <4>1
      <4> QED BY <1>3, <4>2
    <3>2. \A i, j \in 1..Len(rows) : i < j \/ j < i \/ i = j
      BY <1>0
    <3> QED BY <3>1, <3>2
  <2>3. \A n \in N : \E i \in 1..Len(rows) : f[i] = n
    OBVIOUS
  <2> HIDE DEF f, N
  <2>4. f \in Bijection(1..Len(rows), N)
    <3>1. DOMAIN f = 1..Len(rows)
      BY <2>1
    <3> QED BY <2>1, <2>2, <2>3, <3>1 DEF Bijection, Injection, Surjection, IsInjective
  <2> QED BY <1>0, <2>4, FS_CountingElements DEF ExistsBijection
<1>6. Cardinality({Lower[tiers[i].name] : i \in DOMAIN tiers} \ {""}) = Len(tiers)
  <2>1. \A i \in 1..Len(rows) : Lower[tiers[i].name] # ""
    BY <1>1, <1>3
  <2>2. N \ {""} = N
    BY <2>1
  <2> QED BY <1>4, <1>5, <2>2
<1>7. Len(tiers) <= MaxLevels /\ 1 \in 1..Len(rows)
  BY <1>0, <1>4
<1>8. tiers[1].min_visits = 0
  BY <1>1, <1>3, <1>7
<1>9. ASSUME NEW i \in 2..Len(tiers) PROVE tiers[i].min_visits > tiers[i - 1].min_visits
  <2>1. i \in 1..Len(rows) /\ i - 1 \in 1..Len(rows) /\ i # 1
    BY <1>0, <1>4, <1>9
  <2> QED BY <1>1, <1>3, <2>1
<1>10. \A i \in DOMAIN tiers : tiers[i].cashback_percent \in 1..HundredPercent
  BY <1>1, <1>3, <1>4
<1> HIDE DEF N, f
<1>11. validateTiers(tiers)
  BY <1>6, <1>7, <1>8, <1>9, <1>10 DEF validateTiers
<1>12. tiers # <<>>
  BY <1>4, <1>7
<1> QED BY <1>2, <1>4, <1>11, <1>12 DEF Ladder

LEMMA NoLevelsAccepted == ASSUME NEW rows, rows = <<>> PROVE validateTiers(rows)
<1>1. DOMAIN rows = {} /\ Len(rows) = 0
  OBVIOUS
<1>2. {Lower[rows[i].name] : i \in DOMAIN rows} \ {""} = {}
  BY <1>1
<1>3. Cardinality({Lower[rows[i].name] : i \in DOMAIN rows} \ {""}) = 0
  BY <1>2, FS_EmptySet
<1>4. 0 <= MaxLevels /\ 2..0 = {}
  BY LevelsAreCapped
<1> QED BY <1>1, <1>3, <1>4 DEF validateTiers

WizardOK(u) ==
    /\ {"step", "form", "leaving"} \subseteq DOMAIN u
    /\ {"type", "named", "basis", "reward", "itemMode", "tiersEnabled", "tiers"} \subseteq DOMAIN u.form
    /\ LevelsOK(u.form.tiers)

LaddersSent == \A i \in CallIds : calls[i].op = "create" => LadderOrNone(calls[i].arg)

LadderInv ==
    /\ page = "loyaltyNew" => WizardOK(ui) /\ LadderOrNone(srv.ladder)
    /\ LaddersSent

\* The form changes: another field than the levels, or these as the editor does.
Fills(g, f) ==
    \/ \E v : \/ g = [f EXCEPT !.type = v] \/ g = [f EXCEPT !.named = v] \/ g = [f EXCEPT !.basis = v]
              \/ g = [f EXCEPT !.tiersEnabled = v] \/ g = [f EXCEPT !.reward = v] \/ g = [f EXCEPT !.itemMode = v]
    \/ \E rows : EditOf(f.tiers, rows) /\ g = [f EXCEPT !.tiers = rows]

LEMMA FormSet == ASSUME WizardOK(ui), NEW g, SetForm(g), Fills(g, ui.form) PROVE WizardOK(ui')
<1>1. DOMAIN g = DOMAIN ui.form /\ LevelsOK(g.tiers)
  <2>1. ASSUME NEW rows, EditOf(ui.form.tiers, rows), g = [ui.form EXCEPT !.tiers = rows]
        PROVE  DOMAIN g = DOMAIN ui.form /\ LevelsOK(g.tiers)
    <3>1. DOMAIN g = DOMAIN ui.form /\ g.tiers = rows
      BY <2>1 DEF WizardOK
    <3> QED BY <2>1, <3>1, LevelsEdited DEF WizardOK
  <2>2. CASE \E v : \/ g = [ui.form EXCEPT !.type = v] \/ g = [ui.form EXCEPT !.named = v]
                    \/ g = [ui.form EXCEPT !.basis = v] \/ g = [ui.form EXCEPT !.tiersEnabled = v]
                    \/ g = [ui.form EXCEPT !.reward = v] \/ g = [ui.form EXCEPT !.itemMode = v]
    <3>1. DOMAIN g = DOMAIN ui.form /\ g.tiers = ui.form.tiers
      BY <2>2 DEF WizardOK
    <3> QED BY <3>1 DEF WizardOK
  <2> QED BY <2>1, <2>2 DEF Fills
<1>2. ui' = [ui EXCEPT !.form = g]
  BY DEF SetForm, Ui
<1> QED BY <1>1, <1>2 DEF WizardOK

LEMMA WizardPage == ASSUME WizardOK(ui), NewLoyaltyPage, page' # "left" PROVE WizardOK(ui')
<1>1. CASE StepReview
  BY <1>1 DEF StepReview, SendOnly
<1>2. CASE Stepper
  <2>1. \E v : ui' = [ui EXCEPT !.step = v]
    BY <1>2 DEF Stepper, Ui
  <2> QED BY <2>1 DEF WizardOK
<1>3. CASE StepType \/ StepReward
  <2>1. \E g : SetForm(g) /\ Fills(g, ui.form)
    BY <1>3 DEF StepType, StepReward, Fills
  <2> QED BY <2>1, FormSet
<1>4. CASE StepMechanics
  <2>1. CASE TierEditor
    <3>1. \E rows : EditOf(ui.form.tiers, rows) /\ SetForm([ui.form EXCEPT !.tiers = rows])
      BY <2>1, Zenon DEF TierEditor, EditOf
    <3>2. \E g : SetForm(g) /\ Fills(g, ui.form)
      BY <3>1 DEF Fills
    <3> QED BY <3>2, FormSet
  <2>2. CASE ~ TierEditor
    <3>1. \E g : SetForm(g) /\ Fills(g, ui.form)
      BY <1>4, <2>2 DEF StepMechanics, Fills
    <3> QED BY <3>1, FormSet
  <2> QED BY <2>1, <2>2
<1> QED BY <1>1, <1>2, <1>3, <1>4 DEF NewLoyaltyPage, NewLoyaltyLeft

\* Calls that create keep what they were sent with.
CreatesKept == \A j \in CallIds : calls'[j].op = "create" => calls[j].op = "create" /\ calls'[j].arg = calls[j].arg

LEMMA WizardCalls ==
    ASSUME Orderly, page = "loyaltyNew", WizardOK(ui), NewLoyaltyPage
    PROVE  CreatesKept \/ \E arg : LadderOrNone(arg) /\ Sent("create", "page", arg, calls, calls')
<1>1. CASE StepReview
  <2>1. PICK arg : arg = Payload(ui.form) /\ Call("create", "page", arg)
    BY <1>1 DEF StepReview, SendOnly
  <2>2. Sent("create", "page", arg, calls, calls')
    BY <2>1, CallSends
  <2>3. LadderOrNone(arg)
    <3>1. CASE tiersActive(ui.form)
      <4>1. draftsToTiers(ui.form.tiers) # None /\ arg = draftsToTiers(ui.form.tiers)
        BY <1>1, <2>1, <3>1 DEF StepReview, validateForm, Payload
      <4> QED BY <4>1, LevelsAccepted DEF WizardOK, LadderOrNone
    <3>2. CASE ~ tiersActive(ui.form)
      BY <2>1, <3>2 DEF Payload, LadderOrNone
    <3> QED BY <3>1, <3>2
  <2> QED BY <2>2, <2>3
<1>2. CASE NewLoyaltyLeft
  <2>1. calls' = Gone({"page"})
    BY <1>2 DEF NewLoyaltyLeft
  <2>2. PICK ats : ats = {"page"}
    OBVIOUS
  <2> QED BY <2>1, <2>2, GoneMakes DEF SameCall, CreatesKept
<1>3. CASE StepType \/ StepMechanics \/ StepReward \/ Stepper
  BY <1>3 DEF StepType, StepMechanics, TierEditor, StepReward, Stepper, SetForm, Ui, CreatesKept
<1> QED BY <1>1, <1>2, <1>3 DEF NewLoyaltyPage

LEMMA LadderCalls ==
    ASSUME Orderly, Orderly', LadderInv, Next
    PROVE  LaddersSent'
<1>1. ASSUME CreatesKept PROVE LaddersSent'
  BY <1>1 DEF LadderInv, LaddersSent, CreatesKept
<1>2. ASSUME NEW arg, LadderOrNone(arg), Sent("create", "page", arg, calls, calls') PROVE LaddersSent'
  BY <1>2 DEF LadderInv, LaddersSent, Sent, SameCall
<1>3. CASE page' \notin {"loyaltyNew", "left"}
  <2>1. "create" \notin OpsOf(page')
    BY <1>3 DEF OpsOf, LifecycleOps, CampaignActions, MemberOps
  <2>2. \A j \in CallIds : calls'[j].op # "create"
    BY <2>1 DEF Orderly, CallsOK, CallOK, NoCall
  <2> QED BY <2>2 DEF LaddersSent
<1>4. ASSUME Pages, page' \in {"loyaltyNew", "left"} PROVE LaddersSent'
  <2>1. page # "left" /\ (PageStep \/ page' = page)
    <3>1. page # "left"
      BY <1>4 DEF Pages
    <3>2. page = "tab" => "feed" \in DOMAIN seen
      BY DEF Orderly, KeysOf
    <3> QED BY <1>4, <3>1, <3>2, PageSteps, FeedSteps DEF FetchStep
  <2>2. CASE page = "loyaltyNew"
    BY <1>1, <1>2, <1>4, <2>2, WizardCalls DEF Pages, LadderInv
  <2>3. CASE page # "loyaltyNew"
    <3>1. page' = "left" /\ page \in {"business", "heroes"}
      BY <1>4, <2>1, <2>3 DEF PageStep, Proceeds, Changes, Leaves
    <3>2. calls' = calls
      BY <1>4, <3>1 DEF Pages, BusinessProfilePage, BusinessSheet, BusinessDetailsContent, OwnerChanges, Ui, Meanwhile,
         HeroesPage, HomeHeroCarousel, SnapTimer, NewCustomerHome, StaffStamps, Poll, startDrag, moveDrag, endDrag,
         NextFrame, HeroCard
    <3> QED BY <3>2 DEF LadderInv, LaddersSent
  <2> QED BY <2>2, <2>3
<1>5. ASSUME NEW i \in CallIds, Handle(i) PROVE CreatesKept
  BY <1>5, HandleSteps, HandledCalls DEF CreatesKept
<1>6. ASSUME NEW i \in CallIds, Answer(i), page' \in {"loyaltyNew", "left"} PROVE CreatesKept
  <2>1. page' = page /\ calls[i].op # "none"
    BY <1>6, AnswerSteps DEF AnswerStep
  <2>2. calls[i].op = "create"
    BY <1>6, <2>1 DEF Orderly, CallsOK, CallOK, OpsOf, NoCall
  <2>3. \E ok \in BOOLEAN : NewLoyaltyAnswer(i, ok)
    BY <1>6, <2>1, <2>2 DEF Answer, Settle
  <2> DEFINE cs == Dropped(i)
  <2>4. cs[i] = NoCall /\ (\A j \in CallIds \ {i} : cs[j] = calls[j])
    BY DroppedKept DEF Orderly
  <2>5. calls' = cs
    BY <2>3 DEF NewLoyaltyAnswer
  <2> HIDE DEF cs
  <2> QED BY <2>4, <2>5 DEF CreatesKept, NoCall
<1>7. ASSUME NEW k \in DOMAIN seen, Fetch(k) \/ FetchFails(k) \/ Refetch(k), page' \in {"loyaltyNew", "left"}
      PROVE  CreatesKept
  <2>1. FetchStep(k)
    BY <1>7, FetchSteps
  <2>2. page = "left" /\ calls = NoCalls
    BY <1>7, <2>1 DEF FetchStep, Orderly, KeysOf
  <2>3. calls' = NoCalls
    BY <2>1, <2>2 DEF FetchStep
  <2> QED BY <2>3 DEF CreatesKept, NoCalls, NoCall
<1> QED BY <1>1, <1>3, <1>4, <1>5, <1>6, <1>7 DEF Next

LEMMA LadderNext == ASSUME Orderly, LadderInv, [Next]_pageVars PROVE LadderInv'
<1>1. Orderly'
  BY OrderlyNext
<1>2. LaddersSent'
  <2>1. CASE UNCHANGED pageVars
    BY <2>1 DEF pageVars, LadderInv, LaddersSent
  <2> QED BY <1>1, <2>1, LadderCalls
<1>3. ASSUME page' = "loyaltyNew" PROVE WizardOK(ui') /\ LadderOrNone(srv'.ladder)
  <2>1. page = "loyaltyNew" /\ WizardOK(ui) /\ LadderOrNone(srv.ladder) /\ DOMAIN seen = {}
    BY <1>3, PageStays DEF LadderInv, Orderly, KeysOf
  <2>2. CASE UNCHANGED pageVars
    BY <2>1, <2>2 DEF pageVars
  <2>3. CASE Pages
    <3>1. NewLoyaltyPage
      BY <2>1, <2>3 DEF Pages
    <3>2. srv' = srv
      BY <3>1 DEF NewLoyaltyPage, StepReview, SendOnly, Call, StepType, StepMechanics, TierEditor, StepReward, Stepper,
         SetForm, Ui, NewLoyaltyLeft
    <3> QED BY <1>3, <2>1, <3>1, <3>2, WizardPage
  <2>4. ASSUME NEW i \in CallIds, Handle(i) PROVE WizardOK(ui') /\ LadderOrNone(srv'.ladder)
    <3>1. ui' = ui /\ calls[i].op # "none"
      BY <2>4, HandleSteps DEF HandleStep
    <3>2. calls[i].op = "create"
      BY <2>1, <3>1 DEF Orderly, CallsOK, CallOK, OpsOf, NoCall
    <3>3. createProgram(i)
      BY <2>1, <2>4, <3>2 DEF Handle, updateProgram, programAction, LifecycleOps, createCampaign, uploadCampaignImage,
        campaignAction, CampaignActions, updateCampaign, uploadImage, cancelCampaignVoucher, saveOnboarding, uploadLogo,
        submitOnboarding, updateMe, set_business_image, addCatalogItem, removeCatalogItem, uploadCatalogItemImage,
        add_gallery_image, remove_gallery_image, staffMember, createStaffAccount, createAccount, submitForReview, search,
        locate, markCampaignNoticesSeen, joinCampaign, start_group_session, leave_group_session, demo_fill_group,
        present_voucher, select_voucher_item, redeem_points, present_from_wallet, mark_seen, ProfileView, AvatarUploadView
    <3>4. srv'.ladder = calls[i].arg
      BY <3>3 DEF createProgram, Served, ServedWith
    <3> QED BY <2>1, <3>1, <3>2, <3>4 DEF LadderInv, LaddersSent
  <2>5. ASSUME NEW i \in CallIds, Answer(i) PROVE WizardOK(ui') /\ LadderOrNone(srv'.ladder)
    <3>1. calls[i].op = "create"
      BY <2>1, <2>5, AnswerSteps DEF Orderly, CallsOK, CallOK, OpsOf, NoCall
    <3>2. \E ok \in BOOLEAN : NewLoyaltyAnswer(i, ok)
      BY <2>1, <2>5, <3>1 DEF Answer, Settle
    <3>3. srv' = srv /\ (ui' = ui \/ ui' = [ui EXCEPT !.leaving = TRUE])
      BY <3>2 DEF NewLoyaltyAnswer
    <3> QED BY <2>1, <3>3 DEF WizardOK
  <2> QED BY <2>1, <2>2, <2>3, <2>4, <2>5 DEF Next
<1> QED BY <1>2, <1>3 DEF LadderInv

LEMMA LadderOpens == ASSUME Init PROVE LadderInv
<1>1. Orderly /\ Opened
  BY OrderlyInit, Opens
<1>2. ASSUME page = "loyaltyNew" PROVE WizardOK(ui) /\ LadderOrNone(srv.ladder)
  <2>1. NewLoyaltyInit
    BY <1>2 DEF Init, LoyaltyDetailInit, NewCampaignInit, CampaignDetailInit, OnboardingInit,
      SettingsInit, MenuInit, GalleryInit, TeamInit, SetupInit, StaffingInit, OverviewInit, HomeInit, TabInit,
      OfferInit, GroupInit, ContactInit, NearbyInit, BusinessInit, HeroesInit, QrInit, VoucherInit, WalletInit,
      BoardInit, ProfileInit
  <2>2. PICK e : e = [name |-> "", visits |-> "0", percent |-> "5"]
    OBVIOUS
  <2>3. e \in Levels
    BY <2>2, EmptyTexts DEF Levels
  <2>4. PICK rows : rows = <<e>>
    OBVIOUS
  <2>5. LevelsOK(rows)
    <3>1. rows \in Seq(Levels)
      BY <2>3, <2>4
    <3>2. Len(rows) = 1
      BY <2>4
    <3>3. 1 \in 1..MaxLevels
      BY LevelsAreCapped
    <3> QED BY <3>1, <3>2, <3>3 DEF LevelsOK
  <2>6. WizardOK(ui)
    BY <2>1, <2>2, <2>4, <2>5 DEF NewLoyaltyInit, DefaultForm, WizardOK
  <2> QED BY <2>1, <2>6 DEF NewLoyaltyInit, LadderOrNone
<1>3. ASSUME NEW i \in CallIds PROVE calls[i].op # "create"
  <2>1. CASE page = "loyaltyNew"
    <3>1. calls = NoCalls
      BY <2>1 DEF Init, NewLoyaltyInit, LoyaltyDetailInit, NewCampaignInit, CampaignDetailInit, OnboardingInit,
      SettingsInit, MenuInit, GalleryInit, TeamInit, SetupInit, StaffingInit, OverviewInit, HomeInit, TabInit,
      OfferInit, GroupInit, ContactInit, NearbyInit, BusinessInit, HeroesInit, QrInit, VoucherInit, WalletInit,
      BoardInit, ProfileInit
    <3> QED BY <3>1 DEF NoCalls, NoCall
  <2>2. CASE page # "loyaltyNew"
    <3>1. "create" \notin OpsOf(page)
      BY <1>1, <2>2 DEF Opened, OpsOf, LifecycleOps, CampaignActions, MemberOps
    <3> QED BY <1>1, <3>1 DEF Orderly, CallsOK, CallOK, NoCall
  <2> QED BY <2>1, <2>2
<1> QED BY <1>2, <1>3 DEF LadderInv, LaddersSent

\* Every ladder the wizard sends keeps the rules LoyaltyProgramService has for a
\* ladder as a whole, for any texts and any cap on the levels.  The serializer's
\* limits on one level (letters of a name, decimals of a percentage) are not among
\* them: the editor does not know these.
THEOREM WizardSendsLadders == Spec => []LadderKeepsRules
<1>1. Init => Orderly /\ LadderInv
  BY OrderlyInit, LadderOpens
<1>2. Orderly /\ LadderInv /\ [Next]_pageVars => Orderly' /\ LadderInv'
  BY OrderlyNext, LadderNext
<1>3. LadderInv => LadderKeepsRules
  BY NoLevelsAccepted DEF LadderInv, LaddersSent, LadderOrNone, Ladder, LadderKeepsRules
<1> QED BY <1>1, <1>2, <1>3, PTL DEF Spec

-----------------------------------------------------------------------------
(* The levels of a program count its members. *)

\* A set of naturals that is not empty has a least member.
LEMMA LeastNatural ==
    ASSUME NEW S, S \subseteq Nat, S # {}
    PROVE  \E n \in S : \A k \in S : n <= k
<1> DEFINE R == OpToRel(<, Nat)
<1>1. PICK n \in S : \A k \in S : ~ (<<k, n>> \in R)
  <2> HIDE DEF R
  <2>1. IsWellFoundedOn(R, Nat)
    BY NatLessThanWellFounded DEF R
  <2> QED BY <2>1, WFMin
<1>2. \A k \in S : ~ (k < n)
  BY <1>1 DEF OpToRel
<1> QED BY <1>2

\* The recursion of the library's fold, for sums.
Sums(f, S) == CHOOSE it : it = [s \in SUBSET S |->
    IF s = {} THEN 0 ELSE f[CHOOSE x \in s : TRUE] + it[s \ {CHOOSE x \in s : TRUE}]]

LEMMA FoldIsSum == ASSUME NEW S, NEW f, DOMAIN f = S PROVE FoldFunction(+, 0, f) = Sums(f, S)[S]
  BY Zenon DEF FoldFunction, FoldFunctionOnSet, MapThenFoldSet, Sums

\* Adding up how many there are in each of some disjoint finite sets counts their
\* union.
LEMMA SumCountsParts ==
    ASSUME NEW S, IsFiniteSet(S), NEW P, DOMAIN P = S,
           \A x \in S : IsFiniteSet(P[x]),
           \A x, y \in S : x # y => P[x] \intersect P[y] = {},
           NEW f, f = [x \in S |-> Cardinality(P[x])]
    PROVE  Sums(f, S)[S] = Cardinality(UNION {P[x] : x \in S})
<1> DEFINE Parts(s) == UNION {P[x] : x \in s}
           G == [s \in SUBSET S |-> Cardinality(Parts(s))]
           pick(s) == CHOOSE x \in s : TRUE
<1>1. ASSUME NEW s \in SUBSET S PROVE IsFiniteSet(s) /\ IsFiniteSet(Parts(s)) /\ Cardinality(Parts(s)) \in Nat
  <2>1. IsFiniteSet(s)
    BY FS_Subset
  <2> DEFINE g == [x \in s |-> P[x]]
             T == {P[x] : x \in s}
  <2>2. g \in Surjection(s, T)
    BY DEF Surjection
  <2>3. IsFiniteSet(T)
    <3> HIDE DEF g, T
    <3> QED BY <2>1, <2>2, FS_Surjection
  <2>4. \A t \in T : IsFiniteSet(t)
    OBVIOUS
  <2>5. IsFiniteSet(UNION T)
    <3> HIDE DEF T
    <3> QED BY <2>3, <2>4, FS_UNION
  <2> QED BY <2>1, <2>5, FS_CardinalityType
<1>2. ASSUME NEW s \in SUBSET S, NEW x \in s
      PROVE  Cardinality(Parts(s)) = f[x] + Cardinality(Parts(s \ {x}))
  <2>1. Parts(s) = P[x] \union Parts(s \ {x}) /\ P[x] \intersect Parts(s \ {x}) = {}
    OBVIOUS
  <2>2. s \ {x} \in SUBSET S /\ IsFiniteSet(P[x]) /\ Cardinality(P[x]) \in Nat
    BY FS_CardinalityType
  <2>3. IsFiniteSet(Parts(s \ {x})) /\ Cardinality(Parts(s \ {x})) \in Nat
    BY <1>1, <2>2
  <2>4. PICK A, B : A = P[x] /\ B = Parts(s \ {x})
    OBVIOUS
  <2>5. Cardinality(A \union B) = Cardinality(A) + Cardinality(B) - Cardinality(A \intersect B)
    BY <2>2, <2>3, <2>4, FS_Union
  <2>6. Cardinality(A \union B) = Cardinality(A) + Cardinality(B)
    <3>1. Cardinality(A \intersect B) = 0
      BY <2>1, <2>4, FS_EmptySet
    <3>2. Cardinality(A) \in Nat /\ Cardinality(B) \in Nat
      BY <2>2, <2>3, <2>4
    <3> HIDE DEF Parts
    <3> QED BY <2>5, <3>1, <3>2
  <2>7. f[x] = Cardinality(A)
    BY <2>4
  <2> QED BY <2>1, <2>4, <2>6, <2>7
<1>3. Cardinality(Parts({})) = 0
  <2>1. Parts({}) = {}
    OBVIOUS
  <2> QED BY <2>1, FS_EmptySet
<1>4. PICK it : it = Sums(f, S)
  OBVIOUS
<1>5. it = [s \in SUBSET S |-> IF s = {} THEN 0 ELSE f[pick(s)] + it[s \ {pick(s)}]]
  <2>1. \A s \in SUBSET S : s # {} => pick(s) \in s /\ s \ {pick(s)} \in SUBSET S
    OBVIOUS
  <2> HIDE DEF Parts, pick
  <2>2. ASSUME NEW s \in SUBSET S
        PROVE  G[s] = IF s = {} THEN 0 ELSE f[pick(s)] + G[s \ {pick(s)}]
    BY <1>2, <1>3, <2>1
  <2>3. G = [s \in SUBSET S |-> IF s = {} THEN 0 ELSE f[pick(s)] + G[s \ {pick(s)}]]
    BY <2>2
  <2> DEFINE Solves(g) == g = [s \in SUBSET S |-> IF s = {} THEN 0 ELSE f[pick(s)] + g[s \ {pick(s)}]]
  <2>4. it = CHOOSE g : Solves(g)
    BY <1>4, Zenon DEF Sums, pick
  <2>5. \E g : Solves(g)
    BY <2>3
  <2>6. Solves(it)
    <3> HIDE DEF Solves
    <3> QED BY <2>4, <2>5, Zenon
  <2> QED BY <2>6
<1>6. \A s \in SUBSET S : it[s] = Cardinality(Parts(s))
  <2> DEFINE Wrong == {s \in SUBSET S : it[s] # Cardinality(Parts(s))}
             Sizes == {Cardinality(s) : s \in Wrong}
  <2>1. SUFFICES ASSUME Wrong # {} PROVE FALSE
    OBVIOUS
  <2>2. Sizes \subseteq Nat /\ Sizes # {}
    BY <1>1, <2>1, FS_CardinalityType
  <2>3. PICK n \in Sizes : \A k \in Sizes : n <= k
    <3> HIDE DEF Sizes
    <3> QED BY <2>2, LeastNatural
  <2>4. PICK s \in Wrong : Cardinality(s) = n
    OBVIOUS
  <2>5. s # {}
    BY <1>3, <1>5, <2>4
  <2>6. PICK x : x = pick(s)
    OBVIOUS
  <2>7. x \in s /\ s \in SUBSET S /\ s \ {x} \in SUBSET S
    BY <2>5, <2>6
  <2>8. Cardinality(s \ {x}) = Cardinality(s) - 1 /\ Cardinality(s) \in Nat
    BY <1>1, <2>7, FS_RemoveElement, FS_CardinalityType
  <2>9. s \ {x} \notin Wrong
    <3>1. ~ (n <= Cardinality(s \ {x}))
      BY <2>4, <2>8
    <3> QED BY <2>3, <3>1
  <2>10. it[s \ {x}] = Cardinality(Parts(s \ {x}))
    BY <2>7, <2>9
  <2>11. it[s] = f[x] + it[s \ {x}]
    BY <1>5, <2>5, <2>6, <2>7
  <2> HIDE DEF Parts
  <2> QED BY <1>2, <2>4, <2>7, <2>10, <2>11
<1> QED BY <1>4, <1>6

Threshold(tiers, i) == tiers[i].min_visits

\* The members counted on each level.
Rungs(tiers) ==
    [i \in DOMAIN tiers |->
        {m \in DOMAIN Visitors :
            /\ Visitors[m] >= tiers[i].min_visits
            /\ i < Len(tiers) => Visitors[m] < tiers[i + 1].min_visits}]

LEMMA Thresholds ==
    ASSUME NEW tiers, Ladder(tiers)
    PROVE  /\ Len(tiers) \in Nat \ {0} /\ DOMAIN tiers = 1..Len(tiers)
           /\ \A i \in 1..Len(tiers) : Threshold(tiers, i) \in Nat
           /\ Threshold(tiers, 1) = 0
           /\ \A i \in 2..Len(tiers) : Threshold(tiers, i) > Threshold(tiers, i - 1)
<1>1. Len(tiers) \in Nat /\ DOMAIN tiers = 1..Len(tiers) /\ \A i \in 1..Len(tiers) : tiers[i] \in SentLevels
  BY LenProperties, ElementOfSeq DEF Ladder
<1>2. Len(tiers) # 0
  BY EmptySeq DEF Ladder
<1>3. \A i \in 1..Len(tiers) : Threshold(tiers, i) \in Nat
  BY <1>1 DEF Threshold, SentLevels
<1> QED BY <1>1, <1>2, <1>3 DEF Ladder, validateTiers, Threshold

LEMMA ThresholdsAscend ==
    ASSUME NEW tiers, Ladder(tiers), NEW i \in 1..Len(tiers), NEW j \in 1..Len(tiers), i < j
    PROVE  Threshold(tiers, i) < Threshold(tiers, j)
<1> DEFINE S == {k \in 1..Len(tiers) : i < k /\ ~ (Threshold(tiers, i) < Threshold(tiers, k))}
<1>1. SUFFICES ASSUME S # {} PROVE FALSE
  OBVIOUS
<1>2. PICK k \in S : \A l \in S : k <= l
  <2>1. S \subseteq Nat
    BY Thresholds
  <2> HIDE DEF S
  <2> QED BY <1>1, <2>1, LeastNatural
<1>3. k \in Nat /\ i \in Nat /\ k - 1 \in 1..Len(tiers) /\ i <= k - 1 /\ k \in 2..Len(tiers) /\ k - 1 \notin S
  BY <1>2, Thresholds
<1>4. Threshold(tiers, i) <= Threshold(tiers, k - 1)
  BY <1>3, Thresholds
<1> QED BY <1>2, <1>3, <1>4, Thresholds

LEMMA RungsPartition ==
    ASSUME NEW tiers, Ladder(tiers)
    PROVE  /\ \A i, j \in 1..Len(tiers) : i # j => Rungs(tiers)[i] \intersect Rungs(tiers)[j] = {}
           /\ UNION {Rungs(tiers)[i] : i \in 1..Len(tiers)} = DOMAIN Visitors
<1>0. DOMAIN tiers = 1..Len(tiers) /\ Len(tiers) \in Nat \ {0} /\ \A m \in DOMAIN Visitors : Visitors[m] \in Nat
  <2>1. \A m \in DOMAIN Visitors : Visitors[m] \in Nat
    BY LoyaltyPagesAssumption, Zenon
  <2> QED BY <2>1, Thresholds
<1>1. ASSUME NEW i \in 1..Len(tiers), NEW m
      PROVE  m \in Rungs(tiers)[i] <=>
                 /\ m \in DOMAIN Visitors /\ Visitors[m] >= Threshold(tiers, i)
                 /\ i < Len(tiers) => Visitors[m] < Threshold(tiers, i + 1)
  BY <1>0 DEF Rungs, Threshold
<1>2. ASSUME NEW i \in 1..Len(tiers), NEW j \in 1..Len(tiers), i < j
      PROVE  Rungs(tiers)[i] \intersect Rungs(tiers)[j] = {}
  <2>1. SUFFICES ASSUME NEW m \in DOMAIN Visitors, Visitors[m] < Threshold(tiers, i + 1),
                        Visitors[m] >= Threshold(tiers, j)
                 PROVE  FALSE
    BY <1>0, <1>1, <1>2
  <2>2. i + 1 \in 1..Len(tiers) /\ (i + 1 = j \/ i + 1 < j)
    BY <1>0, <1>2
  <2>3. Threshold(tiers, i + 1) <= Threshold(tiers, j)
    BY <2>2, ThresholdsAscend, Thresholds
  <2> QED BY <1>0, <2>1, <2>2, <2>3, Thresholds
<1>3. ASSUME NEW m \in DOMAIN Visitors PROVE \E i \in 1..Len(tiers) : m \in Rungs(tiers)[i]
  <2> DEFINE S == {k \in 1..Len(tiers) : k = Len(tiers) \/ Visitors[m] < Threshold(tiers, k + 1)}
  <2>1. PICK k \in S : \A l \in S : k <= l
    <3>1. S \subseteq Nat /\ Len(tiers) \in S
      BY <1>0
    <3> HIDE DEF S
    <3> QED BY <3>1, LeastNatural
  <2> HIDE DEF S
  <2>2. k \in 1..Len(tiers) /\ (k = Len(tiers) \/ Visitors[m] < Threshold(tiers, k + 1))
    BY <2>1 DEF S
  <2>3. k \in Nat /\ Len(tiers) \in Nat /\ 1 <= k /\ k <= Len(tiers) /\ Visitors[m] \in Nat
    <3>1. Visitors[m] \in Nat /\ Len(tiers) \in Nat /\ k \in 1..Len(tiers)
      BY <1>0, <2>2
    <3> QED BY <3>1
  <2>4. k < Len(tiers) => Visitors[m] < Threshold(tiers, k + 1)
    BY <2>2, <2>3
  <2>5. Visitors[m] >= Threshold(tiers, k)
    <3>1. CASE k = 1
      BY <1>0, <2>3, <3>1, Thresholds
    <3>2. CASE k # 1
      <4>1. k - 1 \in 1..Len(tiers) /\ ~ (k <= k - 1) /\ (k - 1) + 1 = k
        BY <2>3, <3>2
      <4>2. ~ (Visitors[m] < Threshold(tiers, (k - 1) + 1))
        BY <2>1, <4>1 DEF S
      <4>3. ~ (Visitors[m] < Threshold(tiers, k))
        BY <4>1, <4>2
      <4> QED BY <2>2, <2>3, <4>3, Thresholds
    <3> QED BY <3>1, <3>2
  <2> QED BY <1>1, <2>2, <2>4, <2>5
<1>4. ASSUME NEW i \in 1..Len(tiers), NEW j \in 1..Len(tiers), i # j
      PROVE  Rungs(tiers)[i] \intersect Rungs(tiers)[j] = {}
  <2>1. i < j \/ j < i
    BY <1>0, <1>4
  <2> QED BY <1>2, <2>1
<1>5. UNION {Rungs(tiers)[i] : i \in 1..Len(tiers)} = DOMAIN Visitors
  BY <1>1, <1>3
<1> QED BY <1>4, <1>5

\* Adding up the levels of a ladder that keeps the rules counts every member once.
LEMMA MembersCounted ==
    ASSUME NEW tiers, Ladder(tiers)
    PROVE  FoldFunction(+, 0, TierLadderCard(tiers)) = Cardinality(DOMAIN Visitors)
<1>1. DOMAIN tiers = 1..Len(tiers) /\ Len(tiers) \in Nat /\ IsFiniteSet(DOMAIN Visitors)
  <2>1. IsFiniteSet(DOMAIN Visitors)
    BY LoyaltyPagesAssumption, Zenon
  <2> QED BY <2>1, Thresholds
<1>2. PICK P, S : P = Rungs(tiers) /\ S = 1..Len(tiers)
  OBVIOUS
<1>3. DOMAIN P = S /\ IsFiniteSet(S)
  BY <1>1, <1>2, FS_Interval DEF Rungs
<1>4. \A x \in S : IsFiniteSet(P[x])
  <2>1. \A x \in S : P[x] \in SUBSET DOMAIN Visitors
    BY <1>1, <1>2 DEF Rungs
  <2> QED BY <1>1, <2>1, FS_Subset
<1>5. /\ \A x, y \in S : x # y => P[x] \intersect P[y] = {}
      /\ UNION {P[x] : x \in S} = DOMAIN Visitors
  <2>1. /\ \A x, y \in 1..Len(tiers) : x # y => Rungs(tiers)[x] \intersect Rungs(tiers)[y] = {}
        /\ UNION {Rungs(tiers)[x] : x \in 1..Len(tiers)} = DOMAIN Visitors
    BY RungsPartition
  <2> QED BY <1>2, <2>1, Zenon
<1>6. TierLadderCard(tiers) = [x \in S |-> Cardinality(P[x])]
  BY <1>1, <1>2 DEF TierLadderCard, Rungs
<1>7. PICK f : f = TierLadderCard(tiers)
  OBVIOUS
<1>8. Sums(f, S)[S] = Cardinality(UNION {P[x] : x \in S})
  BY <1>3, <1>4, <1>5, <1>6, <1>7, SumCountsParts
<1>9. FoldFunction(+, 0, f) = Sums(f, S)[S]
  <2>1. DOMAIN f = S
    BY <1>6, <1>7
  <2> QED BY <2>1, FoldIsSum
<1> QED BY <1>5, <1>7, <1>8, <1>9

\* The levels shown of a program add up to its members: whatever ladder the
\* server holds, it came from the wizard and passed the rules, so each member
\* stands on exactly one of its levels.
THEOREM LevelsAddUp == Spec => []LadderCountsMembers
<1>1. Init => Orderly /\ LadderInv
  BY OrderlyInit, LadderOpens
<1>2. Orderly /\ LadderInv /\ [Next]_pageVars => Orderly' /\ LadderInv'
  BY OrderlyNext, LadderNext
<1>3. LadderInv => LadderCountsMembers
  BY MembersCounted DEF LadderInv, LadderOrNone, LadderCountsMembers
<1> QED BY <1>1, <1>2, <1>3, PTL DEF Spec


-----------------------------------------------------------------------------
(* The group of a campaign. *)

\* The started group is one of those there were; a start was answered with an
\* open one; and while the last group there was is the one that was started here,
\* and is open, the list shows it, and so does what was read of it.
GroupOK(u, s, qs, cs) ==
    /\ {"place", "sheet", "started", "left"} \subseteq DOMAIN u
    /\ s = [status |-> s.status, nth |-> s.nth] /\ s.nth \in Nat
    /\ "mygroups" \in DOMAIN qs
    /\ u.started = None \/ (u.started \in Nat /\ u.started <= s.nth)
    /\ \A i \in CallIds : cs[i].op = "start" /\ cs[i].phase = "ok" =>
          cs[i].row.status \in OpenGroup /\ cs[i].row.nth \in Nat /\ cs[i].row.nth <= s.nth
    /\ u.started = s.nth /\ s.status \in OpenGroup =>
          /\ qs["mygroups"].data \in OpenGroup
          /\ qs["mygroups"].fetch = "read" => qs["mygroups"].got \in OpenGroup

GroupInv == page = "group" => GroupOK(ui, srv, seen, calls)

\* The buttons of the page change nothing of it.
LEMMA GroupGoesOn ==
    ASSUME GroupOK(ui, srv, seen, calls), srv' = srv,
           DOMAIN ui' = DOMAIN ui, ui'.started = ui.started,
           DOMAIN seen' = DOMAIN seen,
           seen'["mygroups"].data = seen["mygroups"].data,
           seen'["mygroups"].fetch = "read" =>
               seen["mygroups"].fetch = "read" /\ seen'["mygroups"].got = seen["mygroups"].got,
           \A j \in CallIds : \/ calls'[j].op # "start" \/ calls'[j].phase = "sent"
                              \/ SameCall(calls[j], calls'[j])
    PROVE  GroupOK(ui', srv', seen', calls')
<1>1. \A j \in CallIds : calls'[j].op = "start" /\ calls'[j].phase = "ok" =>
         calls'[j].row.status \in OpenGroup /\ calls'[j].row.nth \in Nat /\ calls'[j].row.nth <= srv.nth
  BY DEF GroupOK, SameCall
<1> QED BY <1>1 DEF GroupOK

LEMMA SameGroups ==
    ASSUME seen' = seen
    PROVE  /\ DOMAIN seen' = DOMAIN seen /\ seen'["mygroups"].data = seen["mygroups"].data
           /\ seen'["mygroups"].fetch = "read" =>
                seen["mygroups"].fetch = "read" /\ seen'["mygroups"].got = seen["mygroups"].got
OBVIOUS

LEMMA GroupSends ==
    ASSUME Orderly, GroupOK(ui, srv, seen, calls), NEW op, NEW at, NEW arg, SendOnly(op, at, arg)
    PROVE  GroupOK(ui', srv', seen', calls')
<1>1. Sent(op, at, arg, calls, calls') /\ UNCHANGED <<page, ui, srv, seen>>
  BY CallSends DEF SendOnly
<1>2. \A j \in CallIds : calls'[j].phase = "sent" \/ SameCall(calls[j], calls'[j])
  BY <1>1 DEF Sent
<1> QED BY <1>1, <1>2, SameGroups, GroupGoesOn

LEMMA GroupPolls ==
    ASSUME Orderly, GroupOK(ui, srv, seen, calls), NEW k, Poll(k)
    PROVE  GroupOK(ui', srv', seen', calls')
<1>1. UNCHANGED <<page, ui, srv, calls>> /\ seen' = [seen EXCEPT ![k] = [seen[k] EXCEPT !.fetch = "sent"]]
  BY DEF Poll
<1>2. QueryOK(seen["mygroups"]) /\ "mygroups" \in DOMAIN seen
  BY DEF Orderly, QueriesOK, GroupOK
<1>3. DOMAIN seen' = DOMAIN seen
  BY <1>1
<1>4. seen'["mygroups"] = seen["mygroups"] \/ seen'["mygroups"] = [seen["mygroups"] EXCEPT !.fetch = "sent"]
  BY <1>1, <1>2
<1>5. /\ seen'["mygroups"].data = seen["mygroups"].data
      /\ seen'["mygroups"].fetch = "read" =>
           seen["mygroups"].fetch = "read" /\ seen'["mygroups"].got = seen["mygroups"].got
  BY <1>2, <1>4 DEF QueryOK
<1> QED BY <1>1, <1>3, <1>5, SameCalls2, GroupGoesOn

LEMMA GroupPage ==
    ASSUME Orderly, GroupOK(ui, srv, seen, calls), GroupSessionPage
    PROVE  GroupOK(ui', srv', seen', calls')
<1>1. CASE CreateGroupForm \/ LeaveGroup \/ DemoFill
  BY <1>1, GroupSends DEF CreateGroupForm, LeaveGroup, DemoFill
<1>2. CASE PollSession \/ \E k : Poll(k)
  BY <1>2, GroupPolls DEF PollSession
<1>3. ASSUME NEW v, Ui([ui EXCEPT !.sheet = v]) PROVE GroupOK(ui', srv', seen', calls')
  <2>1. DOMAIN ui' = DOMAIN ui /\ ui'.started = ui.started /\ UNCHANGED <<srv, seen, calls>>
    BY <1>3 DEF Ui, GroupOK
  <2> QED BY <2>1, SameGroups, SameCalls2, GroupGoesOn
<1>4. CASE InviteSheet \/ GroupProgressRow
  BY <1>2, <1>3, <1>4 DEF InviteSheet, GroupProgressRow
<1>5. CASE OthersInGroup
  <2>1. PICK v : /\ srv' = [srv EXCEPT !.status = v] /\ seen' = MissedBy(seen) /\ UNCHANGED <<page, ui, calls>>
                 /\ v \in OpenGroup => srv.status \in OpenGroup
    BY <1>5 DEF OthersInGroup, Meanwhile, OpenGroup
  <2>2. srv' = [status |-> v, nth |-> srv.nth]
    BY <2>1 DEF GroupOK
  <2>3. DOMAIN seen' = DOMAIN seen /\ seen'["mygroups"] = [seen["mygroups"] EXCEPT !.missed = TRUE]
    BY <2>1 DEF MissedBy, WrittenKeys, GroupOK
  <2>4. /\ seen'["mygroups"].data = seen["mygroups"].data /\ seen'["mygroups"].fetch = seen["mygroups"].fetch
        /\ seen'["mygroups"].got = seen["mygroups"].got
    BY <2>3 DEF Orderly, QueriesOK, QueryOK, GroupOK
  <2> QED BY <2>1, <2>2, <2>3, <2>4 DEF GroupOK
<1> QED BY <1>1, <1>2, <1>4, <1>5 DEF GroupSessionPage

LEMMA GroupHandled ==
    ASSUME Orderly, page = "group", GroupOK(ui, srv, seen, calls), NEW i \in CallIds, Handle(i)
    PROVE  GroupOK(ui', srv', seen', calls')
<1>0. /\ HandleStep(i) /\ UNCHANGED <<page, ui, seen>>
      /\ srv = [status |-> srv.status, nth |-> srv.nth] /\ srv.nth \in Nat
  BY HandleSteps DEF HandleStep, GroupOK
<1>1. calls[i].op \in {"start", "leave", "demoFill"}
  BY <1>0, OpOfPage DEF HandleStep, OpsOf
<1>2. start_group_session(i) \/ leave_group_session(i) \/ demo_fill_group(i)
  BY <1>1 DEF Handle, createProgram, updateProgram, programAction, LifecycleOps, createCampaign, uploadCampaignImage,
      campaignAction, CampaignActions, updateCampaign, uploadImage, cancelCampaignVoucher, saveOnboarding, uploadLogo,
      submitOnboarding, updateMe, set_business_image, addCatalogItem, removeCatalogItem, uploadCatalogItemImage,
      add_gallery_image, remove_gallery_image, staffMember, createStaffAccount, createAccount, submitForReview, search,
      locate, markCampaignNoticesSeen, joinCampaign, present_voucher, select_voucher_item, redeem_points,
      present_from_wallet, mark_seen, ProfileView, AvatarUploadView
<1>3. /\ \A j \in CallIds : calls'[j].op = calls[j].op
      /\ \A j \in CallIds \ {i} : calls'[j] = calls[j]
  BY <1>0, HandledCalls
<1>4. ASSUME NEW s, NEW r, ServedWith(i, s, r) PROVE srv' = s /\ calls'[i].row = r
  <2>1. calls' = [calls EXCEPT ![i] = [calls[i] EXCEPT !.phase = "ok", !.row = r]]
    BY <1>4 DEF ServedWith
  <2>2. calls'[i] = [calls[i] EXCEPT !.phase = "ok", !.row = r] /\ CallOK(calls[i], OpsOf(page))
    BY <2>1 DEF Orderly, CallsOK
  <2>3. "row" \in DOMAIN calls[i]
    BY <2>2 DEF CallOK, NoCall
  <2> QED BY <1>4, <2>2, <2>3 DEF ServedWith
<1>5. CASE start_group_session(i) /\ srv.status \in OpenGroup
  <2>1. srv' = srv /\ calls'[i].row = srv
    BY <1>4, <1>5 DEF start_group_session
  <2> QED BY <1>0, <1>3, <1>5, <2>1 DEF GroupOK
<1>6. CASE start_group_session(i) /\ srv.status \notin OpenGroup
  <2>1. PICK s : s = [status |-> "forming", nth |-> srv.nth + 1]
    OBVIOUS
  <2>2. srv' = s /\ calls'[i].row = s
    BY <1>4, <1>6, <2>1 DEF start_group_session
  <2>3. s.status \in OpenGroup /\ s.nth \in Nat /\ srv.nth < s.nth /\ s = [status |-> s.status, nth |-> s.nth]
    BY <1>0, <2>1 DEF OpenGroup
  <2>4. ui.started # s.nth /\ (ui.started = None \/ (ui.started \in Nat /\ ui.started <= s.nth))
    BY <1>0, <2>3, NothingIsNoNumber DEF GroupOK
  <2>5. \A j \in CallIds : calls'[j].op = "start" /\ calls'[j].phase = "ok" =>
          calls'[j].row.status \in OpenGroup /\ calls'[j].row.nth \in Nat /\ calls'[j].row.nth <= s.nth
    BY <1>0, <1>3, <2>2, <2>3 DEF GroupOK
  <2> QED BY <1>0, <2>2, <2>3, <2>4, <2>5 DEF GroupOK
<1>7. CASE leave_group_session(i) \/ demo_fill_group(i)
  <2>1. \E s, r, v : s = [srv EXCEPT !.status = v] /\ (v \in OpenGroup => srv.status \in OpenGroup) /\ ServedWith(i, s, r)
    BY <1>7 DEF leave_group_session, demo_fill_group, Served, OpenGroup
  <2>2. PICK v : srv' = [srv EXCEPT !.status = v] /\ (v \in OpenGroup => srv.status \in OpenGroup)
    BY <1>4, <2>1
  <2>3. srv' = [status |-> v, nth |-> srv.nth]
    BY <1>0, <2>2
  <2>4. calls[i].op # "start"
    BY <1>7 DEF leave_group_session, demo_fill_group
  <2> QED BY <1>0, <1>3, <2>2, <2>3, <2>4 DEF GroupOK
<1> QED BY <1>2, <1>5, <1>6, <1>7

LEMMA GroupAnswered ==
    ASSUME Orderly, page = "group", GroupOK(ui, srv, seen, calls), NEW i \in CallIds, NEW ok \in BOOLEAN,
           ok => calls[i].phase = "ok", GroupAnswer(i, ok)
    PROVE  GroupOK(ui', srv', seen', calls')
<1>0. QueriesOK(seen) /\ "mygroups" \in DOMAIN seen /\ srv' = srv /\ CallsOK(calls, OpsOf(page))
  BY DEF Orderly, GroupOK, GroupAnswer
<1>1. \A j \in CallIds : calls'[j].op # "start" \/ SameCall(calls[j], calls'[j])
  <2>1. PICK ats, cs : cs = Gone(ats) /\ calls' = [cs EXCEPT ![i] = NoCall]
    BY DEF GroupAnswer
  <2>2. (\A j \in CallIds : SameCall(calls[j], cs[j])) /\ cs = [j \in CallIds |-> cs[j]]
    <3>1. \A j \in CallIds : SameCall(calls[j], Gone(ats)[j])
      BY GoneMakes
    <3>2. cs = [j \in CallIds |-> cs[j]]
      BY <2>1 DEF Gone
    <3> QED BY <2>1, <3>1, <3>2
  <2> QED BY <2>1, <2>2 DEF NoCall
<1>2. CASE ~ ok
  <2>1. seen' = seen \/ seen' = MissedBy(seen)
    BY <1>2 DEF GroupAnswer, Missed
  <2>2. ui' = ui
    BY <1>2 DEF GroupAnswer
  <2>3. DOMAIN seen' = DOMAIN seen
    BY <2>1 DEF MissedBy
  <2>4. seen'["mygroups"] = seen["mygroups"] \/ seen'["mygroups"] = [seen["mygroups"] EXCEPT !.missed = TRUE]
    BY <1>0, <2>1 DEF MissedBy, WrittenKeys
  <2>5. /\ seen'["mygroups"].data = seen["mygroups"].data
        /\ seen'["mygroups"].fetch = "read" =>
             seen["mygroups"].fetch = "read" /\ seen'["mygroups"].got = seen["mygroups"].got
    BY <1>0, <2>4 DEF QueriesOK, QueryOK
  <2> QED BY <1>0, <1>1, <2>2, <2>3, <2>5, GroupGoesOn
<1>3. ASSUME ok, NEW qs, QueriesOK(qs), DOMAIN qs = DOMAIN seen, seen' = Invalidated({"mygroups"}, {"mygroups"}, qs)
      PROVE  DOMAIN seen' = DOMAIN seen /\ seen'["mygroups"].data = qs["mygroups"].data /\ seen'["mygroups"].fetch = "sent"
  <2>1. DOMAIN seen' = DOMAIN qs
    BY <1>3 DEF Invalidated
  <2>2. seen'["mygroups"] = [qs["mygroups"] EXCEPT !.stale = TRUE, !.fetch = "sent", !.got = None]
    BY <1>0, <1>3 DEF Invalidated
  <2>3. QueryOK(qs["mygroups"])
    BY <1>0, <1>3 DEF QueriesOK
  <2> QED BY <1>3, <2>1, <2>2, <2>3 DEF QueryOK
<1>4. CASE ok /\ calls[i].op = "start"
  <2>1. calls[i].row.status \in OpenGroup /\ calls[i].row.nth \in Nat /\ calls[i].row.nth <= srv.nth
    BY <1>4 DEF GroupOK
  <2> DEFINE rs == WrittenTo("session", calls[i].row.status, seen)
             qs == WrittenTo("mygroups", calls[i].row.status, rs)
  <2>2. QueriesOK(rs) /\ DOMAIN rs = DOMAIN seen
    BY <1>0, WrittenKept
  <2>3. seen' = Invalidated({"mygroups"}, {"mygroups"}, qs)
    BY <1>4 DEF GroupAnswer, GroupHooks, startInvalidates
  <2> HIDE DEF rs
  <2>4. QueriesOK(qs) /\ DOMAIN qs = DOMAIN seen
    BY <2>2, WrittenKept
  <2>5. qs["mygroups"].data = calls[i].row.status
    <3>1. qs["mygroups"] = [rs["mygroups"] EXCEPT !.data = calls[i].row.status, !.stale = FALSE, !.bad = FALSE]
      BY <1>0, <2>2 DEF WrittenTo
    <3>2. QueryOK(rs["mygroups"])
      BY <1>0, <2>2 DEF QueriesOK
    <3> QED BY <3>1, <3>2 DEF QueryOK
  <2> HIDE DEF qs
  <2>6. DOMAIN seen' = DOMAIN seen /\ seen'["mygroups"].data = calls[i].row.status /\ seen'["mygroups"].fetch = "sent"
    BY <1>3, <1>4, <2>3, <2>4, <2>5
  <2>7. ui' = [ui EXCEPT !.started = calls[i].row.nth]
    BY <1>4 DEF GroupAnswer
  <2>8. DOMAIN ui' = DOMAIN ui /\ ui'.started = calls[i].row.nth
    BY <2>7 DEF GroupOK
  <2>9. \A j \in CallIds : calls'[j].op = "start" /\ calls'[j].phase = "ok" =>
          calls'[j].row.status \in OpenGroup /\ calls'[j].row.nth \in Nat /\ calls'[j].row.nth <= srv.nth
    BY <1>1 DEF GroupOK, SameCall
  <2> QED BY <1>0, <2>1, <2>6, <2>8, <2>9 DEF GroupOK
<1>5. CASE ok /\ calls[i].op # "start"
  <2>1. DOMAIN ui' = DOMAIN ui /\ ui'.started = ui.started
    BY <1>5 DEF GroupAnswer, GroupOK
  <2>2. PICK qs : /\ QueriesOK(qs) /\ DOMAIN qs = DOMAIN seen /\ qs["mygroups"] = seen["mygroups"]
                  /\ seen' = Invalidated({"mygroups"}, {"mygroups"}, qs)
    <3>1. CASE calls[i].op = "demoFill"
      <4> DEFINE qs == WrittenTo("session", calls[i].row.status, seen)
      <4>1. QueriesOK(qs) /\ DOMAIN qs = DOMAIN seen /\ qs["mygroups"] = seen["mygroups"]
        BY <1>0, WrittenKept
      <4>2. seen' = Invalidated({"mygroups"}, {"mygroups"}, qs)
        BY <1>5, <3>1 DEF GroupAnswer, GroupHooks
      <4> QED BY <4>1, <4>2
    <3>2. CASE calls[i].op # "demoFill"
      <4>1. PICK q : q = [Cached(None) EXCEPT !.stale = TRUE]
        OBVIOUS
      <4>2. q = [data |-> None, stale |-> TRUE, fetch |-> "no", got |-> None, bad |-> FALSE, missed |-> FALSE]
        BY <4>1 DEF Cached
      <4>3. PICK qs : qs = [seen EXCEPT !["session"] = q]
        OBVIOUS
      <4>4. QueriesOK(qs) /\ DOMAIN qs = DOMAIN seen /\ qs["mygroups"] = seen["mygroups"]
        BY <1>0, <4>2, <4>3 DEF QueriesOK, QueryOK
      <4>5. seen' = Invalidated({"mygroups"}, {"mygroups"}, qs)
        BY <1>5, <3>2, <4>1, <4>3 DEF GroupAnswer, GroupHooks
      <4> QED BY <4>4, <4>5
    <3> QED BY <3>1, <3>2
  <2>3. DOMAIN seen' = DOMAIN seen /\ seen'["mygroups"].data = seen["mygroups"].data /\ seen'["mygroups"].fetch = "sent"
    BY <1>3, <1>5, <2>2
  <2> QED BY <1>0, <1>1, <2>1, <2>3, GroupGoesOn
<1> QED BY <1>2, <1>4, <1>5

LEMMA GroupFetched ==
    ASSUME Orderly, page = "group", GroupOK(ui, srv, seen, calls), NEW k \in DOMAIN seen,
           Fetch(k) \/ FetchFails(k) \/ Refetch(k)
    PROVE  GroupOK(ui', srv', seen', calls')
<1>1. FetchStep(k) /\ srv' = srv /\ DOMAIN seen' = DOMAIN seen /\ k \in {"mygroups", "session"}
  BY FetchSteps DEF FetchStep, Orderly, KeysOf
<1>2. DOMAIN ui' = DOMAIN ui /\ ui'.started = ui.started
  <2>1. ui' = ui \/ ui' = [ui EXCEPT !.sheet = FALSE]
    BY <1>1 DEF Fetch, FetchRead, PageHears, NearbyKeys, FetchFails, Refetch, GroupArrives
  <2> QED BY <2>1 DEF GroupOK
<1>3. \A j \in CallIds : SameCall(calls[j], calls'[j])
  <2>1. calls' = calls \/ \E ats : calls' = Gone(ats)
    BY HearsCalls, FailsCalls DEF Fetch, FetchRead, Refetch
  <2>2. CASE calls' = calls
    BY <2>2, SameCalls2
  <2>3. CASE \E ats : calls' = Gone(ats)
    <3>1. PICK ats : calls' = Gone(ats)
      BY <2>3
    <3>2. \A j \in CallIds : SameCall(calls[j], Gone(ats)[j])
      BY GoneMakes
    <3> QED BY <3>1, <3>2
  <2> QED BY <2>1, <2>2, <2>3
<1>4. CASE k = "session"
  <2>1. seen'["mygroups"] = seen["mygroups"]
    BY <1>1, <1>4 DEF FetchStep, GroupOK
  <2> QED BY <1>1, <1>2, <1>3, <2>1, GroupGoesOn
<1>5. CASE k = "mygroups"
  <2>1. \/ seen'["mygroups"] = ReadQuery(seen["mygroups"], View("mygroups"))
        \/ seen'["mygroups"] = ArrivedQuery(seen["mygroups"]) /\ seen["mygroups"].fetch = "read"
        \/ seen'["mygroups"] = FailedQuery(seen["mygroups"])
        \/ seen'["mygroups"] = SentQuery(seen["mygroups"])
    BY <1>1, <1>5 DEF FetchStep
  <2>2. View("mygroups") = MyGroupsView
    BY DEF View, NearbyKeys, HomeKeys
  <2>3. srv.status \in OpenGroup => MyGroupsView \in OpenGroup
    BY DEF MyGroupsView
  <2>4. \A j \in CallIds : calls'[j].op = "start" /\ calls'[j].phase = "ok" =>
          calls'[j].row.status \in OpenGroup /\ calls'[j].row.nth \in Nat /\ calls'[j].row.nth <= srv.nth
    BY <1>3 DEF GroupOK, SameCall
  <2>5. ui.started = srv.nth /\ srv.status \in OpenGroup =>
          /\ seen'["mygroups"].data \in OpenGroup
          /\ seen'["mygroups"].fetch = "read" => seen'["mygroups"].got \in OpenGroup
    BY <2>1, <2>2, <2>3 DEF GroupOK, ReadQuery, ArrivedQuery, FailedQuery, SentQuery
  <2> QED BY <1>1, <1>2, <2>4, <2>5 DEF GroupOK
<1> QED BY <1>1, <1>4, <1>5

LEMMA GroupNext == ASSUME Orderly, GroupInv, [Next]_pageVars PROVE GroupInv'
<1> SUFFICES ASSUME page' = "group" PROVE GroupOK(ui', srv', seen', calls')
  BY DEF GroupInv
<1>1. page = "group" /\ GroupOK(ui, srv, seen, calls)
  BY PageStays DEF GroupInv
<1>2. CASE Pages
  BY <1>1, <1>2, GroupPage DEF Pages
<1>3. ASSUME NEW i \in CallIds, Handle(i) PROVE GroupOK(ui', srv', seen', calls')
  BY <1>1, <1>3, GroupHandled
<1>4. ASSUME NEW i \in CallIds, Answer(i) PROVE GroupOK(ui', srv', seen', calls')
  <2>1. calls[i].op # "create"
    <3>1. calls[i].op \in {"start", "leave", "demoFill", "none"}
      BY <1>1 DEF Orderly, CallsOK, CallOK, OpsOf, NoCall
    <3> QED BY <3>1
  <2>2. PICK ok \in BOOLEAN : GroupAnswer(i, ok) /\ (ok => calls[i].phase = "ok")
    BY <1>1, <1>4, <2>1 DEF Answer, Settle
  <2> QED BY <1>1, <2>2, GroupAnswered
<1>5. ASSUME NEW k \in DOMAIN seen, Fetch(k) \/ FetchFails(k) \/ Refetch(k) PROVE GroupOK(ui', srv', seen', calls')
  BY <1>1, <1>5, GroupFetched
<1>6. CASE UNCHANGED pageVars
  BY <1>1, <1>6 DEF pageVars
<1> QED BY <1>2, <1>3, <1>4, <1>5, <1>6 DEF Next

LEMMA GroupOpens == ASSUME Init PROVE GroupInv
<1>1. ASSUME page = "group" PROVE GroupInit
  BY <1>1 DEF Init, NewLoyaltyInit, LoyaltyDetailInit, NewCampaignInit, CampaignDetailInit, OnboardingInit,
      SettingsInit, MenuInit, GalleryInit, TeamInit, SetupInit, StaffingInit, OverviewInit, HomeInit, TabInit,
      OfferInit, ContactInit, NearbyInit, BusinessInit, HeroesInit, QrInit, VoucherInit, WalletInit, BoardInit,
      ProfileInit
<1>2. ASSUME GroupInit PROVE GroupOK(ui, srv, seen, calls)
  <2>1. {"place", "sheet", "started", "left"} \subseteq DOMAIN ui /\ ui.started = None
    BY <1>2 DEF GroupInit
  <2>2. srv = [status |-> srv.status, nth |-> srv.nth] /\ srv.nth \in Nat
    BY <1>2 DEF GroupInit
  <2>3. "mygroups" \in DOMAIN seen
    BY <1>2 DEF GroupInit
  <2>4. \A i \in CallIds : calls[i].op = "none"
    BY <1>2 DEF GroupInit, NoCalls, NoCall
  <2> QED BY <2>1, <2>2, <2>3, <2>4, NothingIsNoNumber DEF GroupOK
<1> QED BY <1>1, <1>2 DEF GroupInv

\* The group a leader has started here, while it is open, is what the page shows:
\* no list read before it, and no answer to another call, brings the form back.
THEOREM LeaderKeepsGroup == Spec => []LeaderSeesGroup
<1>1. Init => Orderly /\ GroupInv
  BY OrderlyInit, GroupOpens
<1>2. Orderly /\ GroupInv /\ [Next]_pageVars => Orderly' /\ GroupInv'
  BY OrderlyNext, GroupNext
<1>3. GroupInv => LeaderSeesGroup
  BY DEF GroupInv, GroupOK, LeaderSeesGroup, GroupBody
<1> QED BY <1>1, <1>2, <1>3, PTL DEF Spec
=============================================================================
