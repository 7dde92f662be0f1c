------------------------------ MODULE WebPages ------------------------------
(***************************************************************************)
(* The pages of the web app, one open at a time, against their handlers    *)
(* and the query cache.                                                    *)
(***************************************************************************)
EXTENDS LoyaltyPages, CampaignPages, HomePages, QrPages, RewardPages

CONSTANT OpenPages   \* the pages a behaviour may start on

Init ==
    /\ page \in OpenPages
    /\ \/ NewLoyaltyInit \/ LoyaltyDetailInit
       \/ NewCampaignInit \/ CampaignDetailInit
       \/ OnboardingInit \/ SettingsInit \/ MenuInit \/ GalleryInit \/ TeamInit
       \/ SetupInit \/ StaffingInit \/ OverviewInit
       \/ HomeInit \/ TabInit \/ OfferInit \/ GroupInit
       \/ ContactInit \/ NearbyInit \/ BusinessInit \/ HeroesInit \/ QrInit
       \/ VoucherInit \/ WalletInit \/ BoardInit \/ ProfileInit

-----------------------------------------------------------------------------
Pages ==
    \/ page = "loyaltyNew" /\ NewLoyaltyPage
    \/ page = "loyaltyDetail" /\ LoyaltyProgramDetailPage
    \/ page = "campaignNew" /\ NewCampaignPage
    \/ page \in {"campaignDetail", "campaignPost"} /\ CampaignDetailPage
    \/ page = "onboarding" /\ (OnboardingFlow \/ AdminReviews)
    \/ page = "settings" /\ SettingsSections
    \/ page = "menu" /\ MenuSection
    \/ page = "gallery" /\ GallerySection
    \/ page = "team" /\ ManageStaffPage
    \/ page = "setup" /\ StageSetup
    \/ page = "staffing" /\ StageStaff
    \/ page = "overview" /\ BusinessSettingsPage
    \/ page = "contact" /\ LocationPicker
    \/ page = "nearby" /\ NearbyPage
    \/ page = "business" /\ BusinessProfilePage
    \/ page = "heroes" /\ HeroesPage
    \/ page = "qr" /\ QrPage
    \/ page = "home" /\ AuthedHome
    \/ page = "tab" /\ (CampaignsPage \/ FeedListed \/ FeedRead)
    \/ page = "offer" /\ CampaignDetailSheet
    \/ page = "group" /\ GroupSessionPage
    \/ page = "voucher" /\ CampaignVoucherPage
    \/ page = "wallet" /\ Wallet
    \/ page = "board" /\ PatchesPage
    \/ page = "profile" /\ ProfilePage

Handle(i) ==
    \/ createProgram(i) \/ updateProgram(i) \/ programAction(i)
    \/ createCampaign(i) \/ uploadCampaignImage(i)
    \/ campaignAction(i) \/ updateCampaign(i) \/ uploadImage(i) \/ cancelCampaignVoucher(i)
    \/ saveOnboarding(i) \/ uploadLogo(i) \/ (page = "onboarding" /\ submitOnboarding(i)) \/ updateMe(i) \/ set_business_image(i)
    \/ addCatalogItem(i) \/ removeCatalogItem(i) \/ uploadCatalogItemImage(i)
    \/ add_gallery_image(i) \/ remove_gallery_image(i)
    \/ page = "team" /\ (staffMember(i) \/ createStaffAccount(i))
    \/ page = "staffing" /\ createAccount(i)
    \/ page = "overview" /\ submitForReview(i)
    \/ search(i) \/ locate(i)
    \/ markCampaignNoticesSeen(i) \/ joinCampaign(i)
    \/ start_group_session(i) \/ leave_group_session(i) \/ demo_fill_group(i)
    \/ present_voucher(i) \/ select_voucher_item(i)
    \/ redeem_points(i) \/ present_from_wallet(i)
    \/ mark_seen(i) \/ ProfileView(i) \/ AvatarUploadView(i)

Settle(i, ok) ==
    \/ calls[i].op = "create" /\ NewLoyaltyAnswer(i, ok)
    \/ page = "loyaltyDetail" /\ LoyaltyDetailAnswer(i, ok)
    \/ page = "campaignNew" /\ NewCampaignAnswer(i, ok)
    \/ page \in {"campaignDetail", "campaignPost"} /\ CampaignDetailAnswer(i, ok)
    \/ page = "onboarding" /\ OnboardingAnswer(i, ok)
    \/ page = "settings" /\ SettingsAnswer(i, ok)
    \/ page = "menu" /\ MenuAnswer(i, ok)
    \/ page = "gallery" /\ GalleryAnswer(i, ok)
    \/ page = "team" /\ TeamAnswer(i, ok)
    \/ page = "setup" /\ SetupAnswer(i, ok)
    \/ page = "staffing" /\ StaffingAnswer(i, ok)
    \/ page = "overview" /\ OverviewAnswer(i, ok)
    \/ page = "contact" /\ ContactAnswer(i, ok)
    \/ page = "nearby" /\ NearbyAnswer(i, ok)
    \/ page = "home" /\ HomeAnswer(i, ok)
    \/ page = "tab" /\ TabAnswer(i, ok)
    \/ page = "offer" /\ OfferAnswer(i, ok)
    \/ page = "group" /\ GroupAnswer(i, ok)
    \/ page = "voucher" /\ VoucherAnswer(i, ok)
    \/ page = "wallet" /\ WalletAnswer(i, ok)
    \/ page = "board" /\ BoardAnswer(i, ok)
    \/ page = "profile" /\ ProfileAnswer(i, ok)

\* Refused, or lost on the way; or served, and the answer comes back or is lost.
Answer(i) ==
    \/ calls[i].phase = "ok" /\ Settle(i, TRUE)
    \/ calls[i].phase \in {"sent", "ok"} /\ calls[i] # NoCall /\ Settle(i, FALSE)

\* What the server answers to a query now.
View(k) ==
    CASE k = "post" -> SocialPost(srv)
      [] k = "state" /\ page = "onboarding" -> OnboardingState(srv)
      [] k = "state" /\ page # "onboarding" -> missingFields(srv)
      [] k = "gallery" -> srv.photos
      [] k = "notices" -> srv.notices
      [] k = "feed" -> FeedView
      [] k = "summary" -> srv.wins
      [] k = "mygroups" -> MyGroupsView
      [] k = "session" -> srv.status
      [] k \in {"cards", "vouchers", "cwallet"} -> srv[k]
      [] k \in NearbyKeys -> PublicBusinessListView(k)
      [] k \in HomeKeys -> HomeView(k)
      [] k = "business" -> srv.open
      [] k = "qr" -> 1
      [] k = "bloyalty" -> srv.cards
      [] k = "patches" -> PatchesView
      [] OTHER -> srv

\* The cached answer is the server's.  Left out are the vouchers of a campaign,
\* which not every mutation refreshes, and the queries mutations write into.
Shows(k, data) ==
    CASE k = "detail" -> [data EXCEPT !.voucher = srv.voucher] = srv
      [] k \in WrittenKeys -> TRUE
      [] OTHER -> data = View(k)

\* What an answer does to the page that is open.
PageHears(k) ==
    CASE k = "me" -> ui' = useHydratedForm(seen.me.got) /\ UNCHANGED calls
      [] k \in {"detail", "post"} -> ui' = PostArrives(k) /\ UNCHANGED calls
      [] k \in {"feed", "summary"} -> TabArrives(k)
      [] k = "mygroups" -> GroupArrives(Arrived(k))
      [] k = "voucher" -> calls' = Gone(PickerGone(Arrived(k)[k])) /\ UNCHANGED ui
      [] k \in {"cards", "vouchers", "cwallet"} -> WalletArrives(k) /\ UNCHANGED calls
      [] k = "patches" -> ui' = SeedQueue(seen.patches.got, ui) /\ UNCHANGED calls
      [] k = "account" -> ProfileArrives /\ UNCHANGED calls
      [] k \in NearbyKeys -> NearbyArrives(k) /\ UNCHANGED calls
      [] OTHER -> UNCHANGED <<ui, calls>>

Fetch(k) ==
    \/ k # "feed" /\ FetchRead(k, View(k))
    \/ /\ seen[k].fetch = "read"
       /\ seen' = Arrived(k)
       /\ PageHears(k)
       /\ UNCHANGED <<page, srv>>

\* A failed fetch takes down the page its boundary holds.
FetchFails(k) ==
    /\ seen[k].fetch # "no"
    /\ seen' = FetchFailed(k)
    /\ CASE k = "program" -> LoyaltyUnmounted
         [] k = "detail" -> CampaignUnmounted
         [] k = "offer" -> calls' = Gone({"cta"}) /\ UNCHANGED ui
         [] k = "mygroups" -> GroupArrives(FetchFailed(k))
         [] k = "voucher" -> calls' = Gone({"picker"}) /\ UNCHANGED ui
         [] k = "cards" -> WalletUnmounted
         [] OTHER -> UNCHANGED <<ui, calls>>
    /\ UNCHANGED <<page, srv>>

\* The retry button of an error.
Refetch(k) ==
    /\ \/ k \in {"program", "detail", "team", "offer", "mygroups", "session", "voucher", "cards", "account", "business", "qr"}
       \/ k = "state" /\ page = "onboarding"
       \/ k \in NearbyKeys /\ ui.list /\ k = nearbyKey(ui)
    /\ seen[k].bad /\ seen[k].fetch = "no"
    /\ seen' = [seen EXCEPT ![k].fetch = "sent"]
    /\ UNCHANGED <<page, ui, srv, calls>>

Next ==
    \/ Pages
    \/ \E i \in CallIds : Handle(i) \/ Answer(i)
    \/ \E k \in DOMAIN seen : Fetch(k) \/ FetchFails(k) \/ Refetch(k)

Spec == Init /\ [][Next]_pageVars

-----------------------------------------------------------------------------
(* Properties *)

Ops ==
    {"none", "create", "update", "createCampaign", "photo", "updateC", "image", "cancelVoucher",
     "save", "logo", "addItem", "removeItem", "itemImage", "submit", "updateMe", "brandImage",
     "addPhoto", "deletePhoto", "reset", "createStaff",
     "noticeSeen", "join", "start", "leave", "demoFill", "present", "selectItem",
     "search", "locate", "redeem", "patchSeen", "boardSeen", "saveProfile", "avatar"}
    \union LifecycleOps \union CampaignActions \union MemberOps

Components ==
    {"page", "hero", "settings", "tab", "drawer", "modal", "starter", "cta", "form", "session",
     "picker", "wallet", "map", "gone"} \union Sections

PagesTypeOK ==
    /\ page \in OpenPages \union {"left"}
    /\ \A i \in CallIds :
        /\ calls[i].op \in Ops /\ calls[i].at \in Components
        /\ calls[i].phase \in {"sent", "row", "ok"}
    /\ \A k \in DOMAIN seen :
        /\ seen[k].stale \in BOOLEAN /\ seen[k].bad \in BOOLEAN /\ seen[k].missed \in BOOLEAN
        /\ seen[k].fetch \in {"no", "sent", "listed", "read"}

\* Nothing is under way: each cached answer that is not known to be old, and
\* has missed nothing, is what the server would answer.  The calls and the
\* cache are well-typed throughout.
SettledIsCurrent ==
    /\ PagesTypeOK
    /\ Quiet => \A k \in DOMAIN seen :
           /\ seen[k].fetch = "no"
           /\ ~seen[k].stale /\ ~seen[k].bad /\ ~seen[k].missed
           => Shows(k, seen[k].data)

=============================================================================
