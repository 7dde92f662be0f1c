---------------------------- MODULE CampaignPages ----------------------------
(***************************************************************************)
(* The owner's pages of campaigns: the form that creates one and uploads   *)
(* its photo afterwards, and the page of one campaign with its lifecycle   *)
(* buttons, its settings, its vouchers and the studio for social posts.    *)
(***************************************************************************)
EXTENDS WebPage

-----------------------------------------------------------------------------
(* The form *)

\* A photo is 0 (none), 1 or 2.  `untold` counts the campaigns that were created
\* and whose answer was lost.
NewCampaignInit ==
    /\ page = "campaignNew"
    /\ ui = [step |-> 0, type |-> "individual", named |-> FALSE, rewarded |-> FALSE, fixed |-> FALSE,
             item |-> FALSE, photo |-> 0, submitting |-> FALSE, failed |-> FALSE, leaving |-> FALSE]
    /\ srv = [campaigns |-> 0, photo |-> 0, untold |-> 0]
    /\ seen = <<>> /\ calls = NoCalls

createError ==
    \/ ~ui.named \/ ~ui.rewarded
    \/ ui.type = "individual" /\ ui.fixed /\ ~ui.item

\* A type keeps the form, a template or a fresh start replaces it.
StepOutcome ==
    /\ ui.step = 0
    /\ \E t \in {"individual", "group", "social"} :
        \/ Ui([ui EXCEPT !.step = 1, !.type = t])
        \/ Ui([ui EXCEPT !.step = 1, !.type = t, !.named = FALSE, !.rewarded = FALSE,
                         !.fixed = FALSE, !.item = FALSE])

PhotoField == \E f \in 0..2 : f # ui.photo /\ Ui([ui EXCEPT !.photo = f])

ItemRewardPicker ==
    /\ ui.type = "individual"
    /\ \/ Ui([ui EXCEPT !.fixed = ~ui.fixed])
       \/ ui.fixed /\ Ui([ui EXCEPT !.item = ~ui.item])

\* Nothing in the form is locked while it is being sent.
StepDetails ==
    /\ ui.step = 1
    /\ \/ Ui([ui EXCEPT !.named = ~ui.named])
       \/ Ui([ui EXCEPT !.rewarded = ~ui.rewarded])
       \/ ItemRewardPicker
       \/ PhotoField

\* The campaign exists: upload the photo that was there when it was sent.
uploadThenGo(photo, cs, u) ==
    IF photo = 0
    THEN ui' = [u EXCEPT !.leaving = TRUE] /\ calls' = cs
    ELSE /\ ui' = u
         /\ \E i \in CallIds : cs[i] = NoCall /\ calls' = Called(i, "photo", "page", photo, cs)

onSubmit ==
    /\ ui.step = 1 /\ ~createError /\ ~ui.submitting /\ ~ui.failed
    /\ Call("createCampaign", "page", ui.photo)
    /\ ui' = [ui EXCEPT !.submitting = TRUE]
    /\ UNCHANGED <<page, srv, seen>>

retryPhoto ==
    /\ ui.failed /\ ~ui.submitting
    /\ uploadThenGo(ui.photo, calls, [ui EXCEPT !.submitting = TRUE])
    /\ UNCHANGED <<page, srv, seen>>

NewCampaignPage ==
    /\ ~ui.leaving
    /\ \/ StepOutcome \/ StepDetails \/ onSubmit \/ retryPhoto
       \/ ui.step = 1 /\ Ui([ui EXCEPT !.step = 0])
       \/ ui.step = 1 /\ ui.failed /\ Ui([ui EXCEPT !.leaving = TRUE])

createCampaign(i) ==
    calls[i].op = "createCampaign" /\ srv.campaigns < 3 /\ Served(i, [srv EXCEPT !.campaigns = @ + 1])

uploadCampaignImage(i) ==
    calls[i].op = "photo" /\ Served(i, [srv EXCEPT !.photo = calls[i].arg])

\* Mutant: a photo that fails leaves the form as it was before it was sent.
PhotoFails_Slip(u) == [u EXCEPT !.submitting = FALSE]

PhotoFails(u) == [u EXCEPT !.failed = TRUE, !.submitting = FALSE]

NewCampaignAnswer(i, ok) ==
    /\ UNCHANGED <<page, seen>>
    /\ CASE calls[i].op = "createCampaign" /\ ok ->
              uploadThenGo(calls[i].arg, Dropped(i), ui) /\ UNCHANGED srv
         [] calls[i].op = "createCampaign" /\ ~ok ->
              /\ ui' = [ui EXCEPT !.submitting = FALSE] /\ calls' = Dropped(i)
              /\ srv' = IF calls[i].phase = "ok" THEN [srv EXCEPT !.untold = @ + 1] ELSE srv
         [] OTHER ->
              /\ ui' = IF ok THEN [ui EXCEPT !.leaving = TRUE] ELSE PhotoFails(ui)
              /\ calls' = Dropped(i) /\ UNCHANGED srv

-----------------------------------------------------------------------------
(* One campaign *)

CampaignActions == {"publish", "pauseC", "resume", "end", "cancel"}

\* What the handlers accept, and what they make of the status.
ActionFrom ==
    [publish |-> {"draft"}, pauseC |-> {"active"}, resume |-> {"paused"},
     end |-> {"active", "paused", "scheduled"},
     cancel |-> {"draft", "scheduled", "active", "paused"}]
ActionTo(op) ==
    CASE op = "publish" -> {"active", "scheduled"} [] op = "pauseC" -> {"paused"}
      [] op = "resume" -> {"active"} [] op = "end" -> {"ended"} [] op = "cancel" -> {"cancelled"}

\* Which buttons the page shows.
controls(status) ==
    (IF status \in {"draft", "scheduled"} THEN {"publish", "cancel"} ELSE {})
    \union (IF status = "active" THEN {"pauseC"} ELSE {})
    \union (IF status = "paused" THEN {"resume"} ELSE {})
    \union (IF status \in {"active", "paused", "scheduled"} THEN {"end"} ELSE {})

EditableStatuses == {"draft", "scheduled"}

\* The social post is composed from the campaign's name, reward and image.
SocialPost(s) == s.cfg

StudioClosed == [open |-> FALSE, mine |-> FALSE]

\* `cfg` stands for the fields the settings change and for the photo.  Bound: a
\* behaviour either manages the campaign or makes a social post of it.
CampaignDetailInit ==
    /\ page \in {"campaignDetail", "campaignPost"}
    /\ \E st \in {"draft", "active"} :
        srv = [status |-> st, cfg |-> 0, voucher |-> IF st = "draft" THEN "none" ELSE "active"]
    /\ ui = [tab |-> "overview", confirm |-> FALSE, studio |-> StudioClosed]
    /\ seen = IF page = "campaignDetail" THEN [detail |-> Fetching(None)]
              ELSE [detail |-> Fetching(None), post |-> [Cached(None) EXCEPT !.stale = TRUE]]
    /\ calls = NoCalls

CampaignShown == seen.detail.data # None /\ ~seen.detail.bad

CampaignKeysInUse == {"detail"} \union (IF ui.studio.open THEN {"post"} ELSE {})

CampaignControls ==
    /\ ~AnyBusy(CampaignActions, "page")
    /\ \E op \in controls(seen.detail.data.status) : SendOnly(op, "page", None)

\* Picking a photo needs no other part of the page, and stops nothing.
onPickPhoto == ~IsBusy("image", "page") /\ SendOnly("image", "page", 1 - srv.cfg)

\* Each tab is mounted anew.
CampaignTabs ==
    \E t \in {"overview", "rewardUsage", "settings"} \ {ui.tab} :
        /\ ui' = [ui EXCEPT !.tab = t, !.confirm = FALSE]
        /\ calls' = Gone({"tab"})
        /\ UNCHANGED <<page, srv, seen>>

\* A voucher shown as active may be cancelled, after a reason is given.
CampaignRewardUsageTab ==
    /\ ui.tab = "rewardUsage"
    /\ \/ ~ui.confirm /\ seen.detail.data.voucher = "active" /\ Ui([ui EXCEPT !.confirm = TRUE])
       \/ ui.confirm /\ Ui([ui EXCEPT !.confirm = FALSE])
       \/ ui.confirm /\ ~IsBusy("cancelVoucher", "tab") /\ SendOnly("cancelVoucher", "tab", None)

\* Bound: the form is changed to one other value.
CampaignSettingsTab ==
    /\ ui.tab = "settings" /\ seen.detail.data.status \in EditableStatuses
    /\ ~IsBusy("updateC", "tab") /\ SendOnly("updateC", "tab", 1)

\* The studio's fields are seeded whenever the answer changes; `mine` says that
\* the owner has edited them since.
Seeded(post, studio) == IF post = None THEN studio ELSE [studio EXCEPT !.mine = FALSE]

OpenStudio ==
    /\ ~ui.studio.open
    /\ seen' = Used("post", seen)
    /\ ui' = [ui EXCEPT !.studio.open = TRUE]
    /\ UNCHANGED <<page, srv, calls>>

SocialPostStudio ==
    /\ ui.studio.open
    /\ \/ seen.post.data # None /\ ~ui.studio.mine /\ Ui([ui EXCEPT !.studio.mine = TRUE])
       \/ Ui([ui EXCEPT !.studio = StudioClosed])

\* The studio covers the page beneath it.
CampaignDetailPage ==
    /\ CampaignShown
    /\ \/ SocialPostStudio
       \/ /\ ~ui.studio.open
          /\ IF page = "campaignPost" THEN onPickPhoto \/ OpenStudio
             ELSE CampaignControls \/ CampaignTabs \/ CampaignSettingsTab \/ CampaignRewardUsageTab

CampaignServed(i, s) == ServedWith(i, s, [status |-> s.status, cfg |-> s.cfg])

\* A handler refuses what the status does not allow.
campaignAction(i) ==
    /\ calls[i].op \in CampaignActions
    /\ srv.status \in ActionFrom[calls[i].op]
    /\ \E st \in ActionTo(calls[i].op) : CampaignServed(i, [srv EXCEPT !.status = st])

updateCampaign(i) ==
    /\ calls[i].op = "updateC"
    /\ \/ srv.status \in EditableStatuses /\ Loaded(i, srv.status)
       \/ calls[i].phase = "row" /\ CampaignServed(i, [srv EXCEPT !.cfg = calls[i].arg, !.status = calls[i].row])

uploadImage(i) == calls[i].op = "image" /\ CampaignServed(i, [srv EXCEPT !.cfg = calls[i].arg])

cancelCampaignVoucher(i) ==
    /\ calls[i].op = "cancelVoucher" /\ srv.voucher = "active"
    /\ Served(i, [srv EXCEPT !.voucher = "cancelled"])

\* The answer is the campaign: it replaces what the cached page shows of it.
mergeCampaignIntoDetail(row, queries) ==
    IF queries.detail.data = None THEN queries
    ELSE WrittenTo("detail", [queries.detail.data EXCEPT !.status = row.status, !.cfg = row.cfg], queries)

\* What the hooks do with an answer.  Cancelling a voucher refreshes the lists
\* of vouchers, which this page does not use.
CampaignHooks(i) ==
    IF calls[i].op = "cancelVoucher" THEN seen
    ELSE Invalidated({"detail", "post"}, CampaignKeysInUse, mergeCampaignIntoDetail(calls[i].row, seen))

CampaignDetailAnswer(i, ok) ==
    /\ calls' = Dropped(i)
    /\ seen' = IF ok THEN CampaignHooks(i) ELSE Missed(i)
    /\ ui' = IF ok /\ Here(i) /\ calls[i].op = "cancelVoucher" THEN [ui EXCEPT !.confirm = FALSE] ELSE ui
    /\ UNCHANGED <<page, srv>>

\* An answer that differs from the cached one seeds an open studio again.
PostArrives(k) ==
    IF k = "post" /\ seen.post.got # seen.post.data
    THEN [ui EXCEPT !.studio = Seeded(seen.post.got, ui.studio)] ELSE ui

CampaignUnmounted ==
    /\ ui' = [tab |-> "overview", confirm |-> FALSE, studio |-> StudioClosed]
    /\ calls' = Gone({"page", "tab"})

-----------------------------------------------------------------------------
(* Properties *)

\* A form creates one campaign, those apart whose answer was lost, however often
\* its photo fails and is retried and whatever is typed meanwhile: no other create
\* is under way or was served.  A lost answer reads as a refusal, and the form can
\* be sent again, with the same campaign.
CreatedOnce ==
    page = "campaignNew" =>
        srv.campaigns + Cardinality({i \in CallIds : calls[i].op = "createCampaign" /\ calls[i].phase # "ok"})
            <= 1 + srv.untold

\* What the owner has typed into the studio stays until they close it: the
\* fields are seeded once.  Refuted: every new answer seeds them anew.
StudioKeepsEdits ==
    [][ui.studio.mine /\ ui'.studio.open => ui'.studio.mine]_pageVars

\* A page that shows a voucher as active and has nothing under way is right.
\* Refuted: cancelling a voucher does not fetch the campaign again.
VoucherTableIsCurrent ==
    page = "campaignDetail" /\ Quiet /\ Calm /\ CampaignShown =>
        seen.detail.data.voucher = srv.voucher

=============================================================================
