----------------------------- MODULE RewardPages -----------------------------
(***************************************************************************)
(* The customer's pages of what was earned: one campaign voucher and its   *)
(* QR code, the wallet, the board of patches, and the profile.             *)
(***************************************************************************)
EXTENDS CustomerPages, SequencesExt

-----------------------------------------------------------------------------
(* One campaign voucher *)

\* Bound: two items to choose from; a voucher whose item the campaign fixed
\* starts with one.
Items == {"tea", "cake"}

VoucherInit ==
    /\ page = "voucher"
    /\ \E pick \in BOOLEAN : srv = [status |-> "active", pick |-> pick, item |-> IF pick THEN None ELSE "tea"]
    /\ seen = [voucher |-> Fetching(None)]
    /\ ui = [presented |-> FALSE] /\ calls = NoCalls

needsItem(v) == v.status = "active" /\ v.pick /\ v.item = None

\* Opening the page presents the voucher, once.
PresentOnMount ==
    /\ ~ui.presented
    /\ Call("present", "page", None)
    /\ ui' = [presented |-> TRUE]
    /\ UNCHANGED <<page, srv, seen>>

\* The picker cannot be dismissed.
VoucherItemSheet ==
    /\ Has("voucher") /\ needsItem(seen.voucher.data)
    /\ ~IsBusy("selectItem", "picker")
    /\ \E item \in Items : SendOnly("selectItem", "picker", item)

\* The staff redeem it, with or without an item; or it expires.
VoucherEnds ==
    /\ srv.status = "active"
    /\ \E st \in {"redeemed", "expired"} : Meanwhile([srv EXCEPT !.status = st])

CampaignVoucherPage == PresentOnMount \/ VoucherItemSheet \/ Poll("voucher") \/ VoucherEnds

\* Both answer with the voucher; presenting changes nothing of it.
present_voucher(i) ==
    calls[i].op = "present" /\ page = "voucher" /\ srv.status = "active" /\ ServedWith(i, srv, srv)
select_voucher_item(i) ==
    /\ calls[i].op = "selectItem" /\ srv.status = "active" /\ srv.pick
    /\ LET v == [srv EXCEPT !.item = calls[i].arg] IN ServedWith(i, v, v)

\* The picker is there as long as the cached voucher needs an item.
PickerGone(query) ==
    IF query.data = None \/ query.bad \/ ~needsItem(query.data) THEN {"picker"} ELSE {}

VoucherAnswer(i, ok) ==
    LET queries == IF ok THEN WrittenTo("voucher", calls[i].row, seen) ELSE Missed(i)
    IN  /\ seen' = queries
        /\ calls' = [Gone(PickerGone(queries.voucher)) EXCEPT ![i] = NoCall]
        /\ UNCHANGED <<page, ui, srv>>

-----------------------------------------------------------------------------
(* The wallet *)

\* One business: points that buy one reward, the loyalty voucher they turn into
\* and a campaign voucher.  `reward` is the reward whose code is on display: a
\* copy.  Bound: the wallet was opened for this business, and one of the
\* vouchers is redeemed.
WalletInit ==
    /\ page = "wallet"
    /\ srv = [cards |-> "ready", vouchers |-> "none", cwallet |-> "active"]
    /\ seen = [k \in {"cards", "vouchers", "cwallet"} |-> Fetching(None)]
    /\ ui = [sheet |-> FALSE, reward |-> None]
    /\ calls = NoCalls

\* The rewards the sheet lists; points are not listed beside their voucher.
WalletRewards ==
    (IF seen.vouchers.data = "active" THEN {"loyalty"} ELSE {})
    \union (IF seen.cwallet.data = "active" THEN {"campaign"} ELSE {})
    \union (IF seen.cards.data = "ready" /\ seen.vouchers.data # "active" THEN {"cashback"} ELSE {})

\* Points are redeemed first; a campaign voucher is presented.
chooseReward(reward) ==
    CASE reward = "cashback" -> ~IsBusy("redeem", "wallet") /\ SendOnly("redeem", "wallet", None)
      [] reward = "campaign" ->
           /\ Call("present", "wallet", None)
           /\ ui' = [ui EXCEPT !.reward = "campaign"] /\ UNCHANGED <<page, srv, seen>>
      [] reward = "loyalty" -> Ui([ui EXCEPT !.reward = "loyalty"])

WalletDetailSheet ==
    /\ ui.sheet
    /\ \/ ui.reward = None /\ \E reward \in WalletRewards : chooseReward(reward)
       \/ ui.reward # None /\ Ui([ui EXCEPT !.reward = None])
       \/ Ui([ui EXCEPT !.sheet = FALSE, !.reward = None])

StaffRedeemsVoucher ==
    /\ "used" \notin {srv.vouchers, srv.cwallet}
    /\ \/ srv.vouchers = "active" /\ Meanwhile([srv EXCEPT !.vouchers = "used"])
       \/ srv.cwallet = "active" /\ Meanwhile([srv EXCEPT !.cwallet = "used"])

Wallet ==
    \/ Has("cards") /\ (WalletDetailSheet \/ (~ui.sheet /\ Ui([ui EXCEPT !.sheet = TRUE])))
    \/ StaffRedeemsVoucher

redeem_points(i) ==
    /\ calls[i].op = "redeem" /\ srv.cards = "ready"
    /\ Served(i, [srv EXCEPT !.cards = "collecting", !.vouchers = "active"])
present_from_wallet(i) ==
    calls[i].op = "present" /\ page = "wallet" /\ srv.cwallet = "active" /\ Served(i, srv)

\* What the hooks refresh.
WalletInvalidates(op) == IF op = "redeem" THEN {"cards", "vouchers"} ELSE {"cwallet"}

\* The voucher the points became is displayed, even over a closed sheet.
WalletAnswer(i, ok) ==
    /\ calls' = Dropped(i)
    /\ seen' = IF ok THEN LET keys == WalletInvalidates(calls[i].op) IN Invalidated(keys, keys, seen) ELSE Missed(i)
    /\ ui' = IF ok /\ Here(i) /\ calls[i].op = "redeem" THEN [ui EXCEPT !.reward = "loyalty"] ELSE ui
    /\ UNCHANGED <<page, srv>>

\* A wallet opened for a business opens its sheet with every answer that
\* changes what the shops hold.
WalletArrives(k) ==
    ui' = IF seen[k].bad \/ seen[k].got # seen[k].data THEN [ui EXCEPT !.sheet = TRUE] ELSE ui

\* A failed fetch of the cards takes the wallet down.
WalletUnmounted ==
    ui' = [ui EXCEPT !.sheet = FALSE, !.reward = None] /\ calls' = Gone({"wallet"})

-----------------------------------------------------------------------------
(* The board of patches *)

Patches == 1..2   \* bound: one that may be earned before the visit, one during it

PatchesView == [unseen |-> {p \in Patches : srv.patch[p] = "unseen"}, board |-> srv.board]

PatchEarned == srv.patch[2] = "locked" /\ Meanwhile([srv EXCEPT !.patch[2] = "unseen"])

\* Mutant: every answer fills the queue.
SeedQueue_Slip(data, u) ==
    IF data = None THEN u ELSE [u EXCEPT !.seeded = TRUE, !.queue = SetToSeq(data.unseen)]

\* The first data the page has, an older answer from the cache too, fills the
\* queue, and nothing after it does.
SeedQueue(data, u) ==
    IF data = None \/ u.seeded THEN u ELSE [u EXCEPT !.seeded = TRUE, !.queue = SetToSeq(data.unseen)]

\* `queue` holds the patches whose earn moment is still to be shown; `moments`
\* remembers those of this visit.
BoardInit ==
    /\ page = "board"
    /\ \E p \in {"unseen", "seen"} : srv = [patch |-> <<p, "locked">>, board |-> FALSE]
    /\ \E old \in {None, [unseen |-> {}, board |-> FALSE], [unseen |-> {1}, board |-> FALSE]} :
        /\ seen = [patches |-> Fetching(old)]
        /\ ui = SeedQueue(old, [seeded |-> FALSE, queue |-> <<>>, moments |-> <<>>, latched |-> FALSE])
    /\ calls = NoCalls

BoardSeenOnce ==
    /\ seen.patches.data # None /\ ~seen.patches.data.board /\ ~ui.latched
    /\ Call("boardSeen", "page", None)
    /\ ui' = [ui EXCEPT !.latched = TRUE]
    /\ UNCHANGED <<page, srv, seen>>

\* Kept or shared, the first of the queue is marked and leaves it.
EarnMoment ==
    /\ ui.queue # <<>> /\ ~seen.patches.bad
    /\ Call("patchSeen", "page", Head(ui.queue))
    /\ ui' = [ui EXCEPT !.queue = Tail(@), !.moments = Append(@, Head(ui.queue))]
    /\ UNCHANGED <<page, srv, seen>>

PatchesPage == BoardSeenOnce \/ EarnMoment \/ PatchEarned

mark_seen(i) ==
    \/ calls[i].op = "patchSeen" /\ Served(i, [srv EXCEPT !.patch[calls[i].arg] = "seen"])
    \/ calls[i].op = "boardSeen" /\ Served(i, [srv EXCEPT !.board = TRUE])

BoardAnswer(i, ok) ==
    /\ calls' = Dropped(i)
    /\ seen' = IF ok THEN Invalidated({"patches"}, {"patches"}, seen) ELSE Missed(i)
    /\ UNCHANGED <<page, ui, srv>>

-----------------------------------------------------------------------------
(* The profile *)

\* `name` stands for the fields of the form.
ProfileInit ==
    /\ page = "profile"
    /\ srv = [name |-> 0, avatar |-> 0]
    /\ seen = [account |-> Fetching(None)]
    /\ ui = [draft |-> None] /\ calls = NoCalls

ProfilePage ==
    /\ Has("account")
    /\ \/ \E n \in 0..1 : n # ui.draft /\ Ui([draft |-> n])
       \/ /\ ui.draft # seen.account.data.name /\ ~IsBusy("saveProfile", "page")
          /\ SendOnly("saveProfile", "page", ui.draft)
       \/ ~IsBusy("avatar", "page") /\ SendOnly("avatar", "page", None)

\* The user was loaded with the request and is saved with every column.
ProfileView(i) ==
    /\ calls[i].op = "saveProfile"
    /\ \/ Loaded(i, srv)
       \/ calls[i].phase = "row" /\ Served(i, [calls[i].row EXCEPT !.name = calls[i].arg])
AvatarUploadView(i) ==
    /\ calls[i].op = "avatar"
    /\ \/ Loaded(i, srv)
       \/ calls[i].phase = "row" /\ Served(i, [calls[i].row EXCEPT !.avatar = 1])

ProfileAnswer(i, ok) ==
    /\ calls' = Dropped(i)
    /\ seen' = IF ok THEN Invalidated({"account"}, {"account"}, seen) ELSE Missed(i)
    /\ UNCHANGED <<page, ui, srv>>

\* An answer that differs fills the form, over what was typed.
ProfileArrives ==
    ui' = IF seen.account.got # seen.account.data THEN [draft |-> seen.account.got.name] ELSE ui

-----------------------------------------------------------------------------
(* Properties *)

\* A visit to the board celebrates a patch once, however its answers cross the
\* marks that were sent.
EarnMomentOnce ==
    page = "board" => IsInjective(ui.moments \o ui.queue)

=============================================================================
