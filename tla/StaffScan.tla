----------------------------- MODULE StaffScan -----------------------------
(***************************************************************************)
(* The staff till: the page that scans a QR code, resolves it, and lets    *)
(* the cashier apply several promotions from one scan.  Each sheet of the  *)
(* page is one action, the disjunction of what its controls call.          *)
(*                                                                         *)
(* Every request is a TanStack mutation: a hook observes only its latest   *)
(* call, `reset` forgets that call, and a call that is no longer observed  *)
(* still reaches the server but its callbacks never run.  Answers come in  *)
(* any order; a request or its answer may be lost, which the page sees as  *)
(* an error.                                                               *)
(***************************************************************************)
EXTENDS Naturals, FiniteSets

CONSTANTS
    Customers,    \* personal QR tokens
    Vouchers,     \* reward vouchers, each with a QR token of its own
    Groups,       \* group invitation tokens
    Rows,         \* campaign rows of a chooser
    Legs,         \* loyalty programs of a chooser: the legs of one batch
    OwnerOf,      \* the customer each voucher belongs to
    MechanicOf,   \* the mechanic of each campaign row
    DefaultLegs,  \* the legs a fresh collect panel starts with (stamp cards at 1)
    MaxInFlight,  \* bound: requests under way at one time
    None

Tokens == Customers \union Vouchers \union Groups
Ids == 1..MaxInFlight
Mechanics == {"visit", "stamp", "points", "social"}

ASSUME StaffScanAssumption ==
    /\ None \notin Tokens \union Rows
    /\ OwnerOf \in [Vouchers -> Customers]
    /\ MechanicOf \in [Rows -> Mechanics]
    /\ DefaultLegs \subseteq Legs
    /\ MaxInFlight \in Nat \ {0}

VARIABLES
    overlay,    \* the sheet that is open
    picking,    \* the chooser's voucher list is unfolded
    legs,       \* the legs the collect panel would send
    pending,    \* the campaign row whose action shows a spinner
    bill,       \* the customer the kept bill amount was typed for
    token,      \* the token most recently scanned
    busy,       \* a scan is being handled
    camera,     \* off, live, or stopped after reading a code
    requests,   \* requests under way, by identifier
    observed,   \* the request each hook observes
    spent       \* server: vouchers and groups already redeemed

page == <<overlay, picking, legs, pending, bill, token, busy, camera>>
network == <<requests, observed>>
vars == <<page, network, spent>>

-----------------------------------------------------------------------------
(* What the page holds *)

OverlayKinds ==
    {"none", "chooser", "amount", "single_result", "batch_result",
     "group_eligible", "reward_valid", "reward_redeemed", "group_done",
     "invalid", "error"}

Hooks == {"resolveScan", "confirmVisit", "awardBatch", "confirmSocial",
          "redeemVoucher", "redeemById", "confirmGroup"}

\* A sheet, the token its contents are about, and, for a chooser, the
\* snapshot of rows still eligible and vouchers still active.
Sheet(kind, who) ==
    [kind |-> kind, who |-> who, row |-> None, rows |-> {}, vouchers |-> {}]

NoSheet == Sheet("none", None)

\* An answer of the server; "none" while the request has not been served.
Answers == [kind : {"none", "customer", "voucher", "group", "invalid",
                    "done", "error"},
            rows : SUBSET Rows, vouchers : SUBSET Vouchers]

Reply(kind) == [kind |-> kind, rows |-> {}, vouchers |-> {}]

\* A request: its hook, the token scanned when it was sent, the row, voucher
\* or group it names, whether it re-resolves a scan, and its answer.
NoRequest == [hook |-> "none", scan |-> None, arg |-> None, again |-> FALSE,
              answer |-> Reply("none")]

TypeOK ==
    /\ overlay \in [kind : OverlayKinds, who : Tokens \union {None},
                    row : Rows \union {None},
                    rows : SUBSET Rows, vouchers : SUBSET Vouchers]
    /\ picking \in BOOLEAN /\ busy \in BOOLEAN
    /\ legs \subseteq Legs
    /\ pending \in Rows \union {None}
    /\ bill \in Customers \union {None}
    /\ token \in Tokens \union {None}
    /\ camera \in {"off", "live", "read"}
    /\ requests \in [Ids -> [hook : Hooks \union {"none"}, scan : Tokens \union {None},
                             arg : Rows \union Tokens \union {None},
                             again : BOOLEAN, answer : Answers]]
    /\ observed \in [Hooks -> Ids \union {0}]
    /\ spent \subseteq Vouchers \union Groups

Init ==
    /\ overlay = NoSheet /\ picking = FALSE /\ legs = {}
    /\ pending = None /\ bill = None /\ token = None /\ busy = FALSE
    /\ camera = "off"
    /\ requests = [i \in Ids |-> NoRequest]
    /\ observed = [h \in Hooks |-> 0]
    /\ spent = {}

-----------------------------------------------------------------------------
(* Mutations *)

Free == {i \in Ids : requests[i] = NoRequest}
IsPending(h) == observed[h] # 0

\* mutate(): the hook observes the new call and forgets the one before it.
Mutate(h, scan, arg, again) ==
    /\ Free # {}
    /\ LET i == CHOOSE j \in Free : \A k \in Free : j <= k
       IN  /\ requests' = [requests EXCEPT ![i] =
                             [hook |-> h, scan |-> scan, arg |-> arg,
                              again |-> again, answer |-> Reply("none")]]
           /\ observed' = [observed EXCEPT ![h] = i]

\* reset() on a set of hooks.
Forget(hooks) == [h \in Hooks |-> IF h \in hooks THEN 0 ELSE observed[h]]

-----------------------------------------------------------------------------
(* What the sheets call *)

OpenSheet(sheet) ==
    /\ overlay' = sheet
    /\ picking' = FALSE
    /\ legs' = IF sheet.kind = "chooser" THEN DefaultLegs ELSE {}

\* Mutant: the scanner keeps its key and is not remounted.
Remount_Slip == UNCHANGED camera

\* The scanner is remounted and reads again, unless the camera is off.
Remount == camera' = IF camera = "off" THEN "off" ELSE "live"

\* Mutant: only the calls of the first version of the page are forgotten.
dismiss_Slip ==
    /\ OpenSheet(NoSheet)
    /\ pending' = None /\ bill' = None /\ busy' = FALSE
    /\ Remount
    /\ observed' = Forget({"resolveScan", "confirmVisit"})
    /\ UNCHANGED <<token, requests, spent>>

dismiss ==
    /\ OpenSheet(NoSheet)
    /\ pending' = None /\ bill' = None /\ busy' = FALSE
    /\ Remount
    /\ observed' = Forget(Hooks)
    /\ UNCHANGED <<token, requests, spent>>

\* Scan the same token again to refresh the chooser.
continueToChooser ==
    /\ pending' = None
    /\ Free # {}
    /\ LET i == CHOOSE j \in Free : \A k \in Free : j <= k
       IN  /\ requests' = [requests EXCEPT ![i] =
                             [hook |-> "resolveScan", scan |-> token, arg |-> None,
                              again |-> TRUE, answer |-> Reply("none")]]
           /\ observed' = [Forget({"confirmVisit", "awardBatch", "confirmSocial",
                                   "redeemById"}) EXCEPT !["resolveScan"] = i]
    /\ UNCHANGED <<overlay, picking, legs, bill, token, busy, camera, spent>>

handleScan(tok) ==
    /\ ~busy
    /\ busy' = TRUE
    /\ token' = tok
    /\ Mutate("resolveScan", tok, None, FALSE)
    /\ UNCHANGED <<overlay, picking, legs, pending, bill, spent>>

handleCollect ==
    /\ Mutate("awardBatch", token, None, FALSE)
    /\ UNCHANGED <<page, spent>>

handleConfirmRow(row) ==
    /\ pending' = row
    /\ Mutate("confirmVisit", token, row, FALSE)
    /\ UNCHANGED <<overlay, picking, legs, bill, token, busy, camera, spent>>

handlePickRow(row) ==
    /\ OpenSheet([overlay EXCEPT !.kind = "amount", !.row = row])
    /\ UNCHANGED <<pending, bill, token, busy, camera, network, spent>>

\* The bill typed for this row stays visible for the rest of the scan.
handleConfirmAmount ==
    /\ bill' = overlay.who
    /\ pending' = overlay.row
    /\ Mutate("confirmVisit", token, overlay.row, FALSE)
    /\ UNCHANGED <<overlay, picking, legs, token, busy, camera, spent>>

handleConfirmSocialRow(row) ==
    /\ pending' = row
    /\ Mutate("confirmSocial", token, row, FALSE)
    /\ UNCHANGED <<overlay, picking, legs, bill, token, busy, camera, spent>>

handleRedeemVoucher(v) ==
    /\ Mutate("redeemById", token, v, FALSE)
    /\ picking' = FALSE
    /\ UNCHANGED <<overlay, legs, pending, bill, token, busy, camera, spent>>

handleRedeem ==
    /\ Mutate("redeemVoucher", token, overlay.who, FALSE)
    /\ UNCHANGED <<page, spent>>

handleConfirmGroup ==
    /\ Mutate("confirmGroup", token, overlay.who, FALSE)
    /\ UNCHANGED <<page, spent>>

-----------------------------------------------------------------------------
(* The sheets: what each one lets the cashier do *)

\* A stepper at zero or an empty bill field leaves its leg out.
StepLeg(leg) ==
    /\ legs' = IF leg \in legs THEN legs \ {leg} ELSE legs \union {leg}
    /\ UNCHANGED <<overlay, picking, pending, bill, token, busy, camera, network, spent>>

CollectPanel ==
    \/ \E leg \in Legs : StepLeg(leg)
    \/ legs # {} /\ ~IsPending("awardBatch") /\ handleCollect

\* One tap confirms a visit or a post; a row priced by the bill opens the keypad.
ProgramTile(row) ==
    /\ row \in overlay.rows
    /\ pending # row
    /\ CASE MechanicOf[row] = "points" -> handlePickRow(row)
         [] MechanicOf[row] = "social" -> handleConfirmSocialRow(row)
         [] OTHER -> handleConfirmRow(row)

RedeemEntry ==
    /\ ~IsPending("redeemById") \/ picking
    /\ IF Cardinality(overlay.vouchers) = 1 \/ picking
       THEN \E v \in overlay.vouchers : handleRedeemVoucher(v)
       ELSE /\ overlay.vouchers # {}
            /\ picking' = TRUE
            /\ UNCHANGED <<overlay, legs, pending, bill, token, busy, camera, network, spent>>

CancelPicking ==
    /\ picking /\ picking' = FALSE
    /\ UNCHANGED <<overlay, legs, pending, bill, token, busy, camera, network, spent>>

ClearBill ==
    /\ bill # None /\ bill' = None
    /\ UNCHANGED <<overlay, picking, legs, pending, token, busy, camera, network, spent>>

LoyaltyChooserSheet ==
    /\ overlay.kind = "chooser"
    /\ \/ RedeemEntry
       \/ CancelPicking
       \/ CollectPanel
       \/ \E row \in Rows : ProgramTile(row)
       \/ ClearBill
       \/ dismiss

\* Any positive bill may be confirmed; going back reopens the same chooser.
AmountSheet ==
    /\ overlay.kind = "amount"
    /\ \/ ~IsPending("confirmVisit") /\ handleConfirmAmount
       \/ /\ OpenSheet([overlay EXCEPT !.kind = "chooser", !.row = None])
          /\ UNCHANGED <<pending, bill, token, busy, camera, network, spent>>

SingleResultSheet == overlay.kind = "single_result" /\ (continueToChooser \/ dismiss)

BatchResultSheet == overlay.kind = "batch_result" /\ (continueToChooser \/ dismiss)

\* The roster's ticks are an aid to the eye: one confirm settles the group.
GroupEligibleSheet ==
    /\ overlay.kind = "group_eligible"
    /\ \/ ~IsPending("confirmGroup") /\ handleConfirmGroup
       \/ dismiss

RewardValidSheet ==
    /\ overlay.kind = "reward_valid"
    /\ \/ ~IsPending("redeemVoucher") /\ handleRedeem
       \/ dismiss

RedeemedSheet ==
    \/ overlay.kind = "reward_redeemed" /\ continueToChooser
    \/ overlay.kind = "group_done" /\ dismiss

InvalidSheet == overlay.kind \in {"invalid", "error"} /\ dismiss

\* Result sheets close by themselves: their countdown calls the same handler.
CountdownBar ==
    /\ ~IsPending("resolveScan")
    /\ \/ overlay.kind \in {"single_result", "batch_result", "reward_redeemed"}
          /\ continueToChooser
       \/ overlay.kind = "group_done" /\ dismiss

-----------------------------------------------------------------------------
(* The camera and the typed code *)

\* The scanner stops after one reading, whether or not the page takes it.
QrScanner(tok) ==
    /\ camera = "live"
    /\ camera' = "read"
    /\ IF busy THEN UNCHANGED <<overlay, picking, legs, pending, bill, token, busy, network, spent>>
       ELSE handleScan(tok)

CameraOff(tok) ==
    /\ camera = "off"
    /\ \/ camera' = "off" /\ handleScan(tok)
       \/ /\ camera' = "live"
          /\ UNCHANGED <<overlay, picking, legs, pending, bill, token, busy, network, spent>>

\* The cashier turns the camera off, or it is refused.
StopCamera ==
    /\ camera # "off" /\ camera' = "off"
    /\ UNCHANGED <<overlay, picking, legs, pending, bill, token, busy, network, spent>>

-----------------------------------------------------------------------------
(* The server *)

\* What resolving a code may answer; it only reads.  Which rows a customer may
\* still advance is the campaigns' business: all of them, or none any more.  A
\* spent voucher's or group's code is refused.
resolveScan(tok) ==
    IF tok \in Customers
    THEN {[kind |-> "customer", rows |-> rows,
           vouchers |-> {v \in Vouchers \ spent : OwnerOf[v] = tok}] : rows \in {Rows, {}}}
    ELSE {Reply(IF tok \in spent THEN "invalid"
                ELSE IF tok \in Vouchers THEN "voucher" ELSE "group")}

\* A batch and a confirm are applied as often as they arrive (a confirm the
\* campaign refuses answers 200 all the same); a voucher and a group settle once.
Serve(i) ==
    /\ requests[i].hook # "none" /\ requests[i].answer.kind = "none"
    /\ LET r == requests[i]
           settles == r.hook \in {"redeemVoucher", "redeemById", "confirmGroup"}
       IN  /\ \E answer \in IF r.hook = "resolveScan" THEN resolveScan(r.scan)
                             ELSE {Reply(IF settles /\ r.arg \in spent THEN "error" ELSE "done")} :
                requests' = [requests EXCEPT ![i].answer = answer]
           /\ spent' = IF settles THEN spent \union {r.arg} ELSE spent
    /\ UNCHANGED <<page, observed>>

\* The request, or the answer to it, is lost: the page sees an error.
Lose(i) ==
    /\ requests[i].hook # "none" /\ requests[i].answer.kind # "error"
    /\ requests' = [requests EXCEPT ![i].answer = Reply("error")]
    /\ UNCHANGED <<page, observed, spent>>

-----------------------------------------------------------------------------
(* Callbacks of the answer that arrives *)

\* The sheet a first scan opens.
FirstSheet(answer, who) ==
    IF answer.kind = "customer"
    THEN [Sheet("chooser", who) EXCEPT !.rows = answer.rows, !.vouchers = answer.vouchers]
    ELSE Sheet(CASE answer.kind = "voucher" -> "reward_valid"
                 [] answer.kind = "group" -> "group_eligible"
                 [] OTHER -> "invalid", who)

\* The callbacks leave the requests alone: Deliver has removed this one.
Idle(hook) == observed' = [observed EXCEPT ![hook] = 0]

Show(sheet, hook) ==
    /\ OpenSheet(sheet) /\ Idle(hook)
    /\ UNCHANGED <<pending, bill, token, busy, camera, spent>>

\* Mutant: a failed resolve has no callback.
OnResolved_Slip(r) ==
    IF r.answer.kind = "error" THEN Idle("resolveScan") /\ UNCHANGED <<page, spent>>
    ELSE Show(FirstSheet(r.answer, r.scan), "resolveScan")

OnResolved(r) ==
    IF r.answer.kind = "error" /\ ~r.again THEN Show(Sheet("error", r.scan), "resolveScan")
    ELSE IF ~r.again \/ r.answer.rows # {} \/ r.answer.vouchers # {}
                     \/ (r.answer.kind = "customer" /\ Legs # {})
    THEN Show(FirstSheet(r.answer, r.scan), "resolveScan")
    ELSE /\ OpenSheet(NoSheet)
         /\ pending' = None /\ bill' = None /\ busy' = FALSE
         /\ Remount /\ observed' = Forget(Hooks)
         /\ UNCHANGED <<token, spent>>

\* A confirm the campaign refused shows the counted sheet all the same.
showSingleResult(r) ==
    /\ OpenSheet(Sheet(IF r.answer.kind = "error" THEN "error" ELSE "single_result", r.scan))
    /\ pending' = None
    /\ Idle(r.hook)
    /\ UNCHANGED <<bill, token, busy, camera, spent>>

OnSettled(r) ==
    Show(Sheet(CASE r.answer.kind = "error" -> "error"
                 [] r.hook = "awardBatch" -> "batch_result"
                 [] r.hook = "confirmGroup" -> "group_done"
                 [] OTHER -> "reward_redeemed", r.scan), r.hook)

Deliver(i) ==
    /\ requests[i].answer.kind # "none"
    /\ requests' = [requests EXCEPT ![i] = NoRequest]
    /\ LET r == requests[i]
       IN  IF observed[r.hook] # i THEN UNCHANGED <<page, observed, spent>>
           ELSE CASE r.hook = "resolveScan" -> OnResolved(r)
                  [] r.hook \in {"confirmVisit", "confirmSocial"} -> showSingleResult(r)
                  [] OTHER -> OnSettled(r)

-----------------------------------------------------------------------------
Sheets ==
    \/ LoyaltyChooserSheet \/ AmountSheet \/ SingleResultSheet \/ BatchResultSheet
    \/ GroupEligibleSheet \/ RewardValidSheet \/ RedeemedSheet \/ InvalidSheet

Next ==
    \/ \E tok \in Tokens : QrScanner(tok) \/ CameraOff(tok)
    \/ StopCamera
    \/ Sheets
    \/ CountdownBar
    \/ \E i \in Ids : Serve(i) \/ Lose(i) \/ Deliver(i)

\* The network answers or gives up on every request; the browser runs the
\* callbacks.  Nothing is assumed of the cashier.
Spec ==
    /\ Init /\ [][Next]_vars
    /\ \A i \in Ids : WF_vars(Serve(i) \/ Lose(i)) /\ WF_vars(Deliver(i))

-----------------------------------------------------------------------------
(* Properties *)

\* A sheet is open only while a scan is being handled, and all it shows, the
\* kept bill included, is about the code scanned last: an award, which is
\* sent for the code scanned last, goes to the customer on the screen.  The
\* state of the page and of its calls is well-typed.
ShownIsScanned ==
    /\ TypeOK
    /\ overlay # NoSheet => busy /\ overlay.who = token
    /\ bill # None => bill = token

\* A scanner that has stopped after a reading belongs to a scan being
\* handled, whose end restarts it: the till never sits with a dead camera.
StoppedCameraHasScan == camera = "read" => busy

\* A scan always ends in a sheet: the page, which ignores every further code
\* meanwhile, does not stay deaf.
ScanSettles == (busy /\ overlay = NoSheet) ~> (overlay # NoSheet)

\* While the chooser is open, the row whose confirm is under way for the
\* customer on the screen is the one that shows the spinner, so that it cannot
\* be confirmed twice.  Refuted: a second row confirmed takes the spinner over.
SpinnerShowsInFlight ==
    overlay.kind = "chooser" =>
        \A i \in Ids :
            /\ requests[i].hook \in {"confirmVisit", "confirmSocial"}
            /\ requests[i].scan = token
            => pending = requests[i].arg

=============================================================================
