-------------------------- MODULE StaffScan_proofs --------------------------
(***************************************************************************)
(* Theorems about the staff till, for any number of customers, vouchers,   *)
(* groups, promotions and overlapping requests.                            *)
(*                                                                         *)
(* The invariant is in two halves.  PageInv is about what the page holds,  *)
(* NetInv about the requests under way; the only bridge between them is    *)
(* that a request still observed was sent for the code scanned last.       *)
(***************************************************************************)
EXTENDS StaffScan, WellFoundedInduction, TLAPS

-----------------------------------------------------------------------------
(* Types *)

SheetType == [kind : OverlayKinds, who : Tokens \union {None},
              row : Rows \union {None},
              rows : SUBSET Rows, vouchers : SUBSET Vouchers]

RequestType == [hook : Hooks \union {"none"}, scan : Tokens \union {None},
                arg : Rows \union Tokens \union {None},
                again : BOOLEAN, answer : Answers]

\* A sheet is about the kind of code it needs.
SheetFits(sheet) ==
    /\ sheet.kind \in {"chooser", "amount"} => sheet.who \in Customers
    /\ sheet.kind = "reward_valid" => sheet.who \in Vouchers
    /\ sheet.kind = "group_eligible" => sheet.who \in Groups

\* A request names what its handler can settle, and what a resolved code turned
\* out to be is what the code is.
RequestFits(r) ==
    /\ r.hook = "none" => r = NoRequest
    /\ r.hook = "resolveScan" =>
         /\ r.scan \in Tokens
         /\ r.answer.kind = "customer" => r.scan \in Customers
         /\ r.answer.kind = "voucher" => r.scan \in Vouchers
         /\ r.answer.kind = "group" => r.scan \in Groups
    /\ r.hook \in {"redeemVoucher", "redeemById", "confirmGroup"} =>
         r.arg \in Vouchers \union Groups

PageInv ==
    /\ overlay \in SheetType /\ SheetFits(overlay)
    /\ picking \in BOOLEAN /\ busy \in BOOLEAN
    /\ legs \subseteq Legs
    /\ pending \in Rows \union {None}
    /\ bill \in Customers \union {None}
    /\ token \in Tokens \union {None}
    /\ camera \in {"off", "live", "read"}
    /\ overlay # NoSheet => busy /\ overlay.who = token
    /\ bill # None => busy /\ bill = token
    /\ busy => token \in Tokens
    /\ camera = "read" => busy

NetInv ==
    /\ requests \in [Ids -> RequestType]
    /\ observed \in [Hooks -> Ids \union {0}]
    /\ \A i \in Ids : RequestFits(requests[i])
    /\ \A h \in Hooks : observed[h] # 0 =>
         /\ busy
         /\ requests[observed[h]].hook = h
         /\ requests[observed[h]].scan = token

ScanInv == PageInv /\ NetInv /\ spent \subseteq Vouchers \union Groups

\* What the invariant is for.
LEMMA InvImplies == ScanInv => ShownIsScanned /\ StoppedCameraHasScan
BY DEF ScanInv, PageInv, NetInv, ShownIsScanned, StoppedCameraHasScan, TypeOK,
       SheetType, RequestType

\* A request put together from parts of the right kind is well-typed.
LEMMA RequestTyped ==
    ASSUME NEW h \in Hooks, NEW scan \in Tokens \union {None},
           NEW arg \in Rows \union Tokens \union {None}, NEW again \in BOOLEAN
    PROVE  [hook |-> h, scan |-> scan, arg |-> arg, again |-> again,
            answer |-> Reply("none")] \in RequestType
<1>1. Reply("none") \in Answers
  BY DEF Reply, Answers
<1> QED BY <1>1, Zenon DEF RequestType

\* So is a request with another answer, and the empty slot.
LEMMA AnswerTyped ==
    ASSUME NEW r \in RequestType, NEW answer \in Answers
    PROVE  /\ [r EXCEPT !.answer = answer] \in RequestType
           /\ [r EXCEPT !.answer = answer].hook = r.hook
           /\ [r EXCEPT !.answer = answer].scan = r.scan
           /\ [r EXCEPT !.answer = answer].arg = r.arg
           /\ [r EXCEPT !.answer = answer].answer = answer
BY Zenon DEF RequestType

LEMMA SlotTyped == NoRequest \in RequestType /\ NoRequest.hook = "none"
<1>1. Reply("none") \in Answers
  BY DEF Reply, Answers
<1> QED BY <1>1, Zenon DEF RequestType, NoRequest

-----------------------------------------------------------------------------
(* The requests under way *)

\* A request is given the least free slot.
LEMMA SlotFound ==
    ASSUME Free # {}
    PROVE  (CHOOSE j \in Free : \A k \in Free : j <= k) \in Free
<1>1. Free \subseteq Nat
  BY StaffScanAssumption DEF Free, Ids
<1>2. PICK least \in Free : \A k \in Free : ~(<<k, least>> \in OpToRel(<, Nat))
  <2> DEFINE R == OpToRel(<, Nat)
  <2>1. IsWellFoundedOn(R, Nat)
    BY NatLessThanWellFounded
  <2> HIDE DEF R
  <2>2. \E x \in Free : \A y \in Free : ~(<<y, x>> \in R)
    BY <1>1, <2>1, WFMin
  <2> QED BY <2>2 DEF R
<1>3. \A k \in Free : ~(k < least)
  BY <1>1, <1>2 DEF OpToRel
<1>4. \A k \in Free : least <= k
  BY <1>1, <1>3
<1> QED BY <1>4

\* A handler sends a request for the code scanned last: the hook observes it, and
\* whatever the handler forgets is forgotten.
LEMMA Sends ==
    ASSUME NetInv, NEW i \in Free, NEW h \in Hooks, NEW before,
           NEW arg \in Rows \union Tokens \union {None}, NEW again \in BOOLEAN,
           before \in [Hooks -> Ids \union {0}],
           \A k \in Hooks : before[k] = observed[k] \/ before[k] = 0,
           requests' = [requests EXCEPT ![i] =
                          [hook |-> h, scan |-> token', arg |-> arg,
                           again |-> again, answer |-> Reply("none")]],
           observed' = [before EXCEPT ![h] = i],
           busy', token' \in Tokens, busy => token' = token,
           h \in {"redeemVoucher", "redeemById", "confirmGroup"}
             => arg \in Vouchers \union Groups
    PROVE  NetInv'
<1> DEFINE r == [hook |-> h, scan |-> token', arg |-> arg,
                 again |-> again, answer |-> Reply("none")]
<1>1. i \in Ids /\ i # 0 /\ requests[i].hook = "none"
  BY SlotTyped, StaffScanAssumption DEF Free, Ids
<1>2. r \in RequestType
  BY RequestTyped
<1>3. r.hook = h /\ r.scan = token' /\ r.arg = arg /\ r.answer.kind = "none"
  BY DEF Reply
<1>4. RequestFits(r)
  BY <1>3 DEF RequestFits, Hooks
<1> HIDE DEF r
<1>5. \A j \in Ids : requests'[j] = IF j = i THEN r ELSE requests[j]
  BY <1>1 DEF NetInv, r
<1>6. requests' \in [Ids -> RequestType]
  BY <1>1, <1>2 DEF NetInv, r
<1>7. observed' \in [Hooks -> Ids \union {0}]
  BY <1>1
<1>8. \A j \in Ids : RequestFits(requests'[j])
  BY <1>4, <1>5 DEF NetInv
<1>9. ASSUME NEW k \in Hooks, observed'[k] # 0
      PROVE  busy' /\ requests'[observed'[k]].hook = k /\ requests'[observed'[k]].scan = token'
  <2>1. CASE k = h
    BY <2>1, <1>1, <1>3, <1>5
  <2>2. CASE k # h
    <3>1. observed'[k] = observed[k] /\ observed[k] # 0
      BY <2>2, <1>9
    <3>2. observed[k] \in Ids /\ busy /\ requests[observed[k]].hook = k
          /\ requests[observed[k]].scan = token
      BY <3>1 DEF NetInv
    <3>3. observed[k] # i
      BY <3>2, <1>1 DEF Hooks
    <3> QED BY <3>1, <3>2, <3>3, <1>5
  <2> QED BY <2>1, <2>2
<1> QED BY <1>6, <1>7, <1>8, <1>9 DEF NetInv

\* Nothing is sent and nothing forgotten.
LEMMA Stays ==
    ASSUME NetInv, UNCHANGED <<requests, observed, busy, token>>
    PROVE  NetInv'
BY DEF NetInv

\* The page forgets every request and is ready for another code.
LEMMA Forgets ==
    ASSUME NetInv, UNCHANGED requests, observed' = Forget(Hooks)
    PROVE  NetInv'
<1>1. \A h \in Hooks : observed'[h] = 0
  BY DEF Forget
<1>2. observed' \in [Hooks -> Ids \union {0}]
  BY DEF Forget
<1> QED BY <1>1, <1>2 DEF NetInv

\* A request is given an answer that fits its code.
LEMMA Answered ==
    ASSUME NetInv, NEW i \in Ids, NEW answer \in Answers,
           requests[i].hook # "none",
           requests[i].hook = "resolveScan" =>
             /\ answer.kind = "customer" => requests[i].scan \in Customers
             /\ answer.kind = "voucher" => requests[i].scan \in Vouchers
             /\ answer.kind = "group" => requests[i].scan \in Groups,
           requests' = [requests EXCEPT ![i].answer = answer],
           UNCHANGED <<observed, busy, token>>
    PROVE  NetInv'
<1> DEFINE r == [requests[i] EXCEPT !.answer = answer]
<1>1. /\ r \in RequestType /\ r.hook = requests[i].hook /\ r.scan = requests[i].scan
      /\ r.arg = requests[i].arg /\ r.answer = answer
  BY AnswerTyped DEF NetInv
<1>2. RequestFits(r)
  BY <1>1 DEF RequestFits, NetInv
<1>3. \A j \in Ids : requests'[j] = IF j = i THEN r ELSE requests[j]
  BY DEF NetInv
<1>4. requests' \in [Ids -> RequestType]
  BY <1>1 DEF NetInv
<1> HIDE DEF r
<1>5. \A j \in Ids : RequestFits(requests'[j])
  BY <1>2, <1>3 DEF NetInv
<1>6. \A j \in Ids : requests'[j].hook = requests[j].hook /\ requests'[j].scan = requests[j].scan
  BY <1>1, <1>3
<1> QED BY <1>4, <1>5, <1>6 DEF NetInv

\* A request is over, and the hook that observed it, if one did, observes nothing.
LEMMA Delivered ==
    ASSUME NetInv, NEW i \in Ids,
           requests' = [requests EXCEPT ![i] = NoRequest],
           observed' \in [Hooks -> Ids \union {0}],
           \A h \in Hooks : (observed'[h] = observed[h] /\ observed[h] # i) \/ observed'[h] = 0,
           UNCHANGED token,
           busy' = busy \/ \A h \in Hooks : observed'[h] = 0
    PROVE  NetInv'
<1>1. \A j \in Ids : requests'[j] = IF j = i THEN NoRequest ELSE requests[j]
  BY DEF NetInv
<1>2. requests' \in [Ids -> RequestType]
  BY SlotTyped DEF NetInv
<1>3. \A j \in Ids : RequestFits(requests'[j])
  <2>1. RequestFits(NoRequest)
    BY SlotTyped DEF RequestFits
  <2> QED BY <2>1, <1>1 DEF NetInv
<1> QED BY <1>1, <1>2, <1>3 DEF NetInv

\* A mutation sends a request for the code scanned last.
LEMMA Mutates ==
    ASSUME NetInv, NEW h \in Hooks, NEW scan,
           NEW arg \in Rows \union Tokens \union {None}, NEW again \in BOOLEAN,
           Mutate(h, scan, arg, again),
           scan = token', busy', scan \in Tokens, busy => token' = token,
           h \in {"redeemVoucher", "redeemById", "confirmGroup"}
             => arg \in Vouchers \union Groups
    PROVE  NetInv'
<1>1. PICK i \in Free :
        /\ requests' = [requests EXCEPT ![i] =
                          [hook |-> h, scan |-> token', arg |-> arg,
                           again |-> again, answer |-> Reply("none")]]
        /\ observed' = [observed EXCEPT ![h] = i]
  BY SlotFound DEF Mutate
<1>2. observed \in [Hooks -> Ids \union {0}]
  BY DEF NetInv
<1> QED BY <1>1, <1>2, Sends

-----------------------------------------------------------------------------
(* The page *)

LEMMA NoSheetTyped ==
    /\ NoSheet \in SheetType /\ SheetFits(NoSheet)
    /\ NoSheet.kind = "none"
BY DEF NoSheet, Sheet, SheetType, SheetFits, OverlayKinds

\* A sheet about the code scanned last is opened while its scan is handled.
LEMMA Opens ==
    ASSUME PageInv, NEW sheet \in SheetType, SheetFits(sheet), OpenSheet(sheet),
           busy, sheet.who = token,
           pending' \in Rows \union {None}, UNCHANGED <<bill, token, busy, camera>>
    PROVE  PageInv'
<1>1. overlay' = sheet /\ picking' = FALSE
  BY DEF OpenSheet
<1>2. legs' \subseteq Legs
  BY StaffScanAssumption DEF OpenSheet
<1> QED BY <1>1, <1>2 DEF PageInv

\* The page is cleared and the scanner reads again.
LEMMA Closes ==
    ASSUME PageInv, OpenSheet(NoSheet), pending' = None, bill' = None, busy' = FALSE,
           Remount, UNCHANGED token
    PROVE  PageInv'
<1>1. overlay' = NoSheet /\ picking' = FALSE /\ legs' = {}
  BY NoSheetTyped DEF OpenSheet
<1>2. camera' \in {"off", "live"}
  BY DEF Remount
<1> QED BY <1>1, <1>2, NoSheetTyped DEF PageInv

\* The sheet, the code and the scan stay; the controls of the sheet may move.
LEMMA Keeps ==
    ASSUME PageInv, UNCHANGED <<overlay, token, busy>>,
           picking' \in BOOLEAN, legs' \subseteq Legs, pending' \in Rows \union {None},
           \/ bill' \in {bill, None}
           \/ bill' \in Customers /\ busy /\ bill' = token,
           camera' = camera \/ (camera' = "read" /\ busy) \/ camera' \in {"off", "live"}
    PROVE  PageInv'
BY DEF PageInv

-----------------------------------------------------------------------------
(* The handlers of the sheets *)

LEMMA Dismisses == ScanInv /\ dismiss => ScanInv'
BY Closes, Forgets DEF dismiss, ScanInv

\* Going on to the chooser asks again for the code of the sheet that is open.
LEMMA Continues == ScanInv /\ overlay # NoSheet /\ continueToChooser => ScanInv'
<1> SUFFICES ASSUME ScanInv, overlay # NoSheet, continueToChooser PROVE ScanInv'
  OBVIOUS
<1> DEFINE before == Forget({"confirmVisit", "awardBatch", "confirmSocial", "redeemById"})
<1>1. PICK i \in Free :
        /\ requests' = [requests EXCEPT ![i] =
                          [hook |-> "resolveScan", scan |-> token', arg |-> None,
                           again |-> TRUE, answer |-> Reply("none")]]
        /\ observed' = [before EXCEPT !["resolveScan"] = i]
  BY SlotFound DEF continueToChooser
<1>2. before \in [Hooks -> Ids \union {0}]
      /\ \A k \in Hooks : before[k] = observed[k] \/ before[k] = 0
  BY DEF Forget, ScanInv, NetInv
<1>3. busy /\ token \in Tokens
  BY DEF ScanInv, PageInv
<1>4. UNCHANGED <<overlay, picking, legs, bill, token, busy, camera, spent>> /\ pending' = None
  BY DEF continueToChooser
<1> HIDE DEF before
<1>5. NetInv'
  BY <1>1, <1>2, <1>3, <1>4, Sends DEF ScanInv, Hooks
<1>6. PageInv'
  BY <1>4, Keeps DEF ScanInv, PageInv
<1> QED BY <1>4, <1>5, <1>6 DEF ScanInv

\* What each call of a sheet leaves to show: the sheet stays, one request is sent.
LEMMA Confirms ==
    ASSUME ScanInv, overlay # NoSheet,
           NEW h \in Hooks, NEW arg \in Rows \union Tokens \union {None},
           Mutate(h, token, arg, FALSE),
           h \in {"redeemVoucher", "redeemById", "confirmGroup"}
             => arg \in Vouchers \union Groups,
           UNCHANGED <<overlay, legs, token, busy, camera, spent>>,
           picking' = picking \/ picking' = FALSE, pending' \in Rows \union {None},
           bill' = bill \/ (bill' \in Customers /\ bill' = token)
    PROVE  ScanInv'
<1>1. busy /\ token \in Tokens
  BY DEF ScanInv, PageInv
<1>2. NetInv'
  BY <1>1, Mutates DEF ScanInv
<1>3. PageInv'
  BY <1>1, Keeps DEF ScanInv, PageInv
<1> QED BY <1>2, <1>3 DEF ScanInv

\* A control that calls nothing leaves the requests alone.
LEMMA Fiddles ==
    ASSUME ScanInv, UNCHANGED <<overlay, token, busy, pending, network, spent>>,
           picking' = picking \/ picking' = FALSE \/ picking' = TRUE,
           legs' \subseteq Legs, bill' = bill \/ bill' = None,
           camera' = camera \/ (camera' = "read" /\ busy) \/ camera' \in {"off", "live"}
    PROVE  ScanInv'
<1>1. PageInv'
  BY Keeps DEF ScanInv, PageInv
<1>2. NetInv'
  BY Stays DEF ScanInv, network
<1> QED BY <1>1, <1>2 DEF ScanInv

-----------------------------------------------------------------------------
(* The sheets *)

\* A row is confirmed, or opens the keypad; either is about the customer shown.
LEMMA Tile ==
    ASSUME ScanInv, overlay.kind = "chooser", NEW row \in Rows, ProgramTile(row)
    PROVE  ScanInv'
<1>1. overlay # NoSheet
  BY NoSheetTyped
<1>2. overlay \in SheetType /\ pending \in Rows \union {None} /\ busy \in BOOLEAN
  BY DEF ScanInv, PageInv
<1>3. CASE handlePickRow(row)
  <2> DEFINE sheet == [overlay EXCEPT !.kind = "amount", !.row = row]
  <2>1. sheet \in SheetType /\ sheet.who = overlay.who /\ sheet.kind = "amount"
    BY <1>2 DEF SheetType, OverlayKinds
  <2>2. SheetFits(sheet)
    BY <2>1 DEF SheetFits, ScanInv, PageInv
  <2>3. busy /\ sheet.who = token
    BY <1>1, <2>1 DEF ScanInv, PageInv
  <2>4. OpenSheet(sheet) /\ UNCHANGED <<pending, bill, token, busy, camera, network, spent>>
    BY <1>3 DEF handlePickRow
  <2> HIDE DEF sheet
  <2>5. PageInv'
    BY <1>2, <2>1, <2>2, <2>3, <2>4, Opens DEF ScanInv
  <2>6. NetInv'
    BY <2>4, Stays DEF ScanInv, network
  <2> QED BY <2>4, <2>5, <2>6 DEF ScanInv
<1>4. CASE handleConfirmSocialRow(row)
  BY <1>1, <1>2, <1>4, Confirms DEF handleConfirmSocialRow, Hooks
<1>5. CASE handleConfirmRow(row)
  BY <1>1, <1>2, <1>5, Confirms DEF handleConfirmRow, Hooks
<1> QED BY <1>3, <1>4, <1>5 DEF ProgramTile

LEMMA ChooserKeeps == ScanInv /\ LoyaltyChooserSheet => ScanInv'
<1> SUFFICES ASSUME ScanInv, LoyaltyChooserSheet PROVE ScanInv'
  OBVIOUS
<1>1. overlay.kind = "chooser" /\ overlay # NoSheet
  BY NoSheetTyped DEF LoyaltyChooserSheet
<1>2. /\ overlay.vouchers \subseteq Vouchers
      /\ legs \subseteq Legs /\ pending \in Rows \union {None}
      /\ busy \in BOOLEAN
  BY DEF ScanInv, PageInv, SheetType
<1>3. CASE RedeemEntry
  <2>1. CASE \E v \in overlay.vouchers : handleRedeemVoucher(v)
    <3>1. PICK v \in overlay.vouchers : handleRedeemVoucher(v)
      BY <2>1
    <3>2. v \in Vouchers /\ v \in Tokens
      BY <1>2 DEF Tokens
    <3> QED BY <1>1, <1>2, <3>1, <3>2, Confirms DEF handleRedeemVoucher, Hooks
  <2>2. CASE /\ picking' = TRUE
             /\ UNCHANGED <<overlay, legs, pending, bill, token, busy, camera, network, spent>>
    BY <1>2, <2>2, Fiddles
  <2> QED BY <1>3, <2>1, <2>2 DEF RedeemEntry
<1>4. CASE CancelPicking
  BY <1>2, <1>4, Fiddles DEF CancelPicking
<1>5. CASE CollectPanel
  <2>1. CASE \E leg \in Legs : StepLeg(leg)
    BY <1>2, <2>1, Fiddles DEF StepLeg
  <2>2. CASE handleCollect
    BY <1>1, <1>2, <2>2, Confirms DEF handleCollect, page, Hooks
  <2> QED BY <1>5, <2>1, <2>2 DEF CollectPanel
<1>6. CASE \E row \in Rows : ProgramTile(row)
  BY <1>1, <1>6, Tile
<1>7. CASE ClearBill
  BY <1>2, <1>7, Fiddles DEF ClearBill
<1>8. CASE dismiss
  BY <1>8, Dismisses
<1> QED BY <1>3, <1>4, <1>5, <1>6, <1>7, <1>8 DEF LoyaltyChooserSheet

LEMMA AmountKeeps == ScanInv /\ AmountSheet => ScanInv'
<1> SUFFICES ASSUME ScanInv, AmountSheet PROVE ScanInv'
  OBVIOUS
<1>1. overlay.kind = "amount" /\ overlay # NoSheet
  BY NoSheetTyped DEF AmountSheet
<1>2. /\ overlay \in SheetType /\ SheetFits(overlay)
      /\ pending \in Rows \union {None}
      /\ busy /\ overlay.who = token
  BY <1>1 DEF ScanInv, PageInv
<1>3. overlay.row \in Rows \union {None} /\ overlay.who \in Customers
  BY <1>1, <1>2 DEF SheetType, SheetFits
<1>4. CASE handleConfirmAmount
  BY <1>1, <1>2, <1>3, <1>4, Confirms DEF handleConfirmAmount, Hooks
<1>5. CASE /\ OpenSheet([overlay EXCEPT !.kind = "chooser", !.row = None])
           /\ UNCHANGED <<pending, bill, token, busy, camera, network, spent>>
  <2> DEFINE sheet == [overlay EXCEPT !.kind = "chooser", !.row = None]
  <2>1. sheet \in SheetType /\ sheet.who = overlay.who /\ sheet.kind = "chooser"
    BY <1>2 DEF SheetType, OverlayKinds
  <2>2. SheetFits(sheet)
    BY <1>3, <2>1 DEF SheetFits
  <2> HIDE DEF sheet
  <2>3. PageInv'
    BY <1>2, <1>5, <2>1, <2>2, Opens DEF ScanInv, sheet
  <2>4. NetInv'
    BY <1>5, Stays DEF ScanInv, network
  <2> QED BY <1>5, <2>3, <2>4 DEF ScanInv
<1> QED BY <1>4, <1>5 DEF AmountSheet

LEMMA SheetsKeep == ScanInv /\ (Sheets \/ CountdownBar) => ScanInv'
<1> SUFFICES ASSUME ScanInv, Sheets \/ CountdownBar PROVE ScanInv'
  OBVIOUS
<1>1. CASE LoyaltyChooserSheet \/ AmountSheet
  BY <1>1, ChooserKeeps, AmountKeeps
<1>2. CASE dismiss
  BY <1>2, Dismisses
<1>3. CASE overlay.kind # "none" /\ continueToChooser
  BY <1>3, NoSheetTyped, Continues
<1>4. CASE overlay.kind = "group_eligible" /\ handleConfirmGroup
  <2>1. overlay # NoSheet
    BY <1>4, NoSheetTyped
  <2>2. overlay.who \in Groups /\ overlay.who \in Tokens
    BY <1>4 DEF ScanInv, PageInv, SheetFits, Tokens
  <2> QED BY <1>4, <2>1, <2>2, Confirms DEF handleConfirmGroup, page, Hooks, ScanInv, PageInv
<1>5. CASE overlay.kind = "reward_valid" /\ handleRedeem
  <2>1. overlay # NoSheet
    BY <1>5, NoSheetTyped
  <2>2. overlay.who \in Vouchers /\ overlay.who \in Tokens
    BY <1>5 DEF ScanInv, PageInv, SheetFits, Tokens
  <2> QED BY <1>5, <2>1, <2>2, Confirms DEF handleRedeem, page, Hooks, ScanInv, PageInv
<1> QED BY <1>1, <1>2, <1>3, <1>4, <1>5 DEF Sheets, CountdownBar, SingleResultSheet,
      BatchResultSheet, GroupEligibleSheet, RewardValidSheet, RedeemedSheet, InvalidSheet

-----------------------------------------------------------------------------
(* The camera, the server and the answers *)

\* A code is taken only when no scan is handled: the page then shows nothing and
\* keeps no bill.
LEMMA Scans ==
    ASSUME ScanInv, NEW tok \in Tokens, handleScan(tok),
           camera' \in {"off", "live", "read"}
    PROVE  ScanInv'
<1>1. /\ ~busy /\ busy' = TRUE /\ token' = tok
      /\ UNCHANGED <<overlay, picking, legs, pending, bill, spent>>
  BY DEF handleScan
<1>2. NetInv'
  <2>1. Mutate("resolveScan", tok, None, FALSE)
    BY DEF handleScan
  <2> QED BY <1>1, <2>1, Mutates DEF ScanInv, Hooks
<1>3. overlay = NoSheet /\ bill = None
  BY <1>1 DEF ScanInv, PageInv
<1>4. PageInv'
  BY <1>1, <1>3 DEF ScanInv, PageInv
<1> QED BY <1>1, <1>2, <1>4 DEF ScanInv

LEMMA CameraKeeps ==
    ASSUME ScanInv,
           (\E tok \in Tokens : QrScanner(tok) \/ CameraOff(tok)) \/ StopCamera
    PROVE  ScanInv'
<1>1. legs \subseteq Legs
  BY DEF ScanInv, PageInv
<1>2. CASE StopCamera
  BY <1>1, <1>2, Fiddles DEF StopCamera
<1>3. ASSUME NEW tok \in Tokens, QrScanner(tok) PROVE ScanInv'
  <2>1. CASE busy
    BY <1>1, <1>3, <2>1, Fiddles DEF QrScanner
  <2>2. CASE ~busy
    BY <1>3, <2>2, Scans DEF QrScanner
  <2> QED BY <2>1, <2>2
<1>4. ASSUME NEW tok \in Tokens, CameraOff(tok) PROVE ScanInv'
  <2>1. CASE camera' = "off" /\ handleScan(tok)
    BY <2>1, Scans
  <2>2. CASE /\ camera' = "live"
             /\ UNCHANGED <<overlay, picking, legs, pending, bill, token, busy, network, spent>>
    BY <1>1, <2>2, Fiddles
  <2> QED BY <1>4, <2>1, <2>2 DEF CameraOff
<1> QED BY <1>2, <1>3, <1>4

\* What a code resolves to fits the code.
LEMMA ResolvedFits ==
    ASSUME NEW tok \in Tokens, NEW answer \in resolveScan(tok)
    PROVE  /\ answer \in Answers
           /\ answer.kind = "customer" => tok \in Customers
           /\ answer.kind = "voucher" => tok \in Vouchers
           /\ answer.kind = "group" => tok \in Groups
<1>1. CASE tok \in Customers
  BY <1>1 DEF resolveScan, Answers
<1>2. CASE tok \notin Customers
  BY <1>2 DEF resolveScan, Answers, Reply, Tokens
<1> QED BY <1>1, <1>2

LEMMA ServerKeeps ==
    ASSUME ScanInv, NEW i \in Ids, Serve(i) \/ Lose(i)
    PROVE  ScanInv'
<1>1. RequestFits(requests[i])
  BY DEF ScanInv, NetInv
<1>2. PageInv'
  <2>1. UNCHANGED page
    BY DEF Serve, Lose
  <2> QED BY <2>1 DEF ScanInv, PageInv, page
<1>3. CASE Serve(i)
  <2> DEFINE settles == requests[i].hook \in {"redeemVoucher", "redeemById", "confirmGroup"}
  <2>1. PICK answer \in IF requests[i].hook = "resolveScan" THEN resolveScan(requests[i].scan)
                        ELSE {Reply(IF settles /\ requests[i].arg \in spent
                                    THEN "error" ELSE "done")} :
          requests' = [requests EXCEPT ![i].answer = answer]
    BY <1>3 DEF Serve
  <2>2. /\ answer \in Answers
        /\ requests[i].hook = "resolveScan" =>
             /\ answer.kind = "customer" => requests[i].scan \in Customers
             /\ answer.kind = "voucher" => requests[i].scan \in Vouchers
             /\ answer.kind = "group" => requests[i].scan \in Groups
    BY <1>1, <2>1, ResolvedFits DEF RequestFits, Reply, Answers
  <2>3. NetInv'
    BY <1>3, <2>1, <2>2, Answered DEF Serve, ScanInv, page
  <2>4. spent' \subseteq Vouchers \union Groups
    BY <1>1, <1>3 DEF Serve, RequestFits, ScanInv
  <2> QED BY <1>2, <2>3, <2>4 DEF ScanInv
<1>4. CASE Lose(i)
  <2>1. Reply("error") \in Answers /\ Reply("error").kind = "error"
    BY DEF Reply, Answers
  <2>2. NetInv'
    BY <1>4, <2>1, Answered DEF Lose, ScanInv, page
  <2> QED BY <1>2, <1>4, <2>2 DEF ScanInv, Lose
<1> QED BY <1>3, <1>4

LEMMA SheetTyped ==
    ASSUME NEW kind \in OverlayKinds, NEW who \in Tokens \union {None}
    PROVE  /\ Sheet(kind, who) \in SheetType
           /\ Sheet(kind, who).kind = kind /\ Sheet(kind, who).who = who
BY DEF Sheet, SheetType

\* The sheet of a first scan is about the code, and of the kind the code needs.
LEMMA FirstSheetFits ==
    ASSUME NEW r \in RequestType, RequestFits(r), r.hook = "resolveScan"
    PROVE  /\ FirstSheet(r.answer, r.scan) \in SheetType
           /\ SheetFits(FirstSheet(r.answer, r.scan))
           /\ FirstSheet(r.answer, r.scan).who = r.scan
<1>1. r.answer \in Answers /\ r.scan \in Tokens
  BY Zenon DEF RequestType, RequestFits
<1>2. CASE r.answer.kind = "customer"
  <2> DEFINE sheet == [Sheet("chooser", r.scan) EXCEPT
                         !.rows = r.answer.rows, !.vouchers = r.answer.vouchers]
  <2>1. FirstSheet(r.answer, r.scan) = sheet
    BY <1>2 DEF FirstSheet
  <2>2. r.answer.rows \in SUBSET Rows /\ r.answer.vouchers \in SUBSET Vouchers
    BY <1>1 DEF Answers
  <2>3. Sheet("chooser", r.scan) \in SheetType
        /\ Sheet("chooser", r.scan).kind = "chooser" /\ Sheet("chooser", r.scan).who = r.scan
    BY <1>1, SheetTyped DEF OverlayKinds
  <2>4. sheet \in SheetType /\ sheet.kind = "chooser" /\ sheet.who = r.scan
    BY <2>2, <2>3 DEF SheetType
  <2>5. r.scan \in Customers
    BY <1>2 DEF RequestFits
  <2> QED BY <2>1, <2>4, <2>5 DEF SheetFits
<1>3. CASE r.answer.kind # "customer"
  <2> DEFINE kind == CASE r.answer.kind = "voucher" -> "reward_valid"
                       [] r.answer.kind = "group" -> "group_eligible"
                       [] OTHER -> "invalid"
  <2>1. FirstSheet(r.answer, r.scan) = Sheet(kind, r.scan)
    BY <1>3 DEF FirstSheet
  <2>2. kind \in OverlayKinds
        /\ kind \notin {"chooser", "amount"}
        /\ (kind = "reward_valid" => r.answer.kind = "voucher")
        /\ (kind = "group_eligible" => r.answer.kind = "group")
    BY DEF OverlayKinds
  <2> HIDE DEF kind
  <2>3. Sheet(kind, r.scan) \in SheetType
        /\ Sheet(kind, r.scan).kind = kind /\ Sheet(kind, r.scan).who = r.scan
    BY <1>1, <2>2, SheetTyped
  <2> QED BY <2>1, <2>2, <2>3 DEF SheetFits, RequestFits
<1> QED BY <1>2, <1>3

\* An answer that is still awaited is about the code on the screen.
LEMMA DeliverKeeps ==
    ASSUME ScanInv, NEW i \in Ids, Deliver(i)
    PROVE  ScanInv'
<1> DEFINE r == requests[i]
<1>1. /\ r \in RequestType /\ RequestFits(r) /\ r.hook \in Hooks
      /\ observed \in [Hooks -> Ids \union {0}]
  <2>1. r \in RequestType /\ RequestFits(r)
    BY DEF ScanInv, NetInv
  <2>2. r.answer.kind # "none"
    BY DEF Deliver
  <2>3. r.hook # "none"
    BY <2>1, <2>2 DEF RequestFits, NoRequest, Reply
  <2>4. r.hook \in Hooks \union {"none"}
    BY <2>1, Zenon DEF RequestType
  <2> QED BY <2>1, <2>3, <2>4 DEF ScanInv, NetInv
<1>2. requests' = [requests EXCEPT ![i] = NoRequest]
  BY DEF Deliver
<1>3. i # 0 /\ \A h \in Hooks : observed[h] = i => h = r.hook
  BY DEF ScanInv, NetInv, Ids
<1>4. CASE observed[r.hook] # i
  <2>1. UNCHANGED <<page, observed, spent>>
    BY <1>4 DEF Deliver
  <2>2. NetInv'
    BY <1>1, <1>2, <1>3, <1>4, <2>1, Delivered DEF ScanInv, page
  <2>3. PageInv'
    BY <2>1 DEF ScanInv, PageInv, page
  <2> QED BY <2>1, <2>2, <2>3 DEF ScanInv
<1>5. CASE observed[r.hook] = i
  <2>1. busy /\ r.scan = token /\ r.scan \in Tokens
    BY <1>1, <1>3, <1>5 DEF ScanInv, NetInv, PageInv
  <2>2. ASSUME Idle(r.hook), UNCHANGED <<busy, token>> PROVE NetInv'
    <3>1. observed' = [observed EXCEPT ![r.hook] = 0]
      BY <2>2 DEF Idle
    <3>2. observed' \in [Hooks -> Ids \union {0}]
      BY <3>1, <1>1
    <3>3. \A h \in Hooks : (observed'[h] = observed[h] /\ observed[h] # i) \/ observed'[h] = 0
      BY <3>1, <1>1, <1>3
    <3> HIDE DEF r
    <3> QED BY <1>2, <2>2, <3>2, <3>3, Delivered DEF ScanInv
  <2>3. ASSUME NEW sheet \in SheetType, SheetFits(sheet), sheet.who = r.scan,
               Show(sheet, r.hook)
        PROVE  ScanInv'
    <3>1. NetInv'
      BY <2>2, <2>3 DEF Show
    <3>2. PageInv'
      BY <2>1, <2>3, Opens DEF Show, ScanInv, PageInv
    <3> QED BY <2>3, <3>1, <3>2 DEF Show, ScanInv
  <2>4. CASE r.hook = "resolveScan" /\ OnResolved(r)
    <3>1. CASE Show(Sheet("error", r.scan), "resolveScan")
      <4> DEFINE sheet == Sheet("error", r.scan)
      <4>1. sheet \in SheetType /\ sheet.kind = "error" /\ sheet.who = r.scan
        BY <2>1, SheetTyped DEF OverlayKinds
      <4>2. SheetFits(sheet)
        BY <4>1 DEF SheetFits
      <4> QED BY <2>3, <2>4, <3>1, <4>1, <4>2
    <3>2. CASE Show(FirstSheet(r.answer, r.scan), "resolveScan")
      BY <1>1, <2>3, <2>4, <3>2, FirstSheetFits
    <3>3. CASE /\ OpenSheet(NoSheet)
               /\ pending' = None /\ bill' = None /\ busy' = FALSE
               /\ Remount /\ observed' = Forget(Hooks)
               /\ UNCHANGED <<token, spent>>
      <4>1. observed' \in [Hooks -> Ids \union {0}] /\ \A h \in Hooks : observed'[h] = 0
        BY <3>3 DEF Forget
      <4>2. NetInv'
        BY <1>2, <3>3, <4>1, Delivered DEF ScanInv
      <4>3. PageInv'
        BY <3>3, Closes DEF ScanInv
      <4> QED BY <3>3, <4>2, <4>3 DEF ScanInv
    <3> QED BY <2>4, <3>1, <3>2, <3>3 DEF OnResolved
  <2>5. CASE r.hook \in {"confirmVisit", "confirmSocial"} /\ showSingleResult(r)
    <3> DEFINE kind == IF r.answer.kind = "error" THEN "error" ELSE "single_result"
    <3>1. /\ kind \in OverlayKinds
          /\ kind \notin {"chooser", "amount", "reward_valid", "group_eligible"}
      BY DEF OverlayKinds
    <3>2. OpenSheet(Sheet(kind, r.scan)) /\ pending' = None /\ Idle(r.hook)
          /\ UNCHANGED <<bill, token, busy, camera, spent>>
      BY <2>5 DEF showSingleResult
    <3> HIDE DEF kind
    <3>3. Sheet(kind, r.scan) \in SheetType /\ SheetFits(Sheet(kind, r.scan))
          /\ Sheet(kind, r.scan).who = r.scan
      BY <2>1, <3>1, SheetTyped DEF SheetFits
    <3>4. NetInv'
      BY <2>2, <3>2
    <3>5. PageInv'
      BY <2>1, <3>2, <3>3, Opens DEF ScanInv
    <3> QED BY <3>2, <3>4, <3>5 DEF ScanInv
  <2>6. CASE OnSettled(r)
    <3> DEFINE kind == CASE r.answer.kind = "error" -> "error"
                         [] r.hook = "awardBatch" -> "batch_result"
                         [] r.hook = "confirmGroup" -> "group_done"
                         [] OTHER -> "reward_redeemed"
    <3>1. /\ kind \in OverlayKinds
          /\ kind \notin {"chooser", "amount", "reward_valid", "group_eligible"}
      BY DEF OverlayKinds
    <3>2. Show(Sheet(kind, r.scan), r.hook)
      BY <2>6 DEF OnSettled
    <3> HIDE DEF kind
    <3>3. Sheet(kind, r.scan) \in SheetType /\ SheetFits(Sheet(kind, r.scan))
          /\ Sheet(kind, r.scan).who = r.scan
      BY <2>1, <3>1, SheetTyped DEF SheetFits
    <3> QED BY <2>3, <3>2, <3>3
  <2> QED BY <1>5, <2>4, <2>5, <2>6 DEF Deliver
<1> QED BY <1>4, <1>5

-----------------------------------------------------------------------------
(* The theorems *)

LEMMA ScanStarts == Init => ScanInv
<1> SUFFICES ASSUME Init PROVE ScanInv
  OBVIOUS
<1>1. PageInv
  BY NoSheetTyped DEF Init, PageInv
<1>2. NetInv
  BY SlotTyped DEF Init, NetInv, RequestFits, Hooks
<1> QED BY <1>1, <1>2 DEF ScanInv, Init

LEMMA ScanStep == ScanInv /\ [Next]_vars => ScanInv'
<1> SUFFICES ASSUME ScanInv, [Next]_vars PROVE ScanInv'
  OBVIOUS
<1>1. CASE \E tok \in Tokens : QrScanner(tok) \/ CameraOff(tok)
  BY <1>1, CameraKeeps
<1>2. CASE StopCamera
  BY <1>2, CameraKeeps
<1>3. CASE Sheets \/ CountdownBar
  BY <1>3, SheetsKeep
<1>4. CASE \E i \in Ids : Serve(i) \/ Lose(i)
  BY <1>4, ServerKeeps
<1>5. CASE \E i \in Ids : Deliver(i)
  BY <1>5, DeliverKeeps
<1>6. CASE UNCHANGED vars
  <2>1. PageInv'
    BY <1>6 DEF ScanInv, PageInv, vars, page
  <2>2. NetInv'
    BY <1>6, Stays DEF ScanInv, vars, page, network
  <2> QED BY <1>6, <2>1, <2>2 DEF ScanInv, vars
<1> QED BY <1>1, <1>2, <1>3, <1>4, <1>5, <1>6 DEF Next

\* In whatever order the cashier taps, answers arrive and requests are lost, what
\* the till shows is about the code scanned last: an award sent for that code goes
\* to the customer on the screen (the page clears its hooks when a sheet closes, so
\* no answer of an earlier customer can open a sheet).
THEOREM AwardsGoToWhomIsShown == Spec => []ShownIsScanned
<1>1. Init => ScanInv
  BY ScanStarts
<1>2. ScanInv /\ [Next]_vars => ScanInv'
  BY ScanStep
<1>3. ScanInv => ShownIsScanned
  BY InvImplies
<1> QED BY <1>1, <1>2, <1>3, PTL DEF Spec

\* A camera that stopped after a reading belongs to a scan being handled: every way
\* out of a scan starts it again.
THEOREM CameraNeverLeftDead == Spec => []StoppedCameraHasScan
<1>1. Init => ScanInv
  BY ScanStarts
<1>2. ScanInv /\ [Next]_vars => ScanInv'
  BY ScanStep
<1>3. ScanInv => StoppedCameraHasScan
  BY InvImplies
<1> QED BY <1>1, <1>2, <1>3, PTL DEF Spec

=============================================================================
