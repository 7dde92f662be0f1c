------------------------ MODULE LoyaltyVoucher_proofs ------------------------
(***************************************************************************)
(* LoyaltyVoucher implements VoucherPromise, and its vouchers name only    *)
(* items that exist.  The steps that touch a status read it under the      *)
(* row's lock; the unlocked item choice writes another column, but only of *)
(* a voucher that was minted: RowInv carries that fact to its save.        *)
(***************************************************************************)
EXTENDS LoyaltyVoucher, TLAPS

RowInv ==
    /\ voucher \in [Voucher -> Row \cup {Unminted}]
    /\ \A t \in Txn : choosing[t] # Null =>
          /\ choosing[t].voucher \in Minted
          /\ choosing[t].item \in Item
    /\ choosing \in [Txn -> [voucher : Voucher, item : Item] \cup {Null}]
    /\ catalog \subseteq Item
    /\ ItemExists

\* RowInv is inductive: every handler leaves rows, and chooses for minted ones.
LEMMA RowsStay == Spec => []RowInv
<1> USE NullIsNoItem
<1>1. Init => RowInv
  BY DEF Init, RowInv, ItemExists, Unminted
<1>2. RowInv /\ [Next]_vars => RowInv'
  <2> SUFFICES ASSUME RowInv, [Next]_vars PROVE RowInv'
    OBVIOUS
  <2> USE DEF RowInv, Minted, Having, Row, Unminted, ItemExists
  <2>1. CASE \E v \in Voucher : Mint(v)
    BY <2>1 DEF Mint
  <2>2. CASE \E v \in Voucher : Redeem(v)
    BY <2>2 DEF Redeem
  <2>3. CASE \E v \in Voucher : BecomeOverdue(v)
    BY <2>3 DEF BecomeOverdue
  <2>4. CASE \E t \in Txn, v \in Voucher, i \in Item : ChooseRead(t, v, i)
    BY <2>4 DEF ChooseRead
  <2>5. CASE \E t \in Txn : ChooseSave(t)
    BY <2>5 DEF ChooseSave
  <2>6. CASE \E t \in Txn : ChooseFail(t)
    BY <2>6 DEF ChooseFail
  <2>7. CASE \E i \in Item : RemoveItem(i)
    BY <2>7 DEF RemoveItem
  <2>8. CASE WalletView
    BY <2>8 DEF WalletView
  <2>9. CASE \E s \in {"customer", "fixed"} : SetSelection(s)
    BY <2>9 DEF SetSelection
  <2>10. CASE UNCHANGED vars
    BY <2>10 DEF vars
  <2> QED BY <2>1, <2>2, <2>3, <2>4, <2>5, <2>6, <2>7, <2>8, <2>9, <2>10 DEF Next
<1> QED BY <1>1, <1>2, PTL DEF Spec

\* Whatever staff, wallets, owners and clocks do to any number of loyalty
\* vouchers, each is honoured at most once and never revives.
THEOREM LoyaltyKeepsPromise == Spec => Promise
<1> DEFINE Live == Having("active")
           Spent == Minted \ Having("active")
<1>1. Init => P!Init
  BY DEF Init, P!Init, Having, Minted, Unminted
<1>2. RowInv /\ [Next]_vars => [P!Next]_P!vars
  <2> SUFFICES ASSUME RowInv, [Next]_vars PROVE P!Next \/ UNCHANGED P!vars
    OBVIOUS
  <2>a. ASSUME Live' = Live, Spent' = Spent, handed' = handed PROVE UNCHANGED P!vars
    BY <2>a DEF P!vars
  <2> USE DEF RowInv, Row, Unminted
  <2>1. CASE \E v \in Voucher : Mint(v)
    <3>1. PICK v \in Voucher : Mint(v)
      BY <2>1
    <3>2. v \notin Live \cup Spent /\ Live' = Live \cup {v} /\ Spent' = Spent
      BY <3>1 DEF Mint, Having, Minted
    <3>3. P!Issue({v})
      BY <3>1, <3>2 DEF P!Issue, Mint
    <3> QED BY <3>3 DEF P!Next
  <2>2. CASE \E v \in Voucher : Redeem(v)
    <3>1. PICK v \in Voucher : Redeem(v)
      BY <2>2
    <3>2. v \in Live /\ Live' = Live \ {v} /\ Spent' = Spent \cup {v}
      BY <3>1 DEF Redeem, Having, Minted
    <3>3. P!Honour(v)
      BY <3>1, <3>2 DEF P!Honour, Redeem
    <3> QED BY <3>3 DEF P!Next
  <2>3. CASE WalletView
    <3> DEFINE late == Having("active") \cap overdue
    <3>1. late # {} /\ late \subseteq Live /\ Live' = Live \ late
          /\ Spent' = Spent \cup late /\ handed' = handed
      BY <2>3 DEF WalletView, Having, Minted
    <3>2. late \in SUBSET Voucher
      BY DEF Having
    <3>3. P!Lapse(late)
      BY <3>1 DEF P!Lapse
    <3> QED BY <3>2, <3>3 DEF P!Next
  <2>4. CASE \E t \in Txn : ChooseSave(t)
    <3>1. Live' = Live /\ Spent' = Spent /\ handed' = handed
      BY <2>4 DEF ChooseSave, Having, Minted
    <3> QED BY <3>1, <2>a
  <2>5. CASE \E i \in Item : RemoveItem(i)
    <3>1. Live' = Live /\ Spent' = Spent /\ handed' = handed
      BY <2>5 DEF RemoveItem, Having, Minted
    <3> QED BY <3>1, <2>a
  <2>6. CASE \/ \E v \in Voucher : BecomeOverdue(v)
             \/ \E t \in Txn, v \in Voucher, i \in Item : ChooseRead(t, v, i)
             \/ \E t \in Txn : ChooseFail(t)
             \/ \E s \in {"customer", "fixed"} : SetSelection(s)
             \/ UNCHANGED vars
    <3>1. Live' = Live /\ Spent' = Spent /\ handed' = handed
      BY <2>6 DEF BecomeOverdue, ChooseRead, ChooseFail, SetSelection, vars, Having, Minted
    <3> QED BY <3>1, <2>a
  <2> QED BY <2>1, <2>2, <2>3, <2>4, <2>5, <2>6 DEF Next
<1> QED BY <1>1, <1>2, RowsStay, PTL DEF Spec, Promise, P!Spec

\* PromiseInv is inductive for the abstract steps, whatever the vouchers are.
LEMMA PromiseInductive == P!Spec => []P!PromiseInv
<1>1. P!Init => P!PromiseInv
  BY DEF P!Init, P!PromiseInv, P!TypeOK
<1>2. P!PromiseInv /\ [P!Next]_P!vars => P!PromiseInv'
  <2> SUFFICES ASSUME P!PromiseInv, [P!Next]_P!vars PROVE P!PromiseInv'
    OBVIOUS
  <2>1. CASE \E S \in SUBSET Voucher : P!Issue(S)
    BY <2>1 DEF P!Issue, P!PromiseInv, P!TypeOK
  <2>2. CASE \E S \in SUBSET Voucher : P!Lapse(S)
    BY <2>2 DEF P!Lapse, P!PromiseInv, P!TypeOK
  <2>3. CASE \E v \in Voucher : P!Honour(v)
    BY <2>3 DEF P!Honour, P!PromiseInv, P!TypeOK
  <2>4. CASE UNCHANGED P!vars
    BY <2>4 DEF P!vars, P!PromiseInv, P!TypeOK
  <2> QED BY <2>1, <2>2, <2>3, <2>4 DEF P!Next
<1> QED BY <1>1, <1>2, PTL DEF P!Spec

\* The reward of a loyalty voucher is handed over at most once, whatever the
\* number of vouchers and the order of the steps.
THEOREM HonouredAtMostOnce == Spec => []P!HonouredOnce
<1>1. P!PromiseInv => P!HonouredOnce
  BY DEF P!PromiseInv, P!HonouredOnce
<1> QED BY <1>1, LoyaltyKeepsPromise, PromiseInductive, PTL DEF Promise

\* No step brings a spent loyalty voucher back to life.
THEOREM SpentStaysSpent == Spec => P!SpentForGood
<1> DEFINE Spent == Minted \ Having("active")
           Kept == Spent \subseteq Spent' /\ Spent' \cap Having("active")' = {}
<1>1. P!PromiseInv /\ [P!Next]_P!vars => [Kept]_P!vars
  <2> SUFFICES ASSUME P!PromiseInv, P!Next PROVE Kept
    OBVIOUS
  <2> QED BY DEF P!Next, P!Issue, P!Honour, P!Lapse, P!PromiseInv
<1> QED BY <1>1, LoyaltyKeepsPromise, PromiseInductive, PTL DEF Promise, P!Spec, P!SpentForGood

\* No voucher ever names a removed item: a choice that was loaded before the
\* removal is refused when it is saved.
THEOREM ItemsExist == Spec => []ItemExists
<1>1. RowInv => ItemExists
  BY DEF RowInv
<1> QED BY <1>1, RowsStay, PTL
=============================================================================
