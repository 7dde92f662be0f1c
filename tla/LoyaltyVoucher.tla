---------------------------- MODULE LoyaltyVoucher ----------------------------
(***************************************************************************)
(* The vouchers of ONE loyalty program, and the item they stand for:       *)
(* apps/loyalty/services/redemption.py and the customer's wallet.          *)
(*                                                                         *)
(* Redeeming re-reads the voucher under its row lock.  Choosing an item    *)
(* loads the voucher without a lock and saves its item column later.  The  *)
(* program's item_selection is read when it is used, not when the voucher  *)
(* was minted, and the owner may change it, or remove the item itself.     *)
(***************************************************************************)
EXTENDS Naturals

CONSTANTS
    Voucher,       \* rows that may ever be minted (BOUND)
    Item,          \* catalog items of the business
    Txn,           \* handlers of "choose an item"
    Null

ASSUME NullIsNoItem == Null \notin Item \cup Voucher

VARIABLES
    voucher,      \* LoyaltyVoucher rows: [status, item]
    selection,    \* program.item_selection
    catalog,      \* items that still exist
    overdue,      \* vouchers past expires_at
    choosing,     \* of each handler: the voucher that passed its checks, the item
    handed        \* history: times the reward of a voucher was handed over

vars == <<voucher, selection, catalog, overdue, choosing, handed>>

Unminted == [status |-> "none", item |-> Null]
Row == [status : {"active", "redeemed", "expired"}, item : Item \cup {Null}]

TypeOK ==
    /\ voucher \in [Voucher -> Row \cup {Unminted}]
    /\ selection \in {"customer", "fixed"}
    /\ catalog \subseteq Item
    /\ overdue \subseteq Voucher
    /\ choosing \in [Txn -> [voucher : Voucher, item : Item] \cup {Null}]
    /\ handed \in [Voucher -> Nat]

Init ==
    /\ voucher = [v \in Voucher |-> Unminted]
    /\ selection \in {"customer", "fixed"}
    /\ catalog = Item
    /\ overdue = {}
    /\ choosing = [t \in Txn |-> Null]
    /\ handed = [v \in Voucher |-> 0]

Having(status) == {v \in Voucher : voucher[v].status = status}
Minted == Voucher \ Having("none")

-----------------------------------------------------------------------------

\* mint_voucher gives the program's own item where the selection is "fixed";
\* a cashback voucher of redeem_points has none.
Mint(v) ==
    /\ v \in Having("none")
    /\ \E i \in IF selection = "fixed" THEN catalog \cup {Null} ELSE {Null} :
         voucher' = [voucher EXCEPT ![v] = [status |-> "active", item |-> i]]
    /\ UNCHANGED <<selection, catalog, overdue, choosing, handed>>

\* select_voucher_item: neither the voucher's status nor expires_at is looked at.
ChooseRead(t, v, i) ==
    /\ choosing[t] = Null
    /\ v \in Minted
    /\ selection = "customer"
    /\ voucher[v].item = Null
    /\ i \in catalog
    /\ choosing' = [choosing EXCEPT ![t] = [voucher |-> v, item |-> i]]
    /\ UNCHANGED <<voucher, selection, catalog, overdue, handed>>

\* Mutant: the item column is no foreign key.
ChooseSave_NoKey(t) ==
    LET v == choosing[t].voucher IN
    /\ choosing[t] # Null
    /\ voucher' = [voucher EXCEPT ![v].item = choosing[t].item]
    /\ choosing' = [choosing EXCEPT ![t] = Null]
    /\ UNCHANGED <<selection, catalog, overdue, handed>>

\* The save of what ChooseRead decided: the item column alone.
ChooseSave(t) ==
    LET v == choosing[t].voucher IN
    /\ choosing[t] # Null /\ choosing[t].item \in catalog
    /\ voucher' = [voucher EXCEPT ![v].item = choosing[t].item]
    /\ choosing' = [choosing EXCEPT ![t] = Null]
    /\ UNCHANGED <<selection, catalog, overdue, handed>>

\* The item is gone (the foreign key refuses it), or the request dies.
ChooseFail(t) ==
    /\ choosing[t] # Null
    /\ choosing' = [choosing EXCEPT ![t] = Null]
    /\ UNCHANGED <<voucher, selection, catalog, overdue, handed>>

\* The owner removes a catalog item: SET_NULL on every voucher that names it.
RemoveItem(i) ==
    /\ i \in catalog
    /\ catalog' = catalog \ {i}
    /\ voucher' = [v \in Voucher |-> IF voucher[v].item = i THEN [voucher[v] EXCEPT !.item = Null]
                                                          ELSE voucher[v]]
    /\ UNCHANGED <<selection, overdue, choosing, handed>>

\* Mutant: the status is not checked under the lock.
Redeem_NoStatus(v) ==
    /\ v \in Minted \ overdue
    /\ selection = "customer" => voucher[v].item # Null
    /\ voucher' = [voucher EXCEPT ![v].status = "redeemed"]
    /\ handed' = [handed EXCEPT ![v] = IF @ < 2 THEN @ + 1 ELSE @]
    /\ UNCHANGED <<selection, catalog, overdue, choosing>>

\* redeem_voucher.  The EXPIRED given to an overdue voucher is rolled back with
\* the refusal, so only the success changes anything.
Redeem(v) ==
    /\ v \in Having("active") \ overdue
    /\ selection = "customer" => voucher[v].item # Null
    /\ voucher' = [voucher EXCEPT ![v].status = "redeemed"]
    /\ handed' = [handed EXCEPT ![v] = @ + 1]
    /\ UNCHANGED <<selection, catalog, overdue, choosing>>

\* CustomerVouchersView.get: one UPDATE of the customer's overdue vouchers.
WalletView ==
    LET late == Having("active") \cap overdue IN
    /\ late # {}
    /\ voucher' = [v \in Voucher |-> IF v \in late THEN [voucher[v] EXCEPT !.status = "expired"]
                                                   ELSE voucher[v]]
    /\ UNCHANGED <<selection, catalog, overdue, choosing, handed>>

BecomeOverdue(v) ==
    /\ v \in Minted \ overdue
    /\ overdue' = overdue \cup {v}
    /\ UNCHANGED <<voucher, selection, catalog, choosing, handed>>

\* The owner's PATCH of the program.
SetSelection(s) ==
    /\ selection' = s
    /\ UNCHANGED <<voucher, catalog, overdue, choosing, handed>>

Next ==
    \/ \E v \in Voucher : Mint(v) \/ Redeem(v) \/ BecomeOverdue(v)
    \/ \E t \in Txn : \/ \E v \in Voucher, i \in Item : ChooseRead(t, v, i)
                      \/ ChooseSave(t) \/ ChooseFail(t)
    \/ \E i \in Item : RemoveItem(i)
    \/ WalletView
    \/ \E s \in {"customer", "fixed"} : SetSelection(s)

Spec == Init /\ [][Next]_vars

-----------------------------------------------------------------------------
(* Properties. *)

\* Whatever staff, wallets and clocks do, a loyalty voucher keeps the promise of
\* VoucherPromise: redeemed at most once, never ACTIVE again once spent.
P == INSTANCE VoucherPromise WITH
        live <- Having("active"),
        spent <- Minted \ Having("active"),
        honoured <- handed
Promise == P!Spec

\* A voucher never names an item that is no longer in the catalog, though an
\* item may be removed between the load of a choice and its save.
ItemExists == \A v \in Voucher : voucher[v].item \in catalog \cup {Null}
=============================================================================
