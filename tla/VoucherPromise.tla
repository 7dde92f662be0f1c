--------------------------- MODULE VoucherPromise ---------------------------
(***************************************************************************)
(* What a reward voucher promises, whoever issues it: it is honoured at    *)
(* most once, and a voucher that was honoured, lapsed or revoked is spent  *)
(* for good.  The loyalty vouchers and the campaign vouchers each          *)
(* implement this.                                                         *)
(***************************************************************************)
EXTENDS Naturals

CONSTANT Voucher

VARIABLES
    live,       \* vouchers a customer can use
    spent,      \* vouchers that were used, lapsed or were revoked
    honoured    \* how many times the reward of a voucher was handed over

vars == <<live, spent, honoured>>

Init ==
    /\ live = {}
    /\ spent = {}
    /\ honoured = [v \in Voucher |-> 0]

Issue(S) ==
    /\ S # {} /\ S \cap (live \cup spent) = {}
    /\ live' = live \cup S
    /\ UNCHANGED <<spent, honoured>>

Honour(v) ==
    /\ v \in live
    /\ live' = live \ {v}
    /\ spent' = spent \cup {v}
    /\ honoured' = [honoured EXCEPT ![v] = @ + 1]

Lapse(S) ==
    /\ S # {} /\ S \subseteq live
    /\ live' = live \ S
    /\ spent' = spent \cup S
    /\ UNCHANGED honoured

Next ==
    \/ \E S \in SUBSET Voucher : Issue(S) \/ Lapse(S)
    \/ \E v \in Voucher : Honour(v)

Spec == Init /\ [][Next]_vars

-----------------------------------------------------------------------------

TypeOK ==
    /\ live \subseteq Voucher
    /\ spent \subseteq Voucher
    /\ honoured \in [Voucher -> Nat]

\* No reward is handed over twice for one voucher.
HonouredOnce == \A v \in Voucher : honoured[v] <= 1

\* A spent voucher never comes back to life.
SpentForGood == [][spent \subseteq spent' /\ spent' \cap live' = {}]_vars

\* What the promise rests on: only a spent voucher was honoured, once.
PromiseInv ==
    /\ TypeOK
    /\ live \cap spent = {}
    /\ \A v \in Voucher : honoured[v] <= 1 /\ (honoured[v] > 0 => v \in spent)
=============================================================================
