\* Two vouchers of a customer-choice reward, redeemed, presented, cancelled,
\* expired and warned about in any order.
\* Every voucher may end spent, and nothing is left to do.
CHECK_DEADLOCK FALSE
SPECIFICATION FairSpec
CONSTANTS
    v1 = v1
    v2 = v2
    c1 = c1
    i1 = i1
    None = None
    Voucher = {v1, v2}
    Customer = {c1}
    Item = {i1}
    Selection = "customer"
INVARIANT WarnedAtMostOnce
INVARIANT WalletReflectsReality
PROPERTY Promise
PROPERTY OverdueLeaves
