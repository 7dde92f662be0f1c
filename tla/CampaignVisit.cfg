\* Two handlers count visits of two customers over two days, while customers
\* join, vouchers circulate and the owner pauses and ends the campaign.
\* Bounded: an ended campaign whose vouchers are spent stops.
CHECK_DEADLOCK FALSE
SPECIFICATION CampaignSpec
CONSTANTS
    t1 = t1
    t2 = t2
    v1 = v1
    v2 = v2
    c1 = c1
    c2 = c2
    None = None
    Txn = {t1, t2}
    Voucher = {v1, v2}
    Customer = {c1, c2}
    Item = {}
    Selection = "fixed"
    Terms <- AllTerms
    MaxDay = 1
    MaxVisits = 3
SYMMETRY VisitSymmetry
INVARIANT VisitsAddUp
INVARIANT RewardCap
INVARIANT VoucherPerCycle
INVARIANT DailyCap
