\* Two groups of two form from three customers; joins, leaves and two confirms
\* race for the only reward.
\* Bounded: when the requests are spent and the groups settled, nothing is left.
CHECK_DEADLOCK FALSE
SPECIFICATION Spec
CONSTANTS
    t1 = t1
    t2 = t2
    g1 = g1
    g2 = g2
    c1 = c1
    c2 = c2
    c3 = c3
    None = None
    Txn = {t1, t2}
    Group = {g1, g2}
    Customer = {c1, c2, c3}
    Size = 2
    MaxRewards = 1
    MaxParticipants = 2
    MaxRequests = 6
SYMMETRY GroupSymmetry
INVARIANT OneVoucherPerGroup
INVARIANT GroupRewardCap
INVARIANT SeatsNotOversold
INVARIANT ConfirmedAtFullSize
PROPERTY SettledForGood
