\* A member leaves a full group of two; nobody can take the seat.
\* Bounded: when the requests are spent and the groups settled, nothing is left.
CHECK_DEADLOCK FALSE
SPECIFICATION Spec
CONSTANTS
    t1 = t1
    g1 = g1
    c1 = c1
    c2 = c2
    None = None
    Txn = {t1}
    Group = {g1}
    Customer = {c1, c2}
    Size = 2
    MaxRewards = 1
    MaxParticipants = 2
    MaxRequests = 4
SYMMETRY GroupSymmetry
INVARIANT FreedSlotCanBeFilled
