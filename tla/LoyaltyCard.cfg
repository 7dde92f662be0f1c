\* Awards of 1 and 3 items, visits, bills and cashback redemptions race on one
\* card while the owner edits the program, its type included.
SPECIFICATION FairSpec
CONSTANTS
    t1 = t1
    t2 = t2
    m1 = m1
    None = None
    NoCap = NoCap
    Uncapped = NoCap
    Txn = {t1, t2}
    Member = {m1}
    Config <- Configs
    Quantity = {1, 3}
    PointsEarned = {2}
    PointsAsked = {2}
    MaxRequests = 3
INVARIANT TypeOK
INVARIANT CardMatchesLedger
INVARIANT VoucherPerCycle
INVARIANT VouchersEarned
PROPERTY BankCapRespected
PROPERTY RequestsEnd
