\* Two vouchers are minted, given an item by two screens at once, redeemed and
\* expired, while the owner changes the program and the catalog.
SPECIFICATION Spec
CONSTANTS
    v1 = v1
    v2 = v2
    t1 = t1
    t2 = t2
    i1 = i1
    i2 = i2
    Null = Null
    Voucher = {v1, v2}
    Item = {i1, i2}
    Txn = {t1, t2}
PROPERTY Promise
INVARIANT ItemExists
