\* Two customers at one till; their codes, rewards and one group are scanned in
\* any order while earlier confirmations are still under way.
SPECIFICATION Spec

CONSTANTS
    anna = anna
    bek = bek
    gift = gift
    cake = cake
    party = party
    None = None
    Customers <- MCCustomers
    Vouchers <- MCVouchers
    OwnerOf <- MCOwnerOf
    Groups = {party}
    Rows <- MCRows
    MechanicOf <- MCMechanicOf
    Legs = {"stamp"}
    DefaultLegs = {"stamp"}
    MaxInFlight = 2

INVARIANTS
    ShownIsScanned
    StoppedCameraHasScan

PROPERTIES
    ScanSettles
