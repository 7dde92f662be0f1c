\* The campaigns tab of a customer: the overlay that celebrates a filled cup.
\* A page that was left stops.
CHECK_DEADLOCK FALSE
SPECIFICATION Spec

CONSTANTS
    first = first
    second = second
    CallIds <- MCCalls
    None = None
    TierNames <- MCTierNames
    Lower <- MCLower
    LongNames <- MCLongNames
    Number <- MCNumber
    Integer <- MCInteger
    MaxLevels = 2
    Visitors <- MCVisitors
    GalleryLimit = 2
    HeroLimit = 2
    TeamLimit = 2
    OpenPages = {"tab"}

SYMMETRY MCSymmetry

INVARIANT WinMomentFires
