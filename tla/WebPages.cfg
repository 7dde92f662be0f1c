\* The 26 pages, one open at a time, with two calls under way.
\* A page that was left stops.
CHECK_DEADLOCK FALSE
SPECIFICATION Spec

CONSTANTS
    first = first
    second = second
    CallIds <- MCCalls
    None = None
    TierNames <- MCTierNames
    Lower <- MCLower
    LongNames <- MCLongNames
    Number <- MCNumber
    Integer <- MCInteger
    MaxLevels = 2
    Visitors <- MCVisitors
    GalleryLimit = 2
    HeroLimit = 2
    TeamLimit = 2
    OpenPages = {"loyaltyNew", "loyaltyDetail", "campaignNew", "campaignDetail", "campaignPost", "onboarding", "settings", "menu", "gallery", "team", "setup", "staffing", "overview", "contact", "nearby", "business", "heroes", "qr", "home", "tab", "offer", "group", "voucher", "wallet", "board", "profile"}

INVARIANTS
    LadderKeepsRules
    LadderCountsMembers
    CreatedOnce
    AutosaveSendsForm
    TypedStays
    LeaderSeesGroup
    EarnMomentOnce
    

SYMMETRY MCSymmetry
