\* A customer and an owner of two accounts in one browser, with another tab.
SPECIFICATION Spec

CONSTANTS
    aida = aida
    omar = omar
    None = None
    Users <- MCUsers
    Casts <- MCCasts
    OtherTabs = TRUE
    MaxInFlight = 1

INVARIANTS
    OneAccount

PROPERTIES
    WebRequestsEnd
    RedirectsEnd
