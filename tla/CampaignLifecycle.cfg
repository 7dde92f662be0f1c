\* Two requests of the owner overlap with each other and with the tasks.
\* Bounded: when the requests are spent and the clock stops, nothing is left.
CHECK_DEADLOCK FALSE
SPECIFICATION FairSpec
CONSTANTS
    h1 = h1
    h2 = h2
    Null = Null
    Handler = {h1, h2}
    Terms <- AllTerms
    MaxRequests = 4
    MaxClock = 3
    Warning = 1
INVARIANT OnlyPublishedRuns
INVARIANT RunsComplete
PROPERTY OverdueEnds
PROPERTY DueStarts
