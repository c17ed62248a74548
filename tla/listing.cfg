SPECIFICATION FairSpec
CONSTANTS
    Last = 4
    ALL_PAGE_SIZE = 2
    MAX_ALL_RESULTS = 3
    DefaultLimit <- MCDefaultLimit
    Limits = {0, 1}
    MaxFaults = 1
INVARIANTS
    TypeOK
    InOrder
    NothingSkipped
    WithinCap
PROPERTIES
    WalkMovesOn
    WalkEnds
