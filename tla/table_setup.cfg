SPECIFICATION FairSpec
CONSTANTS
    Setups = {p1, p2}
    Endpoints <- MCEndpoints
    Local <- MCLocal
    Place <- MCPlace
    Namings <- MCNamings
    Attempts = 1
    MaxStarts = 2
CHECK_DEADLOCK FALSE
INVARIANTS
    TypeOK
    OneAfterTheOther
    FreeTier
PROPERTIES
    CallsRunOut
    SetupEnds
