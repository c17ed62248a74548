SPECIFICATION ReaderSpec
CONSTANTS
    Sims = {s1}
    Users = {u1}
    NoUser = NoUser
    NoSim = NoSim
    Rows = {m1, m2}
    Requests = {r1}
    Workers = {w1, w2}
    VisibilityCoversRun = TRUE
    FaultKinds <- AllFaults
    MaxFaults = 1
SYMMETRY Symmetry
INVARIANTS
    CompletedHasRows
    NoOrphanRows
    CompletedAnswersAreWhole
