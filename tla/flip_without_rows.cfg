SPECIFICATION Spec
CONSTANTS
    Sims = {s1}
    Users = {u1}
    NoUser = NoUser
    NoSim = NoSim
    Rows = {m1, m2}
    Requests = {r1}
    Workers = {w1}
    VisibilityCoversRun = TRUE
    FaultKinds <- OnlyGiveUp
    MaxFaults = 1
PROPERTIES
    FlipFindsAllRows
