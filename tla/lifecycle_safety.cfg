SPECIFICATION Spec
CONSTANTS
    Sims = {s1}
    Users = {u1, u2}
    NoUser = NoUser
    NoSim = NoSim
    Rows = {m1}
    Requests = {r1, r2}
    Workers = {w1, w2}
    VisibilityCoversRun = FALSE
    FaultKinds <- AllFaults
    MaxFaults = 1
SYMMETRY Symmetry
INVARIANTS
    TypeOK
    OwnershipHolds
    IInv
PROPERTIES
    OwnerViewSpec
