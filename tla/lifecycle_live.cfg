SPECIFICATION FairSpec
CONSTANTS
    Sims = {s1}
    Users = {u1}
    NoUser = NoUser
    NoSim = NoSim
    Rows = {m1}
    Requests = {r1, r2}
    Workers = {w1, w2}
    VisibilityCoversRun = TRUE
    FaultKinds <- AllFaults
    MaxFaults = 2
INVARIANTS
    CompletedIsWhole
    InFlightIsBacked
PROPERTIES
    CompletedIsFinal
    NeverHangsInPending
    QueuedJobsSettle
    JobsLeaveSettled
