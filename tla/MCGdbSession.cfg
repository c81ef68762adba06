SPECIFICATION Spec
CONSTANTS
    Addrs = {a1, a2}
    MaxSends = 3
    MaxRuns = 1
    MaxNacks = 1
    WatchKinds = {"awatch"}
    HasTimeout = TRUE
INVARIANTS
    TypeOK
    BreakpointStops
PROPERTIES
    ResumeEnds
    DeadClientDetaches
