SPECIFICATION Spec
CONSTANTS
    Addrs = {a1}
    MaxSends = 2
    MaxRuns = 0
    MaxNacks = 0
    WatchKinds = {}
    HasTimeout = FALSE
PROPERTIES
    CtrlCStops
