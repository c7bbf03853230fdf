CONSTANTS
    A = A
    B = B
    C = C
    dev = dev
    fa = fa
    fb = fb
    None = None
    Configs = {A, B}
    ScopeFp <- MCFp
    HostFp <- MCFp
    HostConfigs = {}
    MaxKept = 1
    MaxTime = 0
    MaxSessions = 3
    MaxFaults = 1
    MaxEdits = 0
SPECIFICATION MCSpec
INVARIANTS ScopeKept
CHECK_DEADLOCK FALSE
