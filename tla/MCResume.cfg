CONSTANTS
    A = A
    B = B
    C = C
    dev = dev
    fa = fa
    fb = fb
    None = None
    Configs = {A, B, C, dev}
    ScopeFp <- MCFp
    HostFp <- MCFp
    HostConfigs = {C}
    MaxKept = 2
    MaxTime = 2
    MaxSessions = 3
    MaxFaults = 2
    MaxEdits = 3
SPECIFICATION MCSpec
INVARIANTS HostKeptWhole ScopeHonest NothingOldKept
CHECK_DEADLOCK FALSE
