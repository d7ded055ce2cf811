SPECIFICATION MCSpec
CONSTANTS
    c1 = c1
    c2 = c2
    c3 = c3
    k1 = k1
    k2 = k2
    Calls = {c1, c2}
    Keys = {k1}
    NoKey = NoKey
    NoCall = NoCall
    HostKinds = {"peer"}
    MaxConn = 2
    Commands = {"click", "create_session", "request_handoff"}
    MaxRestarts = 1
    MaxIssued = 3
    MaxSockets = 3
    Clients = {"p", "q"}
    AllSettings <- MCSettings
    NoSecret = NoSecret
    Words = {1, 2}
    FreeAttempts = 1
    BaseLockout = 1
    MaxLockout = 2
    MaxTracked = 1
    SessionTtl = 3
    MaxTime = 4
    MaxTokens = 2
    MaxStarts = 3
SYMMETRY CallSymmetry
 
PROPERTY DelegatedIsLeftAlone
PROPERTY RefinesService
CONSTRAINT FewFaults
CONSTRAINT StillAtWork
CHECK_DEADLOCK FALSE
