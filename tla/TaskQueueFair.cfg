SPECIFICATION FairSpec
CONSTANTS
    w1 = w1
    w2 = w2
    t1 = t1
    t2 = t2
    c1 = c1
    c2 = c2
    k1 = k1
    k2 = k2
    Workers = {w1}
    Tasks = {t1, t2}
    Clients = {c1}
    Keys = {k1}
    Priorities = {0}
    Work = {"runnable", "malformed", "unhandled"}
    Failures <- MCHardFailures
    Strategies <- NoStrategies
    MaxAttempts = 2
    AttemptCap = 3
    MaxProgress = 0
    MaxCrashes = 1
    LeaseTime = 0
    Timeout = 1
    NoTask = NoTask
    NoWorker = NoWorker
    NoKey = NoKey
PROPERTY LostWorkIsReclaimed
PROPERTY PendingIsClaimed
