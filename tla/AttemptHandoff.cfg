SPECIFICATION FairSpec
CONSTANTS
    w1 = w1
    w2 = w2
    c1 = c1
    c2 = c2
    a1 = a1
    a2 = a2
    t1 = t1
    t2 = t2
    t3 = t3
    Workers = {w1}
    Clients = {c1}
    Attempts = {a1}
    Tasks = {t1}
    Modes = {"fill", "submit"}
    Hosts = {TRUE}
    Pauses = {"browser"}
    StartStates = {"discovered"}
    MaxCrashes = 1
    MayRaise = TRUE
    NoTask = NoTask
    NoAttempt = NoAttempt
    NoWorker = NoWorker
PROPERTY PauseLeavesQueue
 
CHECK_DEADLOCK FALSE
