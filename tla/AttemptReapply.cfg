SPECIFICATION Spec
CONSTANTS
    w1 = w1
    w2 = w2
    c1 = c1
    c2 = c2
    a1 = a1
    a2 = a2
    t1 = t1
    t2 = t2
    t3 = t3
    Workers = {w1, w2}
    Clients = {c1}
    Attempts = {a1, a2}
    Tasks = {t1, t2}
    Modes = {"fill", "submit"}
    Hosts = {FALSE}
    Pauses = {"app"}
    StartStates = {"discovered"}
    MaxCrashes = 0
    MayRaise = TRUE
    NoTask = NoTask
    NoAttempt = NoAttempt
    NoWorker = NoWorker
SYMMETRY MCRows
INVARIANT TypeOK
INVARIANT OneLiveTask
 
CONSTRAINT OneHandler
CONSTRAINT NoRaceYet
CONSTRAINT OneRevival
CHECK_DEADLOCK FALSE
