SPECIFICATION Spec
CONSTANTS
    w1 = w1
    w2 = w2
    c1 = c1
    c2 = c2
    a1 = a1
    a2 = a2
    t1 = t1
    t2 = t2
    t3 = t3
    Workers = {w1, w2}
    Clients = {c1, c2}
    Attempts = {a1}
    Tasks = {t1}
    Modes = {"submit"}
    Hosts = {TRUE}
    Pauses = {"browser"}
    StartStates = {"discovered"}
    MaxCrashes = 1
    MayRaise = TRUE
    NoTask = NoTask
    NoAttempt = NoAttempt
    NoWorker = NoWorker
SYMMETRY MCActors
INVARIANT SubmitOnce
INVARIANT ClickIsOnRecord
CONSTRAINT NoRaceYet
CONSTRAINT FewAtOnce
CHECK_DEADLOCK FALSE
