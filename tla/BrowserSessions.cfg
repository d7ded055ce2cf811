SPECIFICATION FairSpec
CONSTANTS
    t1 = t1
    t2 = t2
    a1 = a1
    a2 = a2
    Tasks <- MCTasks
    Ids <- MCIds
    MaxContexts = 2
INVARIANT NothingIsOrphaned
PROPERTY OpeningEnds
