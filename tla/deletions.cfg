CONSTANTS
    p1 = p1
    p2 = p2
    p3 = p3
    p4 = p4
    Person = {p1, p2, p3}
    Limit = 2
    Overlap = 3
    Retention = 5
    CommitDelay = 1
    MaxPoll = 1
    Instant = {1, 2, 4, 5, 12}
    MaxFaults = 1
SPECIFICATION FairSpec
INVARIANTS TypeOK NobodySkipped HandledOnce
PROPERTIES EveryoneErased
