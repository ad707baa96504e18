SPECIFICATION FairSpec
CONSTANTS
    n1 = n1
    n2 = n2
    w1 = w1
    w2 = w2
    Orders = {1, 2}
    Tracked = {2}
    Normalisers = {n1, n2}
    Workers = {w1, w2}
    Tries = 2
    MaxAttempts = 2
    SweepLimit = 1
    MaxWrites = 2
    MaxJobs = 1
    MaxFaults = 1
INVARIANTS
    TypeOK
    DoneIsAttributed
    UnbilledIsAccounted
PROPERTIES
    SettledUnlessOvertaken
    OwedIsAttributed
CHECK_DEADLOCK FALSE
