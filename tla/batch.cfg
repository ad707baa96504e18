SPECIFICATION FairSpec
CONSTANTS
    w1 = w1
    w2 = w2
    Members = {w1, w2}
    BatchSize = 2
    QueueSize = 1
    MaxEvents = 5
    MaxDisruptions = 1
INVARIANTS
    TypeOK
    NothingVanishes
    CommitAheadBounded
PROPERTY EventuallyHandled
CHECK_DEADLOCK FALSE
