SPECIFICATION Spec
CONSTANTS
    w1 = w1
    w2 = w2
    Members = {w1, w2}
    BatchSize = 2
    QueueSize = 1
    MaxEvents = 5
    MaxDisruptions = 0
INVARIANT
    CommittedIsDone
CHECK_DEADLOCK FALSE
