SPECIFICATION FairSpec
CONSTANTS
    h1 = h1
    h2 = h2
    Handlers = {h1, h2}
    MaxSubs = 2
    MaxRows = 2
    MaxEvents = 3
    MaxFaults = 1
INVARIANTS
    TypeOK
    OneActiveRow
    BilledIsServed
PROPERTIES
    PaidForIsServed
    ApprovalArrives
CHECK_DEADLOCK FALSE
