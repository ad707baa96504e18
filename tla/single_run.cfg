SPECIFICATION FairSpec
CONSTANTS
    l1 = l1
    l2 = l2
    l3 = l3
    k1 = k1
    k2 = k2
    k3 = k3
    Loops = {l1, l2, l3}
    Conns = {k1, k2, k3}
    Pool <- MCPool
    MaxFaults = 2
INVARIANTS
    TypeOK
    OneRunsWhileConnected
PROPERTIES
    JobKeepsRunning
