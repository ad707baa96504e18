SPECIFICATION FairSpec
CONSTANTS
    o1 = o1
    c1 = c1
    c2 = c2
    n1 = n1
    n2 = n2
    Orders = {o1}
    Collectors = {c1, c2}
    Normalisers = {n1, n2}
    PageLimit = 1
    MaxVersion = 2
    MaxEvents = 2
    MaxFaults = 2
INVARIANTS
    TypeOK
    OneRowUnlessOvertaken
PROPERTIES
    RowsGoForward
    BackstopCatchesUp
