SPECIFICATION FairSpec
CONSTANTS
    MaxEntities = 3
    NKinds = 2
    KindOf <- MCKindOf
    Drafts = {3}
    Counted = {1}
    PageSize = 1
    MaxCalls = 2
    MaxChanges = 4
    MaxFailures = 1
INVARIANT
    TypeOK
PROPERTIES
    SteadyIsKept
    GoneIsDeactivated
