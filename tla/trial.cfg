SPECIFICATION Spec
CONSTANTS
    w1 = w1
    w2 = w2
    Workers = {w1, w2}
    Orders = {1, 2, 3, 4, 5}
    MinOrders = 2
    RevenueMet <- MCRevenueMet
    MaxFaults = 2
SYMMETRY Symmetry
INVARIANTS
    TypeOK
    EndsOnEvidence
    OneCommission
    OvershootBounded
PROPERTIES
    PaidStaysPaid
