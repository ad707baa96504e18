SPECIFICATION RCapSpec
CONSTANTS
    c1 = c1
    c2 = c2
    s1 = s1
    w1 = w1
    w2 = w2
    p1 = p1
    p2 = p2
    r1 = r1
    r2 = r2
    Members = {w1}
    Commissions = {c1}
    Shops = {s1}
    ShopOf <- MCShopOf
    StartOffset = 0
    SubStates = {"active", "suspended"}
    UserErrorOutcomes = {"FAILED", "CAPPED"}
    MaxDisruptions = 0
    Passes = {p1, p2}
    SubRows = {r1, r2}
    Bound = {r1}
    RowShop <- MCRowShop
    CapAmounts = {90, 200}
    LexAfter <- MCLexAfter
    MaxRecords = 2
INVARIANTS
    RTypeOK
PROPERTIES
    RVerdictIsFinal
    ImplementsChargeOnce
    RaisedCapReopens
