SPECIFICATION Spec
CONSTANTS
    c1 = c1
    c2 = c2
    s1 = s1
    w1 = w1
    w2 = w2
    Members = {w1, w2}
    Commissions = {c1}
    Shops = {s1}
    ShopOf <- MCShopOfOne
    StartOffset = 0
    SubStates = {"none", "no_item", "active", "suspended"}
    UserErrorOutcomes = {"FAILED"}
    MaxDisruptions = 0
INVARIANT
    FailedIsUncharged
