------------------------ MODULE MCCommissionCharging ------------------------
EXTENDS CommissionCharging, TLC
CONSTANTS c1, c2, s1, w1, w2

MCShopOf == [c \in {c1, c2} |-> s1]
MCShopOfOne == [c \in {c1} |-> s1]

Symmetry == Permutations({w1, w2}) \cup Permutations({c1, c2})
=============================================================================
