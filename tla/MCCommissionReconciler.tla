----------------------- MODULE MCCommissionReconciler -----------------------
EXTENDS CommissionReconciler
CONSTANTS c1, c2, s1, w1, w2, p1, p2, r1, r2

MCShopOf == [c \in Commissions |-> s1]
MCRowShop == [r \in SubRows |-> s1]

\* As strings, "90" compares greater than "200".
MCLexAfter == {<<90, 200>>}
=============================================================================
