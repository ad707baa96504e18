------------------------- MODULE MCOrderAttribution -------------------------
EXTENDS OrderAttribution
CONSTANTS n1, n2, w1, w2
=============================================================================
