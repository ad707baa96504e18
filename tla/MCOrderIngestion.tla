-------------------------- MODULE MCOrderIngestion --------------------------
EXTENDS OrderIngestion
CONSTANTS o1, c1, c2, n1, n2
=============================================================================
