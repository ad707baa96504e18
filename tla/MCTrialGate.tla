---------------------------- MODULE MCTrialGate ----------------------------
EXTENDS TrialGate, FiniteSetsExt, TLC
CONSTANTS w1, w2

\* Order n brings n; the threshold is four.
MCRevenueMet(S) == SumSet(S) >= 4

Symmetry == Permutations(Workers)
=============================================================================
