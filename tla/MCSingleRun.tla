----------------------------- MODULE MCSingleRun -----------------------------
EXTENDS SingleRun
CONSTANTS l1, l2, l3, k1, k2, k3

\* l1 and l2 share a process and its pool, l3 has a process of its own.
MCPool == [l \in {l1, l2, l3} |-> IF l = l3 THEN {k3} ELSE {k1, k2}]
=============================================================================
