--------------------------- MODULE SingleRunProofs ---------------------------
(***************************************************************************)
(* Mutual exclusion of the bodies that still have their connection, for    *)
(* any number of loops, processes, connections and faults.                 *)
(***************************************************************************)
EXTENDS SingleRun, TLAPS

\* No connection is checked out twice; a loop past the acquisition whose
\* session lives has the lock on it; at most one session has it, and no dead
\* one has.
LockInv ==
    /\ \A l, m \in Loops : conn[l] = conn[m] => l = m \/ conn[l] = NoConn
    /\ \A l \in Loops :
          lpc[l] \in {"acquired", "running", "releasing"} /\ conn[l] \notin broken
              => depth[conn[l]] > 0
    /\ \A j, k \in Conns : depth[j] > 0 /\ depth[k] > 0 => j = k
    /\ \A k \in broken : depth[k] = 0

Inv == TypeOK /\ LockInv

LEMMA InitInv == Init => Inv
BY SingleRunAssumption
DEF Init, Inv, TypeOK, LockInv, LoopPhases

LEMMA NextInv == Inv /\ [Next]_lockVars => Inv'
<1> SUFFICES ASSUME Inv, [Next]_lockVars PROVE Inv'
  OBVIOUS
<1> USE SingleRunAssumption
        DEF Inv, TypeOK, LockInv, LoopPhases, OneMoreFault, Close
<1>1. ASSUME NEW l \in Loops, Connect(l) PROVE Inv'
  <2>1. PICK k \in Pool[l] : k \notin CheckedOut
                             /\ conn' = [conn EXCEPT ![l] = k]
                             /\ broken' = broken \ {k}
    BY <1>1 DEF Connect
  <2>2. /\ k \in Conns /\ \A m \in Loops : conn[m] # k
        /\ lpc' = [lpc EXCEPT ![l] = "connected"]
        /\ UNCHANGED <<depth, faults>>
    BY <1>1, <2>1 DEF Connect, CheckedOut
  <2>3. TypeOK'
    BY <2>1, <2>2
  <2>4. LockInv'
    BY <2>1, <2>2
  <2>5. QED
    BY <2>3, <2>4
<1>2. ASSUME NEW l \in Loops, TryLock(l) PROVE Inv'
  <2>1. conn[l] \in Conns
    BY <1>2 DEF TryLock
  <2>2. TypeOK'
    BY <1>2, <2>1 DEF TryLock
  <2>3. LockInv'
    BY <1>2, <2>1 DEF TryLock, Lockable
  <2>4. QED
    BY <2>2, <2>3
<1>3. ASSUME NEW l \in Loops, NotAcquired(l) \/ CommitFails(l) \/ UnlockFails(l)
      PROVE  Inv'
  BY <1>3 DEF NotAcquired, CommitFails, UnlockFails
<1>4. ASSUME NEW l \in Loops, StartBody(l) \/ EndBody(l) PROVE Inv'
  BY <1>4 DEF StartBody, EndBody
<1>5. ASSUME NEW l \in Loops, Release(l) PROVE Inv'
  <2>1. conn[l] \in Conns
    BY <1>5 DEF Release
  <2>2. TypeOK'
    BY <1>5, <2>1 DEF Release
  <2>3. LockInv'
    BY <1>5, <2>1 DEF Release
  <2>4. QED
    BY <2>2, <2>3
<1>6. ASSUME NEW k \in Conns, LoseConnection(k) \/ Recycle(k) PROVE Inv'
  BY <1>6 DEF LoseConnection, Recycle, CheckedOut
<1>7. ASSUME NEW l \in Loops, Crash(l) PROVE Inv'
  <2>1. TypeOK'
    BY <1>7 DEF Crash
  <2>2. \A m \in Loops : Pool[m] # Pool[l] /\ lpc[m] # "sleeping"
                            => conn[m] \notin Pool[l]
    OBVIOUS
  <2>3. LockInv'
    BY <1>7, <2>2 DEF Crash
  <2>4. QED
    BY <2>1, <2>3
<1>8. CASE UNCHANGED lockVars
  BY <1>8 DEF lockVars
<1>9. QED
  BY <1>1, <1>2, <1>3, <1>4, <1>5, <1>6, <1>7, <1>8 DEF Next, Claim

\* Types of claim()'s state.
THEOREM SingleRunTypes == Spec => []TypeOK
<1>1. Inv => TypeOK
  BY DEF Inv
<1>2. QED
  BY <1>1, InitInv, NextInv, PTL DEF Spec

\* Two bodies of the job never run at the same time on living connections,
\* whatever was leaked, lost or timed out before.
THEOREM OneBodyPerLock == Spec => []OneRunsWhileConnected
<1>1. Inv => OneRunsWhileConnected
  <2> SUFFICES ASSUME Inv, NEW l \in Loops, NEW m \in Loops,
                      lpc[l] = "running", lpc[m] = "running",
                      conn[l] \notin broken, conn[m] \notin broken
               PROVE  l = m
    BY DEF OneRunsWhileConnected, Running
  <2>1. /\ conn[l] \in Conns /\ depth[conn[l]] > 0
        /\ conn[m] \in Conns /\ depth[conn[m]] > 0
    BY SingleRunAssumption DEF Inv, TypeOK, LockInv
  <2>2. conn[l] = conn[m]
    BY <2>1 DEF Inv, LockInv
  <2>3. QED
    BY <2>1, <2>2, SingleRunAssumption DEF Inv, LockInv
<1>2. QED
  BY <1>1, InitInv, NextInv, PTL DEF Spec
=============================================================================
