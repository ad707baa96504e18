------------------------------ MODULE SingleRun ------------------------------
(***************************************************************************)
(* app/core/single_run.py: claim(name), which lets one periodic job run in *)
(* one process at a time with a Postgres advisory lock.  The lock belongs  *)
(* to the database connection that took it, counts how often it was taken, *)
(* and survives the return of the connection to SQLAlchemy's pool (engine  *)
(* settings: pool_pre_ping, pool_recycle).  One job, hence one lock key.   *)
(***************************************************************************)
EXTENDS Integers

CONSTANTS
    Loops,     \* the run_forever tasks of the job, one per worker process
    Conns,     \* connections the processes' pools may hold
    Pool,      \* [Loops -> SUBSET Conns]: the pool of the loop's process
    MaxFaults  \* bound on lost connections, timed out statements and crashes

NoConn == "no connection"

ASSUME SingleRunAssumption ==
    /\ Pool \in [Loops -> SUBSET Conns]
    /\ \A l, m \in Loops : Pool[l] = Pool[m] \/ Pool[l] \cap Pool[m] = {}
    /\ NoConn \notin Conns
    /\ MaxFaults \in Nat

VARIABLES
    lpc,     \* per loop: where it is in claim()
    conn,    \* per loop: the connection it has checked out
    depth,   \* Postgres: how often a connection's session has taken the lock
    broken,  \* connections whose session is gone
    faults   \* lost connections, timed out statements and crashes so far

lockVars == <<lpc, conn, depth, broken, faults>>

LoopPhases == {"sleeping", "connected", "acquired", "running", "releasing"}

Init ==
    /\ lpc = [l \in Loops |-> "sleeping"]
    /\ conn = [l \in Loops |-> NoConn]
    /\ depth = [k \in Conns |-> 0]
    /\ broken = {}
    /\ faults = 0

CheckedOut == {conn[l] : l \in Loops}

\* conn.close(): back to the pool, whatever lock the session still holds.
Close(l) ==
    /\ conn' = [conn EXCEPT ![l] = NoConn]
    /\ lpc' = [lpc EXCEPT ![l] = "sleeping"]

OneMoreFault == faults < MaxFaults /\ faults' = faults + 1

-----------------------------------------------------------------------------
\* engine.connect(): a pooled connection, pinged first and replaced by a new
\* one when the ping fails.
Connect(l) ==
    /\ lpc[l] = "sleeping"
    /\ \E k \in Pool[l] \ CheckedOut :
          /\ conn' = [conn EXCEPT ![l] = k]
          /\ broken' = broken \ {k}
    /\ lpc' = [lpc EXCEPT ![l] = "connected"]
    /\ UNCHANGED <<depth, faults>>

\* Seeded fault: every session believes that it got the lock.
LockableByAll(k) == k \notin broken

\* pg_try_advisory_lock succeeds unless another session holds the lock; it is
\* re-entrant within one.
Lockable(k) == k \notin broken /\ \A j \in Conns \ {k} : depth[j] = 0

TryLock(l) ==
    /\ lpc[l] = "connected"
    /\ Lockable(conn[l])
    /\ depth' = [depth EXCEPT ![conn[l]] = @ + 1]
    /\ lpc' = [lpc EXCEPT ![l] = "acquired"]
    /\ UNCHANGED <<conn, broken, faults>>

\* Another session holds the lock, or the statement fails: yield False.
NotAcquired(l) ==
    /\ lpc[l] = "connected"
    /\ \/ ~ Lockable(conn[l]) /\ UNCHANGED faults
       \/ OneMoreFault
    /\ Close(l)
    /\ UNCHANGED <<depth, broken>>

\* The commit that follows the acquisition; then yield True.
StartBody(l) ==
    /\ lpc[l] = "acquired"
    /\ conn[l] \notin broken
    /\ lpc' = [lpc EXCEPT ![l] = "running"]
    /\ UNCHANGED <<conn, depth, broken, faults>>

\* The commit fails: yield False, without unlocking.
CommitFails(l) ==
    /\ lpc[l] = "acquired"
    /\ \/ conn[l] \in broken /\ UNCHANGED faults
       \/ OneMoreFault
    /\ Close(l)
    /\ UNCHANGED <<depth, broken>>

\* The body returns or raises; the finally clause is next in both cases.
EndBody(l) ==
    /\ lpc[l] = "running"
    /\ lpc' = [lpc EXCEPT ![l] = "releasing"]
    /\ UNCHANGED <<conn, depth, broken, faults>>

\* Seeded fault: an unlock is counted although the session is gone.
ReleaseBlindly(l) ==
    /\ lpc[l] = "releasing"
    /\ depth' = [depth EXCEPT ![conn[l]] = @ - 1]
    /\ Close(l)
    /\ UNCHANGED <<broken, faults>>

\* pg_advisory_unlock, then close.  On a dead session there is nothing left to
\* unlock; the error is logged and the connection closed all the same.
Release(l) ==
    /\ lpc[l] = "releasing"
    /\ depth' = [depth EXCEPT ![conn[l]] = IF conn[l] \in broken THEN 0 ELSE @ - 1]
    /\ Close(l)
    /\ UNCHANGED <<broken, faults>>

\* The unlock runs into command_timeout on a live session and the lock stays
\* with the pooled connection.
UnlockFails(l) ==
    /\ lpc[l] = "releasing"
    /\ OneMoreFault
    /\ Close(l)
    /\ UNCHANGED <<depth, broken>>

-----------------------------------------------------------------------------
\* Postgres drops a session, and with it its locks, while the client goes on.
LoseConnection(k) ==
    /\ k \notin broken
    /\ OneMoreFault
    /\ broken' = broken \cup {k}
    /\ depth' = [depth EXCEPT ![k] = 0]
    /\ UNCHANGED <<lpc, conn>>

\* The process of loop l dies: its connections die with it.
Crash(l) ==
    /\ OneMoreFault
    /\ LET dead == {m \in Loops : Pool[m] = Pool[l]} IN
          /\ lpc' = [m \in Loops |-> IF m \in dead THEN "sleeping" ELSE lpc[m]]
          /\ conn' = [m \in Loops |-> IF m \in dead THEN NoConn ELSE conn[m]]
    /\ depth' = [k \in Conns |-> IF k \in Pool[l] THEN 0 ELSE depth[k]]
    /\ broken' = broken \ Pool[l]

\* Seeded fault: no pool_recycle.
RecycleOff(k) == FALSE /\ UNCHANGED lockVars

\* Whoever checks out a pooled connection older than pool_recycle gets a new
\* one in its place.
Recycle(k) ==
    /\ k \notin CheckedOut
    /\ depth[k] > 0
    /\ depth' = [depth EXCEPT ![k] = 0]
    /\ UNCHANGED <<lpc, conn, broken, faults>>

-----------------------------------------------------------------------------
Claim(l) ==
    \/ Connect(l) \/ TryLock(l) \/ NotAcquired(l) \/ StartBody(l)
    \/ CommitFails(l) \/ EndBody(l) \/ Release(l) \/ UnlockFails(l)

Next ==
    \/ \E l \in Loops : Claim(l) \/ Crash(l)
    \/ \E k \in Conns : LoseConnection(k) \/ Recycle(k)

Spec == Init /\ [][Next]_lockVars

\* run_forever claims again and again, a body comes to an end, and the pool,
\* which hands out its connections in turn, recycles each in time.  A loop
\* that asks again and again finds the lock free at some time it asks.
Fairness ==
    /\ \A l \in Loops : WF_lockVars(Claim(l)) /\ SF_lockVars(TryLock(l))
    /\ \A k \in Conns : SF_lockVars(Recycle(k))

FairSpec == Spec /\ Fairness

-----------------------------------------------------------------------------
(* Properties.                                                             *)

\* Types; a loop beyond sleeping has checked out a connection of its pool.
TypeOK ==
    /\ lpc \in [Loops -> LoopPhases]
    /\ conn \in [Loops -> Conns \cup {NoConn}]
    /\ depth \in [Conns -> Nat]
    /\ broken \in SUBSET Conns
    /\ faults \in 0 .. MaxFaults
    /\ \A l \in Loops : lpc[l] # "sleeping" => conn[l] \in Pool[l]

Running == {l \in Loops : lpc[l] = "running"}

\* claim's docstring says True in exactly one process, for the duration.  What
\* the code keeps of it: of two loops in their bodies at the same time, one has
\* lost the connection its lock was on.
OneRunsWhileConnected == \A l, m \in {n \in Running : conn[n] \notin broken} : l = m

\* No failure to release the lock keeps it taken for ever, and the next cycle on
\* some worker picks the job up: whatever times out, breaks or crashes, it runs
\* again and again.
JobKeepsRunning ==
    /\ \A k \in Conns : depth[k] > 0 ~> depth[k] = 0
    /\ []<>(Running # {})
=============================================================================
