------------------------------ MODULE LockManager ------------------------------
(* The lock manager (src/lock.c, src/lock.h) under every order of its calls: a   *)
(* request that conflicts is recorded as a wait, retried, and cleared when the   *)
(* lock is obtained or the transaction gives up; a cycle of waits is broken by   *)
(* aborting the transaction lock_deadlock_victim names.  The waits and the       *)
(* abort are the caller's (tests/test_lock.c shows them); sessions of the        *)
(* database never wait, so nothing here says that any of these calls comes.      *)
EXTENDS LockTable, Sequences

CONSTANTS
    Txns,               \* transaction ids
    Objs,               \* (table, key) pairs
    LOCK_MAX_WAITS      \* slots for waits

ASSUME WaitAssumption == LOCK_MAX_WAITS \in Nat /\ IsFiniteSet(Txns)

VARIABLES
    entries,    \* the locks held
    waits,      \* the waits, in the order of their slots
    active      \* transactions that have neither committed nor aborted

vars == <<entries, waits, active>>

Wait == [txn : Txns, obj : Objs, mode : LockMode]

Waiting(txn) == \E i \in DOMAIN waits : waits[i].txn = txn

\* A transaction has one wait: a new one takes the place of the old one, or the next
\* slot, or is dropped when there is none.
lock_wait_add(w) ==
    IF Waiting(w.txn)
    THEN [i \in DOMAIN waits |-> IF waits[i].txn = w.txn THEN w ELSE waits[i]]
    ELSE IF Len(waits) < LOCK_MAX_WAITS THEN Append(waits, w) ELSE waits

\* The last wait moves into the slot that becomes free.
lock_wait_clear(txn) ==
    IF Waiting(txn)
    THEN LET i == CHOOSE j \in DOMAIN waits : waits[j].txn = txn
             last == Len(waits)
         IN  [j \in 1..(last - 1) |-> IF j = i THEN waits[last] ELSE waits[j]]
    ELSE waits

--------------------------------------------------------------------------------
(* Deadlock detection.                                                           *)

\* Faulty variant of wait_targets: only exclusive locks are waited for.
wait_targets_x(txn) ==
    {e.txn : e \in {f \in entries : \E i \in DOMAIN waits :
        waits[i].txn = txn /\ f.obj = waits[i].obj /\ f.txn # txn /\ f.mode = "X"}}

\* The transactions whose locks conflict with the one txn waits for.
wait_targets(txn) ==
    {e.txn : e \in {f \in entries : \E i \in DOMAIN waits :
        waits[i].txn = txn /\ f.obj = waits[i].obj /\ f.txn # txn /\ Conflict(f, waits[i].mode)}}

\* The paths of different waiting transactions that the search can follow from txn; it
\* goes no deeper than LOCK_MAX_WAITS.  A transaction that does not wait leads nowhere.
Waiters == {waits[i].txn : i \in DOMAIN waits}
Paths(txn) ==
    UNION {{p \in [1..n -> Waiters] :
               /\ p[1] = txn
               /\ \A i, j \in 1..n : p[i] = p[j] => i = j
               /\ \A i \in 2..n : p[i] \in wait_targets(p[i - 1])} : n \in 1..LOCK_MAX_WAITS}

\* What the search can return: a transaction that it meets behind a path and that is on
\* the path already.  The order of the entries, which decides among several, is left open.
dfs_cycle(txn) == UNION {{p[i] : i \in DOMAIN p} \cap wait_targets(p[Len(p)]) : p \in Paths(txn)}

\* The search starts from each wait in turn and ends with the first that finds a cycle.
lock_deadlock_victim ==
    UNION {dfs_cycle(waits[i].txn) :
              i \in {j \in DOMAIN waits : \A k \in 1..(j - 1) : dfs_cycle(waits[k].txn) = {}}}

--------------------------------------------------------------------------------
Init == entries = {} /\ waits = <<>> /\ active = Txns

Grant(txn, obj, mode) ==
    /\ txn \in active /\ ~Waiting(txn)
    /\ ~Suffices(entries, txn, obj, mode)
    /\ Acquirable(entries, txn, obj, mode)
    /\ entries' = Acquired(entries, txn, obj, mode)
    /\ UNCHANGED <<waits, active>>

\* The request fails and the transaction starts to wait.
Block(txn, obj, mode) ==
    /\ txn \in active /\ ~Waiting(txn)
    /\ ~Acquirable(entries, txn, obj, mode)
    /\ waits' = lock_wait_add([txn |-> txn, obj |-> obj, mode |-> mode])
    /\ UNCHANGED <<entries, active>>

\* A waiting request is tried again.
Retry(txn) ==
    \E i \in DOMAIN waits :
        /\ waits[i].txn = txn
        /\ Acquirable(entries, txn, waits[i].obj, waits[i].mode)
        /\ entries' = Acquired(entries, txn, waits[i].obj, waits[i].mode)
        /\ waits' = lock_wait_clear(txn)
        /\ UNCHANGED active

\* COMMIT or ROLLBACK of a transaction that is not waiting.
Finish(txn) ==
    /\ txn \in active /\ ~Waiting(txn)
    /\ entries' = lock_release_all(entries, txn)
    /\ active' = active \ {txn}
    /\ UNCHANGED waits

\* The victim of a deadlock is rolled back.
AbortVictim ==
    \E txn \in lock_deadlock_victim :
        /\ entries' = lock_release_all(entries, txn)
        /\ waits' = lock_wait_clear(txn)
        /\ active' = active \ {txn}

Next ==
    \/ \E txn \in Txns :
          \/ \E obj \in Objs, mode \in LockMode : Grant(txn, obj, mode) \/ Block(txn, obj, mode)
          \/ Retry(txn) \/ Finish(txn)
    \/ AbortVictim

Spec == Init /\ [][Next]_vars

--------------------------------------------------------------------------------
(* Properties.                                                                   *)

\* The table holds locks and the wait list waits, each within its slots; no lock outlives
\* its transaction.
TypeOK ==
    /\ entries \subseteq [txn : active, obj : Objs, mode : LockMode] /\ Cardinality(entries) <= LOCK_MAX
    /\ waits \in Seq(Wait) /\ Len(waits) <= LOCK_MAX_WAITS
    /\ active \subseteq Txns

\* The matrix of lock.h: an exclusive lock excludes every other transaction from its
\* object, after any sequence of grants, upgrades and releases.
Exclusive == ExclusiveIn(entries)

\* t waits for a lock that the matrix of lock.h does not allow beside a lock of u.
WaitsFor(t, u) ==
    \E i \in DOMAIN waits, e \in entries :
        waits[i].txn = t /\ e.txn = u /\ ~ExclusiveIn({e, waits[i]})

\* txn is on a cycle of waits: it is reached from itself.
OnCycle(txn) ==
    \E n \in 1..Cardinality(Txns) : \E p \in [0..n -> Txns] :
        p[0] = txn /\ p[n] = txn /\ \A i \in 1..n : WaitsFor(p[i - 1], p[i])

\* lock_deadlock_victim names a transaction exactly when some transactions wait for
\* each other in a cycle, and names one of them: no deadlock is missed, and no
\* transaction is rolled back that only waits behind one.
VictimOnCycle ==
    /\ \A txn \in lock_deadlock_victim : OnCycle(txn)
    /\ (\E txn \in Txns : OnCycle(txn)) => lock_deadlock_victim # {}
================================================================================
