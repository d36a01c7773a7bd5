------------------------------- MODULE LockTable -------------------------------
(* The entries of the lock manager and what lock_acquire and lock_release_all   *)
(* do to them (src/lock.c).  Slots are reused, so the table is a set of locks.   *)
EXTENDS Naturals, FiniteSets

CONSTANT LOCK_MAX       \* slots of the table

ASSUME LockAssumption == LOCK_MAX \in Nat \ {0}

LockMode == {"S", "X"}
Lock(txn, obj, mode) == [txn |-> txn, obj |-> obj, mode |-> mode]

Mine(E, txn, obj) == {e \in E : e.txn = txn /\ e.obj = obj}
Others(E, txn, obj) == {e \in E : e.txn # txn /\ e.obj = obj}

\* The compatibility matrix: what e's holder and a request for mode do to each other.
Conflict(e, mode) == mode = "X" \/ e.mode = "X"

\* The transaction already holds the lock, or a stronger one.
Suffices(E, txn, obj, mode) == \E e \in Mine(E, txn, obj) : mode = "S" \/ e.mode = "X"

\* Faulty variant of Acquirable: a holder's upgrade to X does not look at other holders.
AcquirableUpgrade(E, txn, obj, mode) ==
    \/ Mine(E, txn, obj) # {}
    \/ /\ \A e \in Others(E, txn, obj) : ~Conflict(e, mode)
       /\ Cardinality(E) < LOCK_MAX

\* lock_acquire returns 0, and the table it leaves then.
Acquirable(E, txn, obj, mode) ==
    \/ Suffices(E, txn, obj, mode)
    \/ /\ \A e \in Others(E, txn, obj) : ~Conflict(e, mode)
       /\ Mine(E, txn, obj) # {} \/ Cardinality(E) < LOCK_MAX
Acquired(E, txn, obj, mode) ==
    IF Suffices(E, txn, obj, mode) THEN E
    ELSE (E \ Mine(E, txn, obj)) \cup {Lock(txn, obj, mode)}

\* Faulty variant of lock_release_all: only shared locks are released.
lock_release_s(E, txn) == {e \in E : e.txn # txn \/ e.mode = "X"}

lock_release_all(E, txn) == {e \in E : e.txn # txn}

\* The matrix of lock.h holds among all locks of the table.
ExclusiveIn(E) ==
    \A e, f \in E : e.obj = f.obj /\ e.txn # f.txn => e.mode = "S" /\ f.mode = "S"
================================================================================
