------------------------------ MODULE MvccProofs -------------------------------
(* What MVCC promises, for every number of sessions, tables, versions, transactions *)
(* and crashes: what INSERT, DELETE and UPDATE write, and the theorems.          *)
EXTENDS MvccWrites, FiniteSetTheorems

--------------------------------------------------------------------------------
(* What the writing statements write.                                            *)

\* A pool and a file hold finitely many versions.
Finite == \A t \in Tables : IsFiniteSet(heap[t]) /\ IsFiniteSet(disk[t])

\* INSERT is such a statement.
LEMMA InsertWrites ==
    ASSUME Stored, NEW t \in Tables, exec_insert(t)
    PROVE  \E S, new : Written(t, S, new)
<1> DEFINE r == [id |-> nid, row |-> nid, xmin |-> stmt_txn, xmax |-> 0]
<1>1. nid \in Nat /\ stmt_txn \in Nat
  BY Current, Zenon DEF Stored, TypeOK
<1>2. r \in Version /\ r.id = nid /\ r.xmin = stmt_txn /\ r.xmax = 0
  BY <1>1, Zenon DEF Version
<1>3. CanRun /\ t \in created /\ Write(t, heap[t] \cup {r}, {nid}, {}) /\ clobbered' = clobbered
  BY Zenon DEF exec_insert
<1> HIDE DEF r
<1>4. Ids({r}) = {nid} /\ Ids({}) = {}
  BY <1>2, Zenon DEF Ids
<1>5. stamp_xmax(heap[t], {}, stmt_txn) \cup {r} = heap[t] \cup {r}
  BY Zenon DEF stamp_xmax
<1>6. Clobbers({})
  BY <1>3, <1>4, Zenon DEF Clobbers, Ids
<1>7. IsFiniteSet({r}) /\ Cardinality({nid}) = 1
  BY FS_Singleton, Zenon
<1>8. nid' = nid + 1
  BY <1>3, <1>7, Zenon DEF Write
<1>9. nid' \in Nat /\ nid <= nid' /\ nid < nid'
  BY <1>1, <1>8
<1>10. Written(t, {}, {r})
  BY <1>1, <1>2, <1>3, <1>4, <1>5, <1>6, <1>7, <1>9 DEF Written
<1> QED
  BY <1>10, Zenon

\* So is DELETE.
LEMMA DeleteWrites ==
    ASSUME Stored, NEW t \in Tables, exec_delete(t)
    PROVE  \E S, new : Written(t, S, new)
<1>1. PICK S \in SUBSET Visible(cur_session, t, stmt_txn) :
         /\ Write(t, stamp_xmax(heap[t], S, stmt_txn), {}, Ids(S))
         /\ Clobbers(S)
  BY Zenon DEF exec_delete
<1>2. S \subseteq heap[t]
  BY Zenon DEF Visible
<1>3. Ids({}) = {} /\ IsFiniteSet({})
  BY FS_EmptySet, Zenon DEF Ids
<1>4. CanRun /\ t \in created
  BY Zenon DEF exec_delete
<1>5. Write(t, stamp_xmax(heap[t], S, stmt_txn) \cup {}, Ids({}), Ids(S))
  BY <1>1, <1>3, Zenon
<1>6. nid' \in Nat /\ nid <= nid'
  <2>1. nid \in Nat /\ nid' = nid + Cardinality({}) /\ Cardinality({}) = 0
    BY <1>1, FS_EmptySet, Zenon DEF Stored, TypeOK, Write
  <2> QED
    BY <2>1
<1>7. Written(t, S, {})
  BY <1>1, <1>2, <1>3, <1>4, <1>5, <1>6, Zenon DEF Written
<1> QED
  BY <1>7, Zenon

\* And UPDATE: the successors of S get the next numbers, each its own.
LEMMA UpdateWrites ==
    ASSUME Stored, Finite, NEW t \in Tables, exec_update(t)
    PROVE  \E S, new : Written(t, S, new)
<1>1. PICK S \in SUBSET Visible(cur_session, t, stmt_txn) :
         LET num(v) == nid + Cardinality({u \in S : u.id < v.id})
             new == {[id |-> num(v), row |-> v.row, xmin |-> stmt_txn, xmax |-> 0] : v \in S}
         IN  /\ Write(t, stamp_xmax(heap[t], S, stmt_txn) \cup new, Ids(new), Ids(S))
             /\ Clobbers(S)
  BY Zenon DEF exec_update
<1> DEFINE below(v) == {u \in S : u.id < v.id}
           num(v) == nid + Cardinality(below(v))
           succ(v) == [id |-> num(v), row |-> v.row, xmin |-> stmt_txn, xmax |-> 0]
           new == {succ(v) : v \in S}
<1>2. Write(t, stamp_xmax(heap[t], S, stmt_txn) \cup new, Ids(new), Ids(S)) /\ Clobbers(S)
  BY <1>1, Zenon
<1>3. CanRun /\ t \in created /\ nid \in Nat /\ stmt_txn \in Nat
  BY Current, Zenon DEF exec_update, Stored, TypeOK
<1>4. S \subseteq heap[t] /\ S \subseteq Version
  BY Zenon DEF Visible, Stored, TypeOK
<1>5. IsFiniteSet(S) /\ \A v, w \in S : v.id = w.id => v = w
  <2>1. IsFiniteSet(S)
    BY <1>4, FS_Subset, Zenon DEF Finite
  <2>2. \A v, w \in heap[t] : v.id = w.id => v = w
    BY DEF Stored, Unique
  <2> QED
    BY <1>4, <2>1, <2>2, Zenon
<1>6. ASSUME NEW v \in S
      PROVE  /\ IsFiniteSet(below(v)) /\ Cardinality(below(v)) \in Nat
             /\ Cardinality(below(v)) < Cardinality(S)
  <2>1. below(v) \subseteq S \ {v}
    BY <1>4 DEF Version
  <2>2. IsFiniteSet(S \ {v}) /\ Cardinality(S \ {v}) = Cardinality(S) - 1
    BY <1>5, FS_RemoveElement, Zenon
  <2>3. IsFiniteSet(below(v)) /\ Cardinality(below(v)) <= Cardinality(S \ {v})
    BY <2>1, <2>2, FS_Subset, Zenon
  <2>4. Cardinality(below(v)) \in Nat /\ Cardinality(S) \in Nat
    BY <1>5, <2>3, FS_CardinalityType, Zenon
  <2> HIDE DEF below
  <2> QED
    BY <2>2, <2>3, <2>4
<1>7. ASSUME NEW v \in S, NEW w \in S, v.id < w.id PROVE num(v) < num(w)
  <2>1. below(v) \subseteq below(w) \ {v} /\ v \in below(w)
    BY <1>4, <1>7 DEF Version
  <2>2. IsFiniteSet(below(w) \ {v}) /\ Cardinality(below(w) \ {v}) = Cardinality(below(w)) - 1
    BY <1>6, <2>1, FS_RemoveElement, Zenon
  <2>3. Cardinality(below(v)) <= Cardinality(below(w) \ {v})
    BY <2>1, <2>2, FS_Subset, Zenon
  <2>4. Cardinality(below(v)) \in Nat /\ Cardinality(below(w)) \in Nat
    BY <1>6, Zenon
  <2> QED
    BY <1>3, <2>2, <2>3, <2>4
<1>8. \A v \in S : num(v) \in Nat /\ nid <= num(v) /\ num(v) < nid + Cardinality(S)
  <2> SUFFICES ASSUME NEW v \in S PROVE num(v) \in Nat /\ nid <= num(v) /\ num(v) < nid + Cardinality(S)
    BY Zenon
  <2>1. Cardinality(S) \in Nat
    BY <1>5, FS_CardinalityType, Zenon
  <2> HIDE DEF below
  <2> QED
    BY <1>3, <1>6, <2>1
<1>9. \A v, w \in S : num(v) = num(w) => v = w
  <2> SUFFICES ASSUME NEW v \in S, NEW w \in S, v # w PROVE num(v) # num(w)
    BY Zenon
  <2>1. num(v) \in Nat /\ num(w) \in Nat
    BY <1>8, Zenon
  <2>2. v.id < w.id \/ w.id < v.id
    BY <1>4, <1>5 DEF Version
  <2> HIDE DEF num
  <2> QED
    BY <1>7, <2>1, <2>2
<1> HIDE DEF num
<1>10. \A v \in S : /\ succ(v) \in Version /\ succ(v).id = num(v)
                    /\ succ(v).xmin = stmt_txn /\ succ(v).xmax = 0
  BY <1>3, <1>4, <1>8, Zenon DEF Version
<1> HIDE DEF succ
<1>11. IsFiniteSet(new) /\ Cardinality(Ids(new)) = Cardinality(S)
  <2> DEFINE f == [v \in S |-> succ(v)]
             g == [v \in S |-> num(v)]
  <2>1. f \in Surjection(S, new)
    BY Zenon DEF Surjection
  <2>2. IsFiniteSet(new)
    BY <1>5, <2>1, FS_Surjection, Zenon
  <2>3. Ids(new) = {num(v) : v \in S}
    BY <1>10, Zenon DEF Ids
  <2>4. g \in [S -> Ids(new)] /\ \A v \in S : g[v] = num(v)
    BY <2>3, Zenon
  <2> HIDE DEF g, new
  <2>5. g \in Bijection(S, Ids(new))
    BY <1>9, <2>3, <2>4, Zenon DEF Bijection, Injection, Surjection, IsInjective
  <2>6. Cardinality(S) = Cardinality(Ids(new))
    BY <1>5, <2>5, FS_Bijection, Zenon DEF ExistsBijection
  <2> QED
    BY <2>2, <2>6, Zenon
<1>12. new \subseteq Version
  BY <1>10, Zenon
<1>13. \A v \in new : /\ v.xmin = stmt_txn /\ v.xmax = 0 /\ nid <= v.id
                      /\ v.id < nid + Cardinality(S)
  BY <1>8, <1>10, Zenon
<1>14. \A v, w \in new : v.id = w.id => v = w
  BY <1>9, <1>10
<1> HIDE DEF new
<1>15. nid' = nid + Cardinality(S)
  BY <1>2, <1>11, Zenon DEF Write
<1>16. nid' \in Nat /\ nid <= nid'
  BY <1>3, <1>5, <1>15, FS_CardinalityType
<1>17. Written(t, S, new)
  BY <1>2, <1>3, <1>4, <1>11, <1>12, <1>13, <1>14, <1>15, <1>16, Zenon DEF Written
<1> QED
  BY <1>17, Zenon

\* A writing statement leaves finitely many versions.
LEMMA ResultFinite ==
    ASSUME Finite, NEW t \in Tables, NEW S, NEW new, Written(t, S, new)
    PROVE  IsFiniteSet(Result(t, S, new))
<1> DEFINE T == {Stamp(u, stmt_txn) : u \in S}
           K == {v \in heap[t] : v \notin S}
           f == [u \in S |-> Stamp(u, stmt_txn)]
<1>1. IsFiniteSet(heap[t]) /\ S \subseteq heap[t] /\ K \subseteq heap[t] /\ IsFiniteSet(new)
  BY Zenon DEF Finite, Written
<1>2. IsFiniteSet(S) /\ IsFiniteSet(K)
  BY <1>1, FS_Subset, Zenon
<1>3. f \in Surjection(S, T)
  BY Zenon DEF Surjection
<1>4. IsFiniteSet(T)
  BY <1>2, <1>3, FS_Surjection, Zenon
<1>5. Result(t, S, new) = (K \cup T) \cup new
  BY Zenon DEF Result, stamp_xmax, Stamp
<1> HIDE DEF T, K
<1> QED
  BY <1>1, <1>2, <1>4, <1>5, FS_Union, Zenon

\* The other steps copy versions between a pool and its file, or drop them.
LEMMA OthersCopy ==
    ASSUME Stored, SInv', [Next]_vars,
           \A t \in Tables : ~(exec_insert(t) \/ exec_delete(t) \/ exec_update(t))
    PROVE  \A t \in Tables : /\ heap'[t] \subseteq heap[t] \/ heap'[t] \subseteq disk[t]
                             /\ disk'[t] \subseteq heap[t] \/ disk'[t] \subseteq disk[t]
<1>1. CASE exec_begin \/ Select \/ SaveCatalog \/ db_open \/ UNCHANGED vars
  BY <1>1, Zenon DEF exec_begin, Select, SaveCatalog, db_open, dataVars, vars
<1>2. CASE exec_commit \/ exec_rollback
  BY <1>2, Zenon DEF exec_commit, exec_rollback, txn_commit_tables, txn_abort_tables
<1>3. CASE \E n \in SessionIds \cup {-1} : Session(n)
  BY <1>3, Zenon DEF Session, dataVars
<1>4. ASSUME NEW u \in Tables, StatementFails(u) \/ exec_create(u) PROVE heap' = heap /\ disk' = disk
  BY <1>4, StoredCreate, Zenon DEF StatementFails
<1>5. ASSUME NEW T, exec_vacuum(T)
      PROVE  \A t \in Tables : /\ heap'[t] \subseteq heap[t]
                               /\ disk'[t] \subseteq heap[t] \/ disk'[t] \subseteq disk[t]
  BY <1>5, Zenon DEF exec_vacuum
<1>6. CASE db_close \/ Crash
  BY <1>6, Zenon DEF db_close, Crash, txn_abort_tables
<1>7. CASE StatementRefused \/ CreateRefused
  BY <1>7, Zenon DEF StatementRefused, CreateRefused
<1> QED
  BY <1>1, <1>2, <1>3, <1>4, <1>5, <1>6, <1>7, Zenon DEF Next

\* So the versions stay finitely many.
LEMMA FiniteStep == ASSUME Stored, SInv', Finite, [Next]_vars PROVE Finite'
<1>1. CASE \E t \in Tables : exec_insert(t) \/ exec_delete(t) \/ exec_update(t)
  <2>1. PICK t \in Tables : exec_insert(t) \/ exec_delete(t) \/ exec_update(t)
    BY <1>1, Zenon
  <2>2. PICK S, new : Written(t, S, new)
    BY <2>1, InsertWrites, DeleteWrites, UpdateWrites, Zenon
  <2>3. IsFiniteSet(Result(t, S, new))
    BY <2>2, ResultFinite, Zenon
  <2>4. /\ heap'[t] = Result(t, S, new) /\ disk'[t] = IF in_txn THEN disk[t] ELSE Result(t, S, new)
        /\ \A u \in Tables \ {t} : heap'[u] = heap[u] /\ disk'[u] = disk[u]
    BY <2>2, WrittenTables, Zenon
  <2> QED
    BY <2>3, <2>4, Zenon DEF Finite
<1>2. CASE ~\E t \in Tables : exec_insert(t) \/ exec_delete(t) \/ exec_update(t)
  <2> SUFFICES ASSUME NEW t \in Tables PROVE IsFiniteSet(heap'[t]) /\ IsFiniteSet(disk'[t])
    BY Zenon DEF Finite
  <2>1. /\ heap'[t] \subseteq heap[t] \/ heap'[t] \subseteq disk[t]
        /\ disk'[t] \subseteq heap[t] \/ disk'[t] \subseteq disk[t]
    BY <1>2, OthersCopy, Zenon
  <2> QED
    BY <2>1, FS_Subset, Zenon DEF Finite
<1> QED
  BY <1>1, <1>2, Zenon

\* The database the model starts from holds one version.
LEMMA FiniteInit == Init => Finite
<1> SUFFICES ASSUME Init PROVE Finite
  BY Zenon
<1>1. \A t \in Tables : heap[t] = {} \/ \E v : heap[t] = {v}
  BY Zenon DEF Init, InitHeap
<1>2. IsFiniteSet({}) /\ \A v : IsFiniteSet({v})
  BY FS_EmptySet, FS_Singleton, Zenon
<1>3. disk = heap
  BY Zenon DEF Init
<1> QED
  BY <1>1, <1>2, <1>3, Zenon DEF Finite

--------------------------------------------------------------------------------
(* The theorems.                                                                 *)

\* The stored versions keep their types, are finitely many, and are told apart by
\* their numbers, whatever statements, rollbacks, VACUUM runs and crashes there are.
THEOREM StoredInvariance == Spec => [](Stored /\ Finite)
<1>1. Stored /\ Finite /\ SInv' /\ [Next]_vars => Stored' /\ Finite'
  <2> SUFFICES ASSUME Stored, Finite, SInv', [Next]_vars PROVE Stored' /\ Finite'
    BY Zenon
  <2>1. \A t \in Tables : exec_insert(t) \/ exec_delete(t) \/ exec_update(t) =>
           \E S, new : Written(t, S, new)
    BY InsertWrites, DeleteWrites, UpdateWrites, Zenon
  <2> QED
    BY <2>1, StoredStep, FiniteStep, Zenon
<1> QED
  BY <1>1, StoredInit, FiniteInit, SessionsInvariance, PTL DEF Spec

\* Every variable holds a value of its kind, for every value of the constants.
THEOREM TypeCorrect == Spec => []TypeOK
<1>1. Stored => TypeOK
  BY Zenon DEF Stored
<1> QED
  BY <1>1, StoredInvariance, PTL

\* The invariant of MVCC is inductive, as long as every transaction has an entry in the
\* status array.
THEOREM MvccInvariance == ASSUME IdsFit PROVE Spec => [](Stored /\ Mvcc)
<1>1. Stored /\ Finite /\ Stored' /\ Mvcc /\ [Next]_vars => Mvcc'
  <2> SUFFICES ASSUME Stored, Finite, Stored', Mvcc, [Next]_vars PROVE Mvcc'
    BY Zenon
  <2>1. \A t \in Tables : exec_insert(t) \/ exec_delete(t) \/ exec_update(t) =>
           \E S, new : Written(t, S, new)
    BY InsertWrites, DeleteWrites, UpdateWrites, Zenon
  <2> QED
    BY <2>1, MvccStep, Zenon
<1> QED
  BY <1>1, MvccInit, StoredInvariance, PTL DEF Spec

\* Statements outside a transaction (db_exec with row_visible and txn_committed_view)
\* read what is committed, neither more nor less, for every number of sessions, tables,
\* versions and crashes.
THEOREM ReadsCommitted == ASSUME IdsFit PROVE Spec => []ReadCommitted
BY MvccInvariance, MvccReads, PTL

\* Snapshot isolation: a transaction reads what it saw at its BEGIN and its own changes,
\* whatever other sessions commit, roll back or fail to do meanwhile.
THEOREM SnapshotIsolation == ASSUME IdsFit PROVE Spec => []SnapshotStable
BY MvccInvariance, MvccSnapshot, PTL

================================================================================
