----------------------------- MODULE SessionsProofs ----------------------------
(* One writer per table, for every number of sessions, tables, transactions and  *)
(* crashes, and what each step does to the stored versions.                      *)
EXTENDS SessionsInv, TLAPS

--------------------------------------------------------------------------------
(* The lock table.                                                               *)

\* A grant of an exclusive lock (lock_acquire) keeps the compatibility matrix.
LEMMA AcquireKeeps ==
    ASSUME NEW E, E \subseteq LockSet, ExclusiveIn(E),
           NEW x \in Nat, NEW t \in Tables, Acquirable(E, x, t, "X")
    PROVE  /\ ExclusiveIn(Acquired(E, x, t, "X"))
           /\ Acquired(E, x, t, "X") \subseteq LockSet
           /\ Lock(x, t, "X") \in Acquired(E, x, t, "X")
           /\ \A e \in E : e \in Acquired(E, x, t, "X") \/ (e.txn = x /\ e.obj = t)
           /\ \A e \in Acquired(E, x, t, "X") : e \in E \/ e.txn = x
           /\ \A e \in E : e.obj = t => e.txn = x
<1> DEFINE F == Acquired(E, x, t, "X")
<1>1. CASE Suffices(E, x, t, "X")
  <2>1. F = E
    BY <1>1, Zenon DEF Acquired
  <2>2. PICK e \in E : e.txn = x /\ e.obj = t /\ e.mode = "X"
    BY <1>1, Zenon DEF Suffices, Mine
  <2>3. e = Lock(x, t, "X")
    BY <2>2, Zenon DEF LockSet, Lock
  <2>4. \A f \in E : f.obj = t => f.txn = x
    BY <2>2, Zenon DEF ExclusiveIn
  <2> QED
    BY <2>1, <2>2, <2>3, <2>4, Zenon
<1>2. CASE ~Suffices(E, x, t, "X")
  <2>1. F = (E \ Mine(E, x, t)) \cup {Lock(x, t, "X")}
    BY <1>2, Zenon DEF Acquired
  <2>2. \A f \in E : f.obj = t => f.txn = x
    BY <1>2, Zenon DEF Acquirable, Others, Conflict
  <2>3. Lock(x, t, "X") \in LockSet
    BY Zenon DEF Lock, LockSet, LockMode
  <2>4. \A f \in E : f \in F \/ (f.txn = x /\ f.obj = t)
    BY <2>1, Zenon DEF Mine
  <2>5. \A f \in F : f \in E \/ f = Lock(x, t, "X")
    BY <2>1, Zenon
  <2>6. ExclusiveIn(F)
    <3> SUFFICES ASSUME NEW f \in F, NEW g \in F, f.obj = g.obj, f.txn # g.txn
                 PROVE  f.mode = "S" /\ g.mode = "S"
      BY Zenon DEF ExclusiveIn
    <3>1. f \in E /\ g \in E
      BY <2>2, <2>5 DEF Lock
    <3> QED
      BY <3>1, Zenon DEF ExclusiveIn
  <2> QED
    BY <2>1, <2>2, <2>3, <2>4, <2>5, <2>6 DEF Lock
<1> QED
  BY <1>1, <1>2, Zenon

--------------------------------------------------------------------------------
(* What the parts of an action do to it.                                         *)

\* The session of the current statement and its transaction.
LEMMA Current ==
    ASSUME SInv
    PROVE  /\ sess[cur_session] \in DbSession
           /\ own \in Nat /\ stmt_txn \in Nat
           /\ in_txn => own = sess[cur_session].txn /\ own > 0 /\ own < next_txn /\ stmt_txn = own
           /\ ~in_txn => stmt_txn = next_txn
           /\ \A l \in locks : l.txn < next_txn
<1>1. sess[cur_session] \in DbSession
  BY Zenon DEF SInv, Types
<1>2. in_txn => own = sess[cur_session].txn /\ own > 0 /\ own < next_txn
  BY Zenon DEF SInv, Types, OwnIds, in_txn, own, Own
<1>3. own \in Nat
  BY <1>1, Zenon DEF own, Own, DbSession
<1>4. \A l \in locks : l.txn < next_txn
  BY Zenon DEF SInv, LocksOpen, OwnIds
<1> QED
  BY <1>1, <1>2, <1>3, <1>4, Zenon DEF stmt_txn, SInv, Types

\* KeepLock: the lock of the table, whether the table gets a writer or not.
LEMMA LockedTable ==
    ASSUME SInv, in_txn, NEW t \in Tables, Acquirable(locks, stmt_txn, t, "X"), KeepLock(t),
           writer_txn' = writer_txn \/ writer_txn' = [writer_txn EXCEPT ![t] = own]
    PROVE  /\ locks' \subseteq LockSet /\ ExclusiveIn(locks)' /\ LocksOpen' /\ WritersLock'
           /\ writer_txn' \in [Tables -> Nat] /\ own # 0 /\ writer_txn[t] \in {0, own}
           /\ writer_txn'[t] \in {writer_txn[t], own}
           /\ \A u \in Tables \ {t} : writer_txn'[u] = writer_txn[u]
<1> USE DEF SInv, Types
<1>1. own \in Nat /\ own > 0 /\ stmt_txn = own /\ own = sess[cur_session].txn
  BY Current, Zenon
<1>2. Acquirable(locks, own, t, "X")
  BY <1>1, Zenon
<1> HIDE DEF SInv
<1>3. locks' = Acquired(locks, own, t, "X") /\ sess' = sess
  BY Zenon DEF KeepLock
<1>4. locks \subseteq LockSet /\ ExclusiveIn(locks) /\ LocksOpen /\ WritersLock /\ writer_txn \in [Tables -> Nat]
  BY Zenon DEF SInv
<1>5. /\ ExclusiveIn(locks') /\ locks' \subseteq LockSet /\ Lock(own, t, "X") \in locks'
      /\ \A e \in locks : e \in locks' \/ (e.txn = own /\ e.obj = t)
      /\ \A e \in locks' : e \in locks \/ e.txn = own
      /\ \A e \in locks : e.obj = t => e.txn = own
  BY <1>1, <1>2, <1>3, <1>4, AcquireKeeps
<1>6. writer_txn[t] \in {0, own}
  BY <1>4, <1>5, Zenon DEF WritersLock, Lock
<1>7. LocksOpen'
  BY <1>1, <1>3, <1>4, <1>5, Zenon DEF LocksOpen, in_txn, SInv
<1>8. /\ writer_txn' \in [Tables -> Nat] /\ writer_txn'[t] \in {0, own}
      /\ writer_txn'[t] \in {writer_txn[t], own}
      /\ \A u \in Tables \ {t} : writer_txn'[u] = writer_txn[u]
  BY <1>1, <1>4, <1>6, Zenon
<1>9. WritersLock'
  <2> SUFFICES ASSUME NEW u \in Tables, writer_txn'[u] # 0 PROVE Lock(writer_txn'[u], u, "X") \in locks'
    BY Zenon DEF WritersLock
  <2>1. CASE u = t
    BY <1>5, <1>8, <2>1, Zenon
  <2>2. CASE u # t
    BY <1>4, <1>5, <1>8, <2>2, Zenon DEF WritersLock, Lock
  <2> QED
    BY <2>1, <2>2, Zenon
<1> QED
  BY <1>1, <1>5, <1>6, <1>7, <1>8, <1>9 DEF ExclusiveIn

\* InTransaction: the lock and the writer of the table.
LEMMA LockedWriter ==
    ASSUME SInv, in_txn, NEW t \in Tables, Acquirable(locks, stmt_txn, t, "X"), InTransaction(t)
    PROVE  /\ locks' \subseteq LockSet /\ ExclusiveIn(locks)' /\ LocksOpen' /\ WritersLock'
           /\ writer_txn' \in [Tables -> Nat]
           /\ writer_txn'[t] = own /\ own # 0 /\ writer_txn[t] \in {0, own}
           /\ \A u \in Tables \ {t} : writer_txn'[u] = writer_txn[u]
<1>1. KeepLock(t) /\ writer_txn' = [writer_txn EXCEPT ![t] = own]
  BY Zenon DEF InTransaction
<1>2. writer_txn'[t] = own
  BY <1>1, Zenon DEF SInv, Types
<1> QED
  BY <1>1, <1>2, LockedTable, Zenon

\* The rest of the invariant when the sessions do not change and ids only grow.
LEMMA SameSessions ==
    ASSUME SInv, UNCHANGED <<up, sess, cur_session>>, next_txn' \in Nat, next_txn' >= next_txn
    PROVE  OwnIds' /\ AtRest'
BY DEF SInv, Types, OwnIds, AtRest, DbSession

\* The rest of the invariant when sessions, locks and tables do not change.
LEMMA SameTables ==
    ASSUME SInv, UNCHANGED <<sess, locks, writer_txn, heap, disk>>
    PROVE  ExclusiveIn(locks)' /\ LocksOpen' /\ WritersLock' /\ Differences'
<1>1. ExclusiveIn(locks)'
  BY Zenon DEF SInv, ExclusiveIn
<1>2. LocksOpen'
  BY Zenon DEF SInv, LocksOpen
<1>3. WritersLock'
  BY Zenon DEF SInv, WritersLock
<1>4. Differences'
  BY Zenon DEF SInv, Differences
<1> QED
  BY <1>1, <1>2, <1>3, <1>4, Zenon

\* Autocommit leaves locks and writers alone.
LEMMA OwnCommit ==
    ASSUME SInv, NEW ok, Autocommit(ok)
    PROVE  /\ UNCHANGED <<up, sess, cur_session, locks, writer_txn>>
           /\ next_txn' = next_txn + 1 /\ next_txn' \in Nat \ {0}
           /\ OwnIds' /\ AtRest' /\ ExclusiveIn(locks)' /\ LocksOpen' /\ WritersLock'
<1>1. /\ UNCHANGED <<up, sess, cur_session, locks, writer_txn>>
      /\ next_txn' = next_txn + 1 /\ next_txn' \in Nat \ {0}
  BY DEF Autocommit, SInv, Types
<1>2. OwnIds' /\ AtRest'
  BY <1>1, SameSessions DEF SInv, Types
<1> QED
  BY <1>1, <1>2, Zenon DEF SInv, ExclusiveIn, LocksOpen, WritersLock

\* Write, when the new content differs from the old by versions the statement stamped.
LEMMA WriteKeeps ==
    ASSUME SInv, NEW t \in Tables, NEW h, NEW added, NEW gone, Write(t, h, added, gone),
           \A v \in h : v \in heap[t] \/ stmt_txn \in {v.xmin, v.xmax}
    PROVE  SInv'
<1>1. /\ Acquirable(locks, stmt_txn, t, "X") /\ heap' = [heap EXCEPT ![t] = h]
      /\ UNCHANGED <<created, cat_next>>
  BY Zenon DEF Write
<1>2. heap' = [u \in Tables |-> heap'[u]] /\ heap'[t] = h /\ \A u \in Tables \ {t} : heap'[u] = heap[u]
  BY <1>1, Zenon DEF SInv, Types
<1>3. CASE in_txn
  <2>1. InTransaction(t) /\ disk' = disk
    BY <1>3, Zenon DEF Write
  <2>2. /\ locks' \subseteq LockSet /\ ExclusiveIn(locks)' /\ LocksOpen' /\ WritersLock'
        /\ writer_txn' \in [Tables -> Nat]
        /\ writer_txn'[t] = own /\ own # 0 /\ writer_txn[t] \in {0, own}
        /\ \A u \in Tables \ {t} : writer_txn'[u] = writer_txn[u]
    BY <1>1, <1>3, <2>1, LockedWriter, Zenon
  <2>3. UNCHANGED <<up, sess, cur_session, next_txn>>
    BY <2>1, Zenon DEF InTransaction, KeepLock
  <2>4. OwnIds' /\ AtRest'
    BY <2>3, SameSessions DEF SInv, Types
  <2>5. Types'
    BY <1>1, <1>2, <2>1, <2>2, <2>3, Zenon DEF SInv, Types
  <2>6. Differences'
    <3> SUFFICES ASSUME NEW u \in Tables, NEW v \in heap'[u] \ disk'[u]
                 PROVE  writer_txn'[u] # 0 /\ writer_txn'[u] \in {v.xmin, v.xmax}
      BY Zenon DEF Differences
    <3>1. CASE u # t
      BY <1>2, <2>1, <2>2, <3>1, Zenon DEF SInv, Differences
    <3>2. CASE u = t /\ v \in heap[t]
      BY <1>2, <2>1, <2>2, <3>2, Zenon DEF SInv, Differences
    <3>3. CASE u = t /\ v \notin heap[t]
      BY <1>2, <1>3, <2>2, <3>3, Current, Zenon
    <3> QED
      BY <3>1, <3>2, <3>3, Zenon
  <2> QED
    BY <2>2, <2>4, <2>5, <2>6, Zenon DEF SInv
<1>4. CASE ~in_txn
  <2>1. Autocommit(TRUE) /\ disk' = [disk EXCEPT ![t] = h]
    BY <1>4, Zenon DEF Write
  <2>2. /\ UNCHANGED <<up, sess, cur_session, locks, writer_txn>>
        /\ next_txn' \in Nat \ {0}
        /\ OwnIds' /\ AtRest' /\ ExclusiveIn(locks)' /\ LocksOpen' /\ WritersLock'
    BY <2>1, OwnCommit, Zenon
  <2>3. disk' = [u \in Tables |-> disk'[u]] /\ disk'[t] = h /\ \A u \in Tables \ {t} : disk'[u] = disk[u]
    BY <2>1, Zenon DEF SInv, Types
  <2>4. Types'
    BY <1>1, <1>2, <2>2, <2>3, Zenon DEF SInv, Types
  <2>5. Differences'
    BY <1>2, <2>2, <2>3, Zenon DEF SInv, Differences
  <2> QED
    BY <2>2, <2>4, <2>5, Zenon DEF SInv
<1> QED
  BY <1>3, <1>4, Zenon

--------------------------------------------------------------------------------
(* The actions.                                                                  *)

\* The database the model starts from.
LEMMA InitKeeps == Init => SInv
<1> SUFFICES ASSUME Init PROVE SInv
  BY Zenon
<1>1. NoTxn \in DbSession /\ ~NoTxn.in_txn
  BY Zenon DEF NoTxn, DbSession
<1>2. Types
  BY <1>1, SessionsAssumption DEF Init, Types, InitHeap
<1>3. OwnIds /\ AtRest
  BY <1>1, Zenon DEF Init, OwnIds, AtRest
<1>4. ExclusiveIn(locks) /\ LocksOpen /\ WritersLock /\ Differences
  BY Zenon DEF Init, ExclusiveIn, LocksOpen, WritersLock, Differences
<1> QED
  BY <1>2, <1>3, <1>4, Zenon DEF SInv

\* BEGIN takes the next id, which no open transaction has.
LEMMA BeginKeeps == SInv /\ exec_begin => SInv'
<1> SUFFICES ASSUME SInv, exec_begin PROVE SInv'
  BY Zenon
<1>1. /\ UNCHANGED <<up, cur_session, locks, writer_txn, heap, disk, created, cat_next>>
      /\ up /\ ~in_txn /\ next_txn' = next_txn + 1
  BY Zenon DEF exec_begin, dataVars
<1>2. PICK I \in SUBSET Nat :
         sess' = [sess EXCEPT ![cur_session] =
                     [in_txn |-> TRUE, txn |-> next_txn, snap_next |-> next_txn + 1, snap_inprog |-> I]]
  <2>1. {sess[i].txn : i \in {j \in SessionIds : sess[j].in_txn}} \in SUBSET Nat
    BY Zenon DEF SInv, Types, DbSession
  <2> QED
    BY <2>1, Zenon DEF exec_begin
<1>3. /\ sess' \in [SessionIds -> DbSession]
      /\ sess'[cur_session].in_txn /\ sess'[cur_session].txn = next_txn
      /\ \A s \in SessionIds \ {cur_session} : sess'[s] = sess[s]
  BY <1>2 DEF SInv, Types, DbSession
<1>4. Types'
  BY <1>1, <1>3 DEF SInv, Types
<1>5. OwnIds'
  BY <1>1, <1>3, SMTT(30) DEF SInv, Types, OwnIds, DbSession
<1>6. LocksOpen'
  BY <1>1, <1>3 DEF SInv, LocksOpen, in_txn
<1>7. AtRest' /\ ExclusiveIn(locks)' /\ WritersLock' /\ Differences'
  BY <1>1, Zenon DEF SInv, AtRest, ExclusiveIn, WritersLock, Differences
<1> QED
  BY <1>4, <1>5, <1>6, <1>7, Zenon DEF SInv

\* The end of a transaction, commit or rollback: its locks go, and its tables have no
\* writer and no difference left.
LEMMA EndKeeps ==
    ASSUME SInv, in_txn, EndTxn, heap' = [t \in Tables |-> heap'[t]], disk' = [t \in Tables |-> disk'[t]],
           writer_txn' = [t \in Tables |-> IF writer_txn[t] = own THEN 0 ELSE writer_txn[t]],
           \A t \in Tables : IF writer_txn[t] = own THEN heap'[t] = disk'[t]
                             ELSE heap'[t] = heap[t] /\ disk'[t] = disk[t]
    PROVE  SInv'
<1>1. /\ UNCHANGED <<up, cur_session, next_txn, created, cat_next>>
      /\ locks' = {e \in locks : e.txn # own}
      /\ sess' = [sess EXCEPT ![cur_session] = NoTxn]
  BY Zenon DEF EndTxn, lock_release_all
<1>2. /\ sess' \in [SessionIds -> DbSession] /\ ~sess'[cur_session].in_txn
      /\ \A s \in SessionIds \ {cur_session} : sess'[s] = sess[s]
  BY <1>1, Zenon DEF SInv, Types, DbSession, NoTxn
<1>3. Types'
  BY <1>1, <1>2, Zenon DEF SInv, Types
<1>4. OwnIds' /\ AtRest'
  BY <1>1, <1>2, Zenon DEF SInv, Types, OwnIds, AtRest
<1>5. ExclusiveIn(locks)'
  BY <1>1, Zenon DEF SInv, ExclusiveIn
<1>6. LocksOpen'
  BY <1>1, <1>2, Current, Zenon DEF SInv, LocksOpen
<1>7. WritersLock'
  BY <1>1, Zenon DEF SInv, WritersLock, Lock
<1>8. Differences'
  BY Zenon DEF SInv, Differences
<1> QED
  BY <1>3, <1>4, <1>5, <1>6, <1>7, <1>8, Zenon DEF SInv

\* COMMIT: what the transaction wrote is now in the files.
LEMMA CommitKeeps == SInv /\ exec_commit => SInv'
<1> SUFFICES ASSUME SInv, exec_commit PROVE SInv'
  BY Zenon
<1>1. /\ in_txn /\ EndTxn /\ heap' = heap
      /\ disk' = [t \in Tables |-> IF writer_txn[t] = own THEN heap[t] ELSE disk[t]]
      /\ writer_txn' = [t \in Tables |-> IF writer_txn[t] = own THEN 0 ELSE writer_txn[t]]
  BY Zenon DEF exec_commit, txn_commit_tables
<1>2. heap' = [t \in Tables |-> heap'[t]] /\ disk' = [t \in Tables |-> disk'[t]]
  BY <1>1, Zenon DEF SInv, Types
<1>3. \A t \in Tables : IF writer_txn[t] = own THEN heap'[t] = disk'[t]
                        ELSE heap'[t] = heap[t] /\ disk'[t] = disk[t]
  BY <1>1, Zenon
<1> QED
  BY <1>1, <1>2, <1>3, EndKeeps, Zenon

\* ROLLBACK: what the transaction wrote is gone from the pools.
LEMMA RollbackKeeps == SInv /\ exec_rollback => SInv'
<1> SUFFICES ASSUME SInv, exec_rollback PROVE SInv'
  BY Zenon
<1>1. /\ in_txn /\ EndTxn /\ disk' = disk
      /\ heap' = [t \in Tables |-> IF writer_txn[t] = own THEN disk[t] ELSE heap[t]]
      /\ writer_txn' = [t \in Tables |-> IF writer_txn[t] = own THEN 0 ELSE writer_txn[t]]
  BY Zenon DEF exec_rollback, txn_abort_tables
<1>2. heap' = [t \in Tables |-> heap'[t]] /\ disk' = [t \in Tables |-> disk'[t]]
  BY <1>1, Zenon DEF SInv, Types
<1>3. \A t \in Tables : IF writer_txn[t] = own THEN heap'[t] = disk'[t]
                        ELSE heap'[t] = heap[t] /\ disk'[t] = disk[t]
  BY <1>1, Zenon
<1> QED
  BY <1>1, <1>2, <1>3, EndKeeps, Zenon

\* SESSION, SELECT and writing the catalog.
LEMMA ControlKeeps ==
    ASSUME SInv, Select \/ SaveCatalog \/ \E n \in SessionIds \cup {-1} : Session(n)
    PROVE  SInv'
<1>1. /\ UNCHANGED <<up, sess, next_txn, locks, writer_txn, heap, disk, created>>
      /\ cur_session' \in SessionIds /\ cat_next' \in Nat
  BY Zenon DEF Select, SaveCatalog, Session, dataVars, SInv, Types
<1>2. Types'
  BY <1>1, Zenon DEF SInv, Types
<1>3. OwnIds' /\ AtRest'
  BY <1>1, Zenon DEF SInv, OwnIds, AtRest
<1> QED
  BY <1>1, <1>2, <1>3, SameTables, Zenon DEF SInv

\* INSERT adds a version with the statement's xmin.
LEMMA InsertKeeps == ASSUME SInv, NEW t \in Tables, exec_insert(t) PROVE SInv'
<1> DEFINE h == heap[t] \cup {[id |-> nid, row |-> nid, xmin |-> stmt_txn, xmax |-> 0]}
<1>1. Write(t, h, {nid}, {})
  BY Zenon DEF exec_insert
<1>2. ASSUME NEW v \in h PROVE v \in heap[t] \/ stmt_txn \in {v.xmin, v.xmax}
  <2>1. v \in heap[t] \/ v = [id |-> nid, row |-> nid, xmin |-> stmt_txn, xmax |-> 0]
    BY Zenon
  <2> QED
    BY <2>1
<1> HIDE DEF h
<1> QED
  BY <1>1, <1>2, WriteKeeps, Zenon

\* A version that stamp_xmax changes bears the stamp.
LEMMA Stamped ==
    ASSUME NEW V, NEW S, NEW x
    PROVE  \A v \in stamp_xmax(V, S, x) : v \in V \/ x \in {v.xmin, v.xmax}
<1> SUFFICES ASSUME NEW v \in stamp_xmax(V, S, x), v \notin V PROVE x \in {v.xmin, v.xmax}
  BY Zenon
<1>1. PICK w \in S : v = [id |-> w.id, row |-> w.row, xmin |-> w.xmin, xmax |-> x]
  BY Zenon DEF stamp_xmax
<1> QED
  BY <1>1, Zenon

\* DELETE stamps versions.
LEMMA DeleteKeeps == ASSUME SInv, NEW t \in Tables, exec_delete(t) PROVE SInv'
<1>1. PICK S \in SUBSET Visible(cur_session, t, stmt_txn) :
         Write(t, stamp_xmax(heap[t], S, stmt_txn), {}, Ids(S))
  BY Zenon DEF exec_delete
<1> QED
  BY <1>1, Stamped, WriteKeeps

\* UPDATE stamps versions and adds their successors.
LEMMA UpdateKeeps == ASSUME SInv, NEW t \in Tables, exec_update(t) PROVE SInv'
<1>1. PICK S \in SUBSET Visible(cur_session, t, stmt_txn) :
         LET num(v) == nid + Cardinality({u \in S : u.id < v.id})
             new == {[id |-> num(v), row |-> v.row, xmin |-> stmt_txn, xmax |-> 0] : v \in S}
         IN  Write(t, stamp_xmax(heap[t], S, stmt_txn) \cup new, Ids(new), Ids(S))
  BY Zenon DEF exec_update
<1> DEFINE num(v) == nid + Cardinality({u \in S : u.id < v.id})
           new == {[id |-> num(v), row |-> v.row, xmin |-> stmt_txn, xmax |-> 0] : v \in S}
<1>2. Write(t, stamp_xmax(heap[t], S, stmt_txn) \cup new, Ids(new), Ids(S))
  BY <1>1, Zenon
<1> HIDE DEF num
<1>3. ASSUME NEW v \in new PROVE v.xmin = stmt_txn
  <2>1. PICK w \in S : v = [id |-> num(w), row |-> w.row, xmin |-> stmt_txn, xmax |-> 0]
    BY Zenon
  <2> QED
    BY <2>1, Zenon
<1> HIDE DEF new
<1>4. \A v \in stamp_xmax(heap[t], S, stmt_txn) \cup new :
         v \in heap[t] \/ stmt_txn \in {v.xmin, v.xmax}
  BY <1>3, Stamped, Zenon
<1> QED
  BY <1>2, <1>4, WriteKeeps, Zenon

\* A statement that fails in a transaction leaves the table locked, and unchanged; it
\* may have opened the table's write transaction.
LEMMA FailsOpen ==
    ASSUME NEW t \in Tables, StatementFails(t), in_txn
    PROVE  /\ KeepLock(t)
           /\ writer_txn' = writer_txn \/ writer_txn' = [writer_txn EXCEPT ![t] = own]
BY Zenon DEF StatementFails, InTransaction

LEMMA FailsKeeps == ASSUME SInv, NEW t \in Tables, StatementFails(t) PROVE SInv'
<1>1. Acquirable(locks, stmt_txn, t, "X") /\ UNCHANGED <<heap, disk, created, cat_next>>
  BY Zenon DEF StatementFails
<1>2. CASE in_txn
  <2>1. KeepLock(t) /\ (writer_txn' = writer_txn \/ writer_txn' = [writer_txn EXCEPT ![t] = own])
    BY <1>2, FailsOpen, Zenon
  <2>2. /\ locks' \subseteq LockSet /\ ExclusiveIn(locks)' /\ LocksOpen' /\ WritersLock'
        /\ writer_txn' \in [Tables -> Nat] /\ own # 0 /\ writer_txn[t] \in {0, own}
        /\ writer_txn'[t] \in {writer_txn[t], own}
        /\ \A u \in Tables \ {t} : writer_txn'[u] = writer_txn[u]
    BY <1>1, <1>2, <2>1, LockedTable, Zenon
  <2>3. UNCHANGED <<up, sess, cur_session, next_txn>>
    BY <2>1, Zenon DEF KeepLock
  <2>4. OwnIds' /\ AtRest'
    BY <2>3, SameSessions DEF SInv, Types
  <2>5. Types'
    BY <1>1, <2>2, <2>3, Zenon DEF SInv, Types
  <2>6. Differences'
    BY <1>1, <2>2, Zenon DEF SInv, Differences
  <2> QED
    BY <2>2, <2>4, <2>5, <2>6, Zenon DEF SInv
<1>3. CASE ~in_txn
  <2>1. Autocommit(FALSE)
    BY <1>3, Zenon DEF StatementFails
  <2>2. /\ UNCHANGED <<up, sess, cur_session, locks, writer_txn>> /\ next_txn' \in Nat \ {0}
        /\ OwnIds' /\ AtRest' /\ ExclusiveIn(locks)' /\ LocksOpen' /\ WritersLock'
    BY <2>1, OwnCommit, Zenon
  <2>3. Types'
    BY <1>1, <2>2, Zenon DEF SInv, Types
  <2>4. Differences'
    BY <1>1, <2>2, Zenon DEF SInv, Differences
  <2> QED
    BY <1>1, <2>2, <2>3, <2>4, Zenon DEF SInv
<1> QED
  BY <1>2, <1>3, Zenon

\* A statement that is refused leaves locks and tables alone.
LEMMA RefusedKeeps == SInv /\ StatementRefused => SInv'
<1> SUFFICES ASSUME SInv, StatementRefused PROVE SInv'
  BY Zenon
<1>1. UNCHANGED <<heap, disk, created, cat_next>>
  BY Zenon DEF StatementRefused
<1>2. CASE in_txn
  <2>1. UNCHANGED <<up, sess, cur_session, next_txn, locks, writer_txn>>
    BY <1>2, Zenon DEF StatementRefused
  <2>2. Types'
    BY <1>1, <2>1, Zenon DEF SInv, Types
  <2>3. OwnIds' /\ AtRest'
    BY <2>1, Zenon DEF SInv, OwnIds, AtRest
  <2> QED
    BY <1>1, <2>1, <2>2, <2>3, SameTables, Zenon DEF SInv
<1>3. CASE ~in_txn
  <2>1. Autocommit(FALSE)
    BY <1>3, Zenon DEF StatementRefused
  <2>2. /\ UNCHANGED <<up, sess, cur_session, locks, writer_txn>> /\ next_txn' \in Nat \ {0}
        /\ OwnIds' /\ AtRest' /\ ExclusiveIn(locks)' /\ LocksOpen' /\ WritersLock'
    BY <2>1, OwnCommit, Zenon
  <2>3. Types'
    BY <1>1, <2>2, Zenon DEF SInv, Types
  <2>4. Differences'
    BY <1>1, <2>2, Zenon DEF SInv, Differences
  <2> QED
    BY <1>1, <2>2, <2>3, <2>4, Zenon DEF SInv
<1> QED
  BY <1>2, <1>3, Zenon

\* A CREATE that is refused uses an id up.
LEMMA CreateRefusedKeeps == SInv /\ CreateRefused => SInv'
<1> SUFFICES ASSUME SInv, CreateRefused PROVE SInv'
  BY Zenon
<1>1. Autocommit(FALSE) /\ UNCHANGED <<heap, disk, created, cat_next>>
  BY Zenon DEF CreateRefused
<1>2. /\ UNCHANGED <<up, sess, cur_session, locks, writer_txn>> /\ next_txn' \in Nat \ {0}
      /\ OwnIds' /\ AtRest' /\ ExclusiveIn(locks)' /\ LocksOpen' /\ WritersLock'
  BY <1>1, OwnCommit, Zenon
<1>3. Types'
  BY <1>1, <1>2, Zenon DEF SInv, Types
<1>4. Differences'
  BY <1>1, <1>2, Zenon DEF SInv, Differences
<1> QED
  BY <1>2, <1>3, <1>4, Zenon DEF SInv

\* CREATE adds an empty table, in the pool and on disk.
LEMMA CreateKeeps == ASSUME SInv, NEW t \in Tables, exec_create(t) PROVE SInv'
<1>1. /\ Autocommit(TRUE) /\ created' = created \cup {t} /\ cat_next' = next_txn + 1
      /\ heap' = [heap EXCEPT ![t] = {}] /\ disk' = [disk EXCEPT ![t] = {}]
  BY Zenon DEF exec_create
<1>2. /\ UNCHANGED <<up, sess, cur_session, locks, writer_txn>> /\ next_txn' \in Nat \ {0}
      /\ OwnIds' /\ AtRest' /\ ExclusiveIn(locks)' /\ LocksOpen' /\ WritersLock'
  BY <1>1, OwnCommit, Zenon
<1>3. Types'
  <2>1. heap' = [u \in Tables |-> heap'[u]]
    BY <1>1, Zenon DEF SInv, Types
  <2>2. disk' = [u \in Tables |-> disk'[u]]
    BY <1>1, Zenon DEF SInv, Types
  <2> QED
    BY <1>1, <1>2, <2>1, <2>2 DEF SInv, Types
<1>4. Differences'
  BY <1>1, <1>2, Zenon DEF SInv, Types, Differences
<1> QED
  BY <1>2, <1>3, <1>4, Zenon DEF SInv

\* Without an open transaction there is no lock, no writer and no difference.
LEMMA Quiet ==
    ASSUME SInv, \A s \in SessionIds : ~sess[s].in_txn
    PROVE  \A t \in Tables : writer_txn[t] = 0 /\ heap[t] \subseteq disk[t]
BY Zenon DEF SInv, LocksOpen, WritersLock, Differences

\* VACUUM runs only without open transactions, so that no table has a writer.
LEMMA VacuumKeeps == ASSUME SInv, NEW T, exec_vacuum(T) PROVE SInv'
<1>1. /\ Autocommit(TRUE) /\ UNCHANGED <<created, cat_next>>
      /\ \A s \in SessionIds : ~sess[s].in_txn
      /\ heap' = [t \in Tables |-> IF t \in T THEN {v \in heap[t] : ~rec_dead(v)} ELSE heap[t]]
      /\ disk' = [t \in Tables |-> IF t \in T THEN heap'[t] ELSE disk[t]]
  BY Zenon DEF exec_vacuum
<1>2. /\ UNCHANGED <<up, sess, cur_session, locks, writer_txn>> /\ next_txn' \in Nat \ {0}
      /\ OwnIds' /\ AtRest' /\ ExclusiveIn(locks)' /\ LocksOpen' /\ WritersLock'
  BY <1>1, OwnCommit, Zenon
<1>3. Types'
  BY <1>1, <1>2, Zenon DEF SInv, Types
<1>4. \A t \in Tables : heap'[t] \subseteq disk'[t]
  BY <1>1, Quiet, Zenon
<1>5. Differences'
  BY <1>4, Zenon DEF Differences
<1> QED
  BY <1>2, <1>3, <1>5, Zenon DEF SInv

\* The end of the process, once the tables are what their files hold.
LEMMA LoseKeeps ==
    ASSUME SInv, LoseMemory, cat_next' \in Nat, heap' = [t \in Tables |-> heap'[t]],
           disk' = [t \in Tables |-> disk'[t]], writer_txn' = [t \in Tables |-> 0],
           \A t \in Tables : heap'[t] \subseteq disk'[t]
    PROVE  SInv'
<1>1. /\ up' = FALSE /\ sess' = [s \in SessionIds |-> NoTxn] /\ cur_session' = 0 /\ locks' = {}
      /\ UNCHANGED <<next_txn, created>>
  BY Zenon DEF LoseMemory
<1>2. NoTxn \in DbSession /\ ~NoTxn.in_txn
  BY Zenon DEF NoTxn, DbSession
<1>3. Types'
  BY <1>1, <1>2, SessionsAssumption, Zenon DEF SInv, Types
<1>4. OwnIds' /\ AtRest'
  BY <1>1, <1>2, Zenon DEF OwnIds, AtRest
<1>5. ExclusiveIn(locks)' /\ LocksOpen'
  BY <1>1, Zenon DEF ExclusiveIn, LocksOpen
<1>6. WritersLock' /\ Differences'
  BY Zenon DEF WritersLock, Differences
<1> QED
  BY <1>3, <1>4, <1>5, <1>6, Zenon DEF SInv

\* db_close rolls back every writer: each holds a lock, and each lock belongs to an open
\* transaction.
LEMMA CloseKeeps == SInv /\ db_close => SInv'
<1> SUFFICES ASSUME SInv, db_close PROVE SInv'
  BY Zenon
<1> DEFINE X == {Own(s) : s \in {r \in SessionIds : sess[r].in_txn}}
<1>1. /\ LoseMemory /\ cat_next' = next_txn /\ disk' = disk
      /\ heap' = [t \in Tables |-> IF writer_txn[t] \in X THEN disk[t] ELSE heap[t]]
      /\ writer_txn' = [t \in Tables |-> IF writer_txn[t] \in X THEN 0 ELSE writer_txn[t]]
  BY Zenon DEF db_close, txn_abort_tables
<1>2. ASSUME NEW t \in Tables, writer_txn[t] # 0 PROVE writer_txn[t] \in X
  <2>1. PICK s \in SessionIds : sess[s].in_txn /\ sess[s].txn = writer_txn[t]
    BY <1>2, Zenon DEF SInv, WritersLock, LocksOpen, Lock
  <2> QED
    BY <2>1, Zenon DEF Own
<1> HIDE DEF X
<1>3. writer_txn' = [t \in Tables |-> 0]
  BY <1>1, <1>2, Zenon
<1>4. \A t \in Tables : heap'[t] \subseteq disk'[t]
  BY <1>1, <1>2, Zenon DEF SInv, Differences
<1>5. cat_next' \in Nat /\ heap' = [t \in Tables |-> heap'[t]] /\ disk' = [t \in Tables |-> disk'[t]]
  BY <1>1, Zenon DEF SInv, Types
<1> QED
  BY <1>1, <1>3, <1>4, <1>5, LoseKeeps, Zenon

\* A crash: the pools are read from the files again.
LEMMA CrashKeeps == SInv /\ Crash => SInv'
<1> SUFFICES ASSUME SInv, Crash PROVE SInv'
  BY Zenon
<1>1. LoseMemory /\ UNCHANGED <<disk, cat_next>> /\ heap' = disk /\ writer_txn' = [t \in Tables |-> 0]
  BY Zenon DEF Crash
<1> QED
  BY <1>1, LoseKeeps, Zenon DEF SInv, Types

\* db_open starts from next_txn of the catalog; no transaction is open that could have
\* an id not below it.
LEMMA OpenKeeps == SInv /\ db_open => SInv'
<1> SUFFICES ASSUME SInv, db_open PROVE SInv'
  BY Zenon
<1>1. /\ ~up /\ up' = TRUE /\ next_txn' = IF cat_next > 1 THEN cat_next ELSE 1
      /\ UNCHANGED <<sess, cur_session, locks, writer_txn, heap, disk, created, cat_next>>
  BY Zenon DEF db_open, dataVars
<1>2. next_txn' \in Nat \ {0}
  BY <1>1 DEF SInv, Types
<1>3. Types'
  BY <1>1, <1>2, Zenon DEF SInv, Types
<1>4. OwnIds' /\ AtRest'
  BY <1>1, Zenon DEF SInv, OwnIds, AtRest
<1> QED
  BY <1>1, <1>3, <1>4, SameTables, Zenon DEF SInv

--------------------------------------------------------------------------------
(* The theorems.                                                                 *)

\* The invariant is inductive: every statement, the end of every transaction, close,
\* crash and open keep it.
THEOREM SessionsInvariance == Spec => []SInv
<1>1. SInv /\ [Next]_vars => SInv'
  <2> SUFFICES ASSUME SInv, [Next]_vars PROVE SInv'
    BY Zenon
  <2>1. CASE exec_begin \/ exec_commit \/ exec_rollback
    BY <2>1, BeginKeeps, CommitKeeps, RollbackKeeps, Zenon
  <2>2. CASE Select \/ SaveCatalog \/ \E n \in SessionIds \cup {-1} : Session(n)
    BY <2>2, ControlKeeps, Zenon
  <2>3. ASSUME NEW t \in Tables,
               \/ exec_insert(t) \/ exec_delete(t) \/ exec_update(t)
               \/ StatementFails(t) \/ exec_create(t)
        PROVE  SInv'
    BY <2>3, InsertKeeps, DeleteKeeps, UpdateKeeps, FailsKeeps, CreateKeeps, Zenon
  <2>4. CASE StatementRefused \/ CreateRefused
    BY <2>4, RefusedKeeps, CreateRefusedKeeps, Zenon
  <2>5. ASSUME NEW T, exec_vacuum(T) PROVE SInv'
    BY <2>5, VacuumKeeps, Zenon
  <2>6. CASE db_close \/ Crash \/ db_open
    BY <2>6, CloseKeeps, CrashKeeps, OpenKeeps, Zenon
  <2>7. CASE UNCHANGED vars
    <3>1. UNCHANGED <<up, sess, cur_session, next_txn, locks, writer_txn, heap, disk, created, cat_next>>
      BY <2>7, Zenon DEF vars, txnVars, dataVars
    <3>2. Types'
      BY <3>1, Zenon DEF SInv, Types
    <3>3. OwnIds' /\ AtRest'
      BY <3>1, Zenon DEF SInv, OwnIds, AtRest
    <3> QED
      BY <3>1, <3>2, <3>3, SameTables, Zenon DEF SInv
  <2> QED
    BY <2>1, <2>2, <2>3, <2>4, <2>5, <2>6, <2>7, Zenon DEF Next
<1> QED
  BY <1>1, InitKeeps, PTL DEF Spec

\* One writer per table (db_exec's X lock, table_begin_write and its end): for any
\* number of sessions, tables, transactions and crashes, a table's pool differs from
\* its file only by what the one transaction that holds its exclusive lock has done.
THEOREM OneWriterAlways == Spec => []OneWriter
<1>1. SInv => OneWriter
  BY Zenon DEF SInv, OneWriter, LocksOpen, WritersLock, Differences
<1> QED
  BY <1>1, SessionsInvariance, PTL

--------------------------------------------------------------------------------
(* The stored versions.                                                          *)

\* Steps that only copy or drop versions: the end of a transaction, VACUUM, close and
\* crash, and every step that leaves the tables alone.
LEMMA CopiesKeep ==
    ASSUME Stored, nid' = nid, created \subseteq created',
           \A t \in Tables : /\ heap'[t] \subseteq heap[t] \/ heap'[t] \subseteq disk[t]
                             /\ disk'[t] \subseteq heap[t] \/ disk'[t] \subseteq disk[t]
    PROVE  Shape' /\ Unique'
<1>1. /\ \A t \in Tables : \A v \in heap[t] \cup disk[t] : v.id < nid /\ v.xmin > 0
      /\ \A t \in Tables \ created : heap[t] = {} /\ disk[t] = {}
  BY Zenon DEF Stored, Shape
<1>3. \A t \in Tables : \A v \in heap'[t] \cup disk'[t] : v.id < nid' /\ v.xmin > 0
  BY <1>1, Zenon
<1>4. \A t \in Tables \ created' : heap'[t] = {} /\ disk'[t] = {}
  BY <1>1, Zenon
<1>5. Unique'
  <2> SUFFICES ASSUME NEW t \in Tables, NEW u \in Tables
               PROVE  /\ \A v \in heap'[t], w \in heap'[u] : v.id = w.id => t = u /\ v = w
                      /\ \A v \in disk'[t], w \in disk'[u] : v.id = w.id => t = u /\ v = w
                      /\ \A v \in heap'[t], w \in disk'[u] : v.id = w.id => t = u /\ v.xmin = w.xmin
    BY Zenon DEF Unique
  <2>1. /\ \A v \in heap[t], w \in heap[u] : v.id = w.id => t = u /\ v = w
        /\ \A v \in disk[t], w \in disk[u] : v.id = w.id => t = u /\ v = w
        /\ \A v \in heap[t], w \in disk[u] : v.id = w.id => t = u /\ v.xmin = w.xmin
        /\ \A v \in heap[u], w \in disk[t] : v.id = w.id => t = u /\ v.xmin = w.xmin
    BY DEF Stored, Unique
  <2> QED
    BY <2>1
<1> QED
  BY <1>3, <1>4, <1>5, Zenon DEF Shape

\* The database the model starts from.
LEMMA StoredInit == Init => Stored
<1> SUFFICES ASSUME Init PROVE Stored
  BY Zenon
<1> DEFINE r == [id |-> 1, row |-> 1, xmin |-> 2, xmax |-> 0]
<1>1. r \in Version /\ r.id < 2 /\ r.xmin > 0
  BY DEF Version
<1>2. heap = disk /\ heap = [t \in Tables |-> IF t = InitTable THEN {r} ELSE {}]
  BY Zenon DEF Init, InitHeap
<1>3. NoTxn \in DbSession
  BY Zenon DEF NoTxn, DbSession
<1>4. SInv
  BY InitKeeps, Zenon
<1> HIDE DEF r
<1>5. TypeOK
  <2>1. heap \in [Tables -> SUBSET Version] /\ disk \in [Tables -> SUBSET Version]
    BY <1>1, <1>2, Zenon
  <2> QED
    BY <1>3, <2>1, SessionsAssumption DEF Init, TypeOK
<1>7. nid = 2 /\ created = {InitTable}
  BY Zenon DEF Init
<1>8. Shape
  BY <1>1, <1>2, <1>7, Zenon DEF Shape
<1>9. Unique
  BY <1>2 DEF Unique
<1> QED
  BY <1>4, <1>5, <1>8, <1>9, Zenon DEF Stored

--------------------------------------------------------------------------------
(* Statements that write.                                                        *)

\* What such a statement leaves in its table: versions it did not touch, versions it
\* stamped, and new ones.
LEMMA ResultHas ==
    ASSUME NEW t, NEW S, NEW new, S \subseteq heap[t]
    PROVE  /\ \A v \in Result(t, S, new) : \/ v \in heap[t] /\ v \notin S
                                           \/ \E u \in S : v = Stamp(u, stmt_txn)
                                           \/ v \in new
           /\ \A u \in heap[t] : u \notin S => u \in Result(t, S, new)
           /\ \A u \in S : Stamp(u, stmt_txn) \in Result(t, S, new)
           /\ new \subseteq Result(t, S, new)
BY Zenon DEF Result, stamp_xmax, Stamp

\* The result is well formed, and numbers still name one version.
LEMMA ResultShape ==
    ASSUME Stored, NEW t \in Tables, NEW S, NEW new, Written(t, S, new)
    PROVE  /\ nid' \in Nat /\ nid' >= nid
           /\ Result(t, S, new) \subseteq Version
           /\ \A v \in Result(t, S, new) : v.id < nid' /\ v.xmin > 0
           /\ \A v, w \in Result(t, S, new) : v.id = w.id => v = w
           /\ \A v \in Result(t, S, new) : v.id < nid => \E u \in heap[t] : u.id = v.id /\ u.xmin = v.xmin
<1>1. /\ S \subseteq heap[t] /\ new \subseteq Version /\ nid' \in Nat /\ nid <= nid'
      /\ \A v \in new : v.xmin = stmt_txn /\ v.xmax = 0 /\ nid <= v.id /\ v.id < nid'
      /\ \A v, w \in new : v.id = w.id => v = w
  BY Zenon DEF Written
<1>2. nid \in Nat /\ stmt_txn \in Nat /\ stmt_txn > 0
  BY Current DEF Stored, TypeOK, SInv, Types
<1>3. /\ heap[t] \subseteq Version
      /\ \A v \in heap[t] : v.id < nid /\ v.xmin > 0
      /\ \A v, w \in heap[t] : v.id = w.id => v = w
  BY DEF Stored, TypeOK, Shape, Unique
<1>5. nid' \in Nat /\ nid' >= nid
  BY <1>1, <1>2, Zenon
<1>6. \A u \in S : /\ Stamp(u, stmt_txn) \in Version /\ Stamp(u, stmt_txn).id = u.id
                   /\ Stamp(u, stmt_txn).xmin = u.xmin
  BY <1>1, <1>2, <1>3, Zenon DEF Stamp, Version
<1> DEFINE h == Result(t, S, new)
<1>7. \A v \in h : \/ v \in heap[t] /\ v \notin S
                   \/ \E u \in S : v = Stamp(u, stmt_txn)
                   \/ v \in new
  BY <1>1, ResultHas, Zenon
<1> HIDE DEF h
<1>9. h \subseteq Version
  BY <1>1, <1>3, <1>6, <1>7, Zenon
<1>10. \A v \in h : v.id < nid' /\ v.xmin > 0
  <2> SUFFICES ASSUME NEW v \in h PROVE v.id < nid' /\ v.xmin > 0
    BY Zenon
  <2>1. \A u \in heap[t] : u.id \in Nat
    BY <1>3, Zenon DEF Version
  <2>2. CASE v \in heap[t]
    BY <1>2, <1>3, <1>5, <2>1, <2>2
  <2>3. CASE \E u \in S : v = Stamp(u, stmt_txn)
    <3>1. PICK u \in S : v = Stamp(u, stmt_txn)
      BY <2>3, Zenon
    <3>2. v.id = u.id /\ v.xmin = u.xmin /\ u \in heap[t]
      BY <1>1, <1>6, <3>1, Zenon
    <3> QED
      BY <1>2, <1>3, <1>5, <2>1, <3>2
  <2>4. CASE v \in new
    BY <1>1, <1>2, <2>4, Zenon
  <2> QED
    BY <1>7, <2>2, <2>3, <2>4, Zenon
<1>11. \A v \in h : v.id < nid => \E u \in heap[t] : u.id = v.id /\ u.xmin = v.xmin
  <2>1. \A v \in new : ~(v.id < nid)
    BY <1>1, <1>2 DEF Version
  <2> QED
    BY <1>1, <1>6, <1>7, <2>1
<1>12. ASSUME NEW v \in h, NEW w \in h, v.id = w.id PROVE v = w
  <2>1. \A a \in heap[t], b \in new : a.id # b.id
    BY <1>1, <1>2, <1>3 DEF Version
  <2>2. CASE v \in new \/ w \in new
    BY <1>1, <1>6, <1>7, <1>12, <2>1, <2>2
  <2>3. CASE v \notin new /\ w \notin new
    BY <1>1, <1>3, <1>6, <1>7, <1>12, <2>3
  <2> QED
    BY <2>2, <2>3, Zenon
<1> QED
  BY <1>5, <1>9, <1>10, <1>11, <1>12, Zenon DEF h

\* Where it leaves it: in the pool, and in the file when the statement commits.
LEMMA WrittenTables ==
    ASSUME Stored, NEW t \in Tables, NEW S, NEW new, Written(t, S, new)
    PROVE  /\ heap'[t] = Result(t, S, new)
           /\ disk'[t] = IF in_txn THEN disk[t] ELSE Result(t, S, new)
           /\ \A u \in Tables \ {t} : heap'[u] = heap[u] /\ disk'[u] = disk[u]
           /\ heap' \in [Tables -> SUBSET Version] /\ disk' \in [Tables -> SUBSET Version]
<1>1. heap \in [Tables -> SUBSET Version] /\ disk \in [Tables -> SUBSET Version]
  BY Zenon DEF Stored, TypeOK
<1>2. Result(t, S, new) \subseteq Version
  BY ResultShape, Zenon
<1>3. /\ heap' = [heap EXCEPT ![t] = Result(t, S, new)]
      /\ disk' = IF in_txn THEN disk ELSE [disk EXCEPT ![t] = Result(t, S, new)]
  BY Zenon DEF Written, Write, Result
<1> QED
  BY <1>1, <1>2, <1>3, Zenon

\* So numbers still name one version of every pool and of every file.
LEMMA WriteShape ==
    ASSUME Stored, NEW t \in Tables, NEW S, NEW new, Written(t, S, new)
    PROVE  Shape' /\ Unique'
<1> DEFINE h == Result(t, S, new)
<1>1. /\ heap'[t] = h /\ disk'[t] \in {disk[t], h}
      /\ \A u \in Tables \ {t} : heap'[u] = heap[u] /\ disk'[u] = disk[u]
  BY WrittenTables, Zenon
<1>2. /\ nid' \in Nat /\ nid' >= nid /\ h \subseteq Version
      /\ \A v \in h : v.id < nid' /\ v.xmin > 0
      /\ \A v, w \in h : v.id = w.id => v = w
      /\ \A v \in h : v.id < nid => \E u \in heap[t] : u.id = v.id /\ u.xmin = v.xmin
  BY ResultShape, Zenon
<1> HIDE DEF h
<1>3. t \in created /\ created' = created /\ nid \in Nat
  BY Zenon DEF Written, Write, Stored, TypeOK
<1>4. /\ \A u \in Tables : \A v \in heap[u] \cup disk[u] : v.id < nid /\ v.xmin > 0 /\ v.id \in Nat
      /\ \A u \in Tables \ created : heap[u] = {} /\ disk[u] = {}
  BY DEF Stored, Shape, TypeOK, Version
<1>5. Shape'
  <2>2. ASSUME NEW u \in Tables, NEW v \in heap'[u] \cup disk'[u] PROVE v.id < nid' /\ v.xmin > 0
    <3>1. v \in h \/ v \in heap[u] \cup disk[u]
      BY <1>1, Zenon
    <3>2. CASE v \in h
      BY <1>2, <3>2, Zenon
    <3>3. CASE v \in heap[u] \cup disk[u]
      BY <1>2, <1>3, <1>4, <3>3
    <3> QED
      BY <3>1, <3>2, <3>3, Zenon
  <2> QED
    BY <1>1, <1>3, <1>4, <2>2, Zenon DEF Shape
<1>6. Unique'
  <2>1. \A u \in Tables : \A v \in h : \A w \in heap[u] \cup disk[u] :
           v.id = w.id => u = t /\ v.xmin = w.xmin
    <3> SUFFICES ASSUME NEW u \in Tables, NEW v \in h, NEW w \in heap[u] \cup disk[u], v.id = w.id
                 PROVE  u = t /\ v.xmin = w.xmin
      BY Zenon
    <3>1. v.id < nid
      BY <1>4, Zenon
    <3>2. PICK a \in heap[t] : a.id = v.id /\ a.xmin = v.xmin
      BY <1>2, <3>1, Zenon
    <3> QED
      BY <3>2 DEF Stored, Unique
  <2>2. \A a, u \in Tables :
          /\ \A v \in heap[a], w \in heap[u] : v.id = w.id => a = u /\ v = w
          /\ \A v \in disk[a], w \in disk[u] : v.id = w.id => a = u /\ v = w
          /\ \A v \in heap[a], w \in disk[u] : v.id = w.id => a = u /\ v.xmin = w.xmin
    BY Zenon DEF Stored, Unique
  <2> SUFFICES ASSUME NEW a \in Tables, NEW u \in Tables
               PROVE  /\ \A v \in heap'[a], w \in heap'[u] : v.id = w.id => a = u /\ v = w
                      /\ \A v \in disk'[a], w \in disk'[u] : v.id = w.id => a = u /\ v = w
                      /\ \A v \in heap'[a], w \in disk'[u] : v.id = w.id => a = u /\ v.xmin = w.xmin
    BY Zenon DEF Unique
  <2>3. CASE a = t /\ u = t
    BY <1>1, <1>2, <2>1, <2>2, <2>3
  <2>4. CASE a # t /\ u # t
    BY <1>1, <2>2, <2>4
  <2>5. CASE a = t /\ u # t
    BY <1>1, <2>1, <2>2, <2>5
  <2>6. CASE a # t /\ u = t
    BY <1>1, <2>1, <2>2, <2>6
  <2> QED
    BY <2>3, <2>4, <2>5, <2>6, Zenon
<1> QED
  BY <1>5, <1>6, Zenon

--------------------------------------------------------------------------------
(* Every step keeps the types and the shape of what is stored.                   *)

\* The types that SInv leaves open.
Values ==
    /\ cur_txn \in Nat /\ committed_below \in Nat /\ txnlog \subseteq Nat
    /\ heap \in [Tables -> SUBSET Version] /\ disk \in [Tables -> SUBSET Version]
    /\ nid \in Nat \ {0} /\ crashes \in Nat
    /\ live \subseteq Nat /\ clobbered \subseteq Nat
    /\ begun \in [SessionIds -> SUBSET Nat]
    /\ ins \in [SessionIds -> SUBSET Nat] /\ del \in [SessionIds -> SUBSET Nat]

\* Given SInv, the type invariant is what SInv leaves open.
LEMMA TypesAre == SInv => (TypeOK <=> Values)
BY Zenon DEF SInv, Types, TypeOK, Values, LockSet

\* The types of what the steps below read.
LEMMA StoredParts ==
    ASSUME Stored
    PROVE  Values /\ own \in Nat /\ next_txn \in Nat /\ stmt_txn \in Nat /\ cur_session \in SessionIds
BY TypesAre, Current, Zenon DEF Stored, SInv, Types

\* Version numbers are naturals.
LEMMA IdsNat == ASSUME NEW V, V \subseteq Version PROVE Ids(V) \subseteq Nat
BY Zenon DEF Ids, Version

\* Steps that leave the tables alone.
LEMMA StoredQuiet ==
    ASSUME Stored, SInv', Values', nid' = nid, created \subseteq created', heap' = heap, disk' = disk
    PROVE  Stored'
<1>1. Shape' /\ Unique'
  BY CopiesKeep, Zenon
<1>2. TypeOK'
  BY TypesAre, PTL
<1> QED
  BY <1>1, <1>2, Zenon DEF Stored

\* The bookkeeping of a statement's own transaction.
LEMMA AutocommitValues ==
    ASSUME Stored, NEW ok, Autocommit(ok)
    PROVE  cur_txn' \in Nat /\ committed_below' \in Nat /\ txnlog' \subseteq Nat /\ crashes' \in Nat
BY StoredParts, Zenon DEF Autocommit, Values, txnlog_commit, txnlog_abort

\* SESSION, SELECT, writing the catalog.
LEMMA StoredControl ==
    ASSUME Stored, SInv', Select \/ SaveCatalog \/ \E n \in SessionIds \cup {-1} : Session(n)
    PROVE  Stored'
<1>1. /\ UNCHANGED <<committed_below, txnlog, heap, disk, created, nid, crashes>>
      /\ UNCHANGED <<live, begun, ins, del, clobbered>> /\ cur_txn' = own
  BY Zenon DEF Select, SaveCatalog, Session, dataVars, ghostVars
<1>2. Values'
  BY <1>1, StoredParts, Zenon DEF Values
<1> QED
  BY <1>1, <1>2, StoredQuiet, Zenon

\* BEGIN.
LEMMA StoredBegin == ASSUME Stored, SInv', exec_begin PROVE Stored'
<1>1. /\ UNCHANGED <<committed_below, heap, disk, created, nid, crashes, live, clobbered>>
      /\ txnlog' = txnlog \ {next_txn} /\ cur_txn' = next_txn
      /\ begun' = [begun EXCEPT ![cur_session] = View(cur_session, 0)]
      /\ ins' = [ins EXCEPT ![cur_session] = {}] /\ del' = [del EXCEPT ![cur_session] = {}]
  BY Zenon DEF exec_begin, dataVars, txnlog_abort
<1>2. View(cur_session, 0) \subseteq Nat
  <2>1. \A t \in created : Visible(cur_session, t, 0) \subseteq Version
    BY Zenon DEF Visible, Stored, TypeOK
  <2>2. \A t \in created : Ids(Visible(cur_session, t, 0)) \subseteq Nat
    BY <2>1, IdsNat, Zenon
  <2> QED
    BY <2>2, Zenon DEF View
<1>3. Values'
  BY <1>1, <1>2, StoredParts, Zenon DEF Values
<1> QED
  BY <1>1, <1>3, StoredQuiet, Zenon

\* COMMIT and ROLLBACK.
LEMMA StoredEnd == ASSUME Stored, SInv', exec_commit \/ exec_rollback PROVE Stored'
<1>1. /\ UNCHANGED <<committed_below, created, nid, crashes, clobbered>> /\ cur_txn' = 0
      /\ begun' = [begun EXCEPT ![cur_session] = {}]
      /\ ins' = [ins EXCEPT ![cur_session] = {}] /\ del' = [del EXCEPT ![cur_session] = {}]
  BY Zenon DEF exec_commit, exec_rollback, EndTxn
<1>2. /\ heap' \in [Tables -> SUBSET Version] /\ disk' \in [Tables -> SUBSET Version]
      /\ \A t \in Tables : heap'[t] \in {heap[t], disk[t]} /\ disk'[t] \in {heap[t], disk[t]}
  BY StoredParts, Zenon DEF exec_commit, exec_rollback, txn_commit_tables, txn_abort_tables, Values
<1>3. txnlog' \subseteq Nat /\ live' \subseteq Nat
  <2>1. ins[cur_session] \subseteq Nat
    BY StoredParts, Zenon DEF Values
  <2> QED
    BY <2>1, StoredParts, Zenon DEF exec_commit, exec_rollback, txnlog_commit, txnlog_abort, Values
<1>4. Values'
  BY <1>1, <1>2, <1>3, StoredParts, Zenon DEF Values
<1>5. Shape' /\ Unique'
  BY <1>1, <1>2, CopiesKeep, Zenon
<1>6. TypeOK'
  BY <1>4, TypesAre, PTL
<1> QED
  BY <1>5, <1>6, Zenon DEF Stored

\* INSERT, DELETE, UPDATE.
LEMMA StoredWrite ==
    ASSUME Stored, SInv', NEW t \in Tables, NEW S, NEW new, Written(t, S, new)
    PROVE  Stored'
<1>1. Values
  BY StoredParts, Zenon
<1>2. /\ S \subseteq heap[t] /\ new \subseteq Version /\ clobbered' = clobbered \cup Ids({v \in S : v.xmax # 0})
      /\ UNCHANGED begun
  BY Zenon DEF Written, Write, Clobbers
<1>3. Ids(S) \subseteq Nat /\ Ids(new) \subseteq Nat /\ Ids({v \in S : v.xmax # 0}) \subseteq Nat
  <2>1. S \subseteq Version /\ {v \in S : v.xmax # 0} \subseteq Version
    BY <1>1, <1>2, Zenon DEF Values
  <2> QED
    BY <1>2, <2>1, IdsNat, Zenon
<1>4. /\ heap' \in [Tables -> SUBSET Version] /\ disk' \in [Tables -> SUBSET Version]
      /\ nid' \in Nat \ {0}
  BY <1>1, WrittenTables, ResultShape DEF Values
<1>5. Values'
  <2>1. CASE in_txn
    <3>1. /\ InTransaction(t)
          /\ ins' = [ins EXCEPT ![cur_session] = (@ \ Ids(S)) \cup Ids(new)]
          /\ del' = [del EXCEPT ![cur_session] = @ \cup Ids(S)]
          /\ UNCHANGED live
      BY <2>1, Zenon DEF Written, Write
    <3>2. ins' \in [SessionIds -> SUBSET Nat] /\ del' \in [SessionIds -> SUBSET Nat]
      BY <1>1, <1>3, <3>1, Zenon DEF Values
    <3>3. UNCHANGED <<committed_below, txnlog, crashes>> /\ cur_txn' = own
      BY <3>1, Zenon DEF InTransaction, KeepLock
    <3> QED
      BY <1>1, <1>2, <1>3, <1>4, <3>1, <3>2, <3>3, StoredParts, Zenon DEF Values
  <2>2. CASE ~in_txn
    <3>1. Autocommit(TRUE) /\ live' = (live \ Ids(S)) \cup Ids(new) /\ UNCHANGED <<ins, del>>
      BY <2>2, Zenon DEF Written, Write
    <3> QED
      BY <1>1, <1>2, <1>3, <1>4, <3>1, AutocommitValues, Zenon DEF Values
  <2> QED
    BY <2>1, <2>2, Zenon
<1>6. TypeOK'
  BY <1>5, TypesAre, PTL
<1> QED
  BY <1>6, WriteShape, Zenon DEF Stored

\* Statements that fail or are refused.
LEMMA StoredFails ==
    ASSUME Stored, SInv',
           StatementRefused \/ CreateRefused \/ \E t \in Tables : StatementFails(t)
    PROVE  Stored'
<1>1. UNCHANGED <<heap, disk, created, nid, live, begun, ins, del, clobbered>>
  BY Zenon DEF StatementRefused, CreateRefused, StatementFails, ghostVars
<1>2. cur_txn' \in Nat /\ committed_below' \in Nat /\ txnlog' \subseteq Nat /\ crashes' \in Nat
  <2>1. CASE Autocommit(FALSE)
    BY <2>1, AutocommitValues, Zenon
  <2>2. CASE ~Autocommit(FALSE)
    <3>1. cur_txn' = own /\ UNCHANGED <<committed_below, txnlog, crashes>>
      BY <2>2, Zenon DEF StatementRefused, CreateRefused, StatementFails, InTransaction, KeepLock
    <3> QED
      BY <3>1, StoredParts, Zenon DEF Values
  <2> QED
    BY <2>1, <2>2, Zenon
<1>3. Values'
  BY <1>1, <1>2, StoredParts, Zenon DEF Values
<1> QED
  BY <1>1, <1>3, StoredQuiet, Zenon

\* CREATE: the table was empty before it existed.
LEMMA StoredCreate ==
    ASSUME Stored, SInv', NEW t \in Tables, exec_create(t)
    PROVE  Stored' /\ heap' = heap /\ disk' = disk
<1>1. /\ Autocommit(TRUE) /\ t \notin created /\ created' = created \cup {t}
      /\ heap' = [heap EXCEPT ![t] = {}] /\ disk' = [disk EXCEPT ![t] = {}]
      /\ UNCHANGED <<nid, live, begun, ins, del, clobbered>>
  BY Zenon DEF exec_create, ghostVars
<1>2. heap[t] = {} /\ disk[t] = {}
  BY <1>1, Zenon DEF Stored, Shape
<1>3. heap' = heap /\ disk' = disk
  BY <1>1, <1>2, StoredParts, Zenon DEF Values
<1>4. Values'
  BY <1>1, <1>3, StoredParts, AutocommitValues, Zenon DEF Values
<1> QED
  BY <1>1, <1>3, <1>4, StoredQuiet, Zenon

\* VACUUM.
LEMMA StoredVacuum == ASSUME Stored, SInv', NEW T, exec_vacuum(T) PROVE Stored'
<1>1. /\ Autocommit(TRUE) /\ UNCHANGED <<created, nid, live, begun, ins, del, clobbered>>
      /\ heap' = [t \in Tables |-> IF t \in T THEN {v \in heap[t] : ~rec_dead(v)} ELSE heap[t]]
      /\ disk' = [t \in Tables |-> IF t \in T THEN heap'[t] ELSE disk[t]]
  BY Zenon DEF exec_vacuum, ghostVars
<1>2. \A t \in Tables : heap'[t] \subseteq heap[t] /\ (disk'[t] \subseteq heap[t] \/ disk'[t] \subseteq disk[t])
  BY <1>1, Zenon
<1>3. heap' \in [Tables -> SUBSET Version] /\ disk' \in [Tables -> SUBSET Version]
  BY <1>1, <1>2, StoredParts, Zenon DEF Values
<1>4. Values'
  BY <1>1, <1>3, StoredParts, AutocommitValues, Zenon DEF Values
<1>5. Shape' /\ Unique'
  BY <1>1, <1>2, CopiesKeep, Zenon
<1>6. TypeOK'
  BY <1>4, TypesAre, PTL
<1> QED
  BY <1>5, <1>6, Zenon DEF Stored

\* The end of the process, and db_open.
LEMMA StoredStop == ASSUME Stored, SInv', db_close \/ Crash \/ db_open PROVE Stored'
<1>1. UNCHANGED <<created, nid, live, clobbered>>
  BY Zenon DEF db_close, Crash, db_open, LoseMemory, dataVars, ghostVars
<1>2. /\ heap' \in [Tables -> SUBSET Version] /\ disk' \in [Tables -> SUBSET Version]
      /\ \A t \in Tables : heap'[t] \in {heap[t], disk[t]} /\ disk'[t] = disk[t]
  BY StoredParts, Zenon DEF db_close, Crash, db_open, txn_abort_tables, dataVars, Values
<1>3. /\ cur_txn' \in Nat /\ txnlog' \subseteq Nat /\ crashes' \in Nat
      /\ begun' \in [SessionIds -> SUBSET Nat]
      /\ ins' \in [SessionIds -> SUBSET Nat] /\ del' \in [SessionIds -> SUBSET Nat]
  BY StoredParts DEF db_close, Crash, db_open, LoseMemory, ghostVars, Values
<1>4. committed_below' \in Nat
  <2>1. cat_next \in Nat
    BY Zenon DEF Stored, TypeOK
  <2> QED
    BY <2>1, StoredParts DEF db_close, Crash, db_open, LoseMemory, Values
<1>5. Values'
  BY <1>1, <1>2, <1>3, <1>4, StoredParts, Zenon DEF Values
<1>6. Shape' /\ Unique'
  BY <1>1, <1>2, CopiesKeep, Zenon
<1>7. TypeOK'
  BY <1>5, TypesAre, PTL
<1> QED
  BY <1>6, <1>7, Zenon DEF Stored

\* Every step, given what a writing statement is.
LEMMA StoredStep ==
    ASSUME Stored, SInv', [Next]_vars,
           \A t \in Tables : exec_insert(t) \/ exec_delete(t) \/ exec_update(t) =>
              \E S, new : Written(t, S, new)
    PROVE  Stored'
<1>1. CASE exec_begin \/ exec_commit \/ exec_rollback
  BY <1>1, StoredBegin, StoredEnd, Zenon
<1>2. CASE Select \/ SaveCatalog \/ \E n \in SessionIds \cup {-1} : Session(n)
  BY <1>2, StoredControl, Zenon
<1>3. ASSUME NEW t \in Tables, exec_insert(t) \/ exec_delete(t) \/ exec_update(t) PROVE Stored'
  BY <1>3, StoredWrite, Zenon
<1>4. ASSUME NEW t \in Tables, StatementFails(t) \/ exec_create(t) PROVE Stored'
  BY <1>4, StoredFails, StoredCreate, Zenon
<1>5. CASE StatementRefused \/ CreateRefused
  BY <1>5, StoredFails, Zenon
<1>6. ASSUME NEW T, exec_vacuum(T) PROVE Stored'
  BY <1>6, StoredVacuum, Zenon
<1>7. CASE db_close \/ Crash \/ db_open
  BY <1>7, StoredStop, Zenon
<1>8. CASE UNCHANGED vars
  <2>1. UNCHANGED <<cur_txn, committed_below, txnlog, heap, disk, created, nid, crashes>>
    BY <1>8, Zenon DEF vars, txnVars, dataVars
  <2>2. UNCHANGED <<live, begun, ins, del, clobbered>>
    BY <1>8, Zenon DEF vars, ghostVars
  <2>3. Values'
    BY <2>1, <2>2, StoredParts, Zenon DEF Values
  <2> QED
    BY <2>1, <2>3, StoredQuiet, Zenon
<1> QED
  BY <1>1, <1>2, <1>3, <1>4, <1>5, <1>6, <1>7, <1>8, Zenon DEF Next

================================================================================
