------------------------------- MODULE MvccWrites ------------------------------
(* The other steps keep the invariant Mvcc: statements that fail, COMMIT, the     *)
(* writing statements, VACUUM, close, crash and open.                             *)
EXTENDS MvccSteps, SessionsProofs

\* A statement that fails in a transaction: the table may get its writer.
LEMMA MvccFails ==
    ASSUME Stored, LogOK, DiskDone, Pools, LiveOnDisk, Changes, Snapshots,
           IdsFit, NEW t \in Tables, StatementFails(t)
    PROVE  Mvcc'
<1>1. up /\ Acquirable(locks, stmt_txn, t, "X") /\ UNCHANGED <<heap, disk, ghostVars>>
  BY Zenon DEF StatementFails, CanRun
<1>2. CASE ~in_txn
  <2>1. Autocommit(FALSE)
    BY <1>2, Zenon DEF StatementFails
  <2> QED
    BY <1>1, <2>1, MvccAutocommit, Zenon
<1>3. CASE in_txn
  <2>1. KeepLock(t) /\ (writer_txn' = writer_txn \/ writer_txn' = [writer_txn EXCEPT ![t] = own])
    BY <1>3, FailsOpen, Zenon
  <2>2. /\ UNCHANGED <<up, sess, next_txn, committed_below, txnlog>>
        /\ UNCHANGED <<live, begun, ins, del, clobbered, forgotten>>
    BY <1>1, <2>1, Zenon DEF KeepLock, ghostVars
  <2>3. /\ writer_txn'[t] \in {writer_txn[t], own} /\ own # 0 /\ writer_txn[t] \in {0, own}
        /\ \A u \in Tables \ {t} : writer_txn'[u] = writer_txn[u]
    BY <1>1, <1>3, <2>1, LockedTable, Zenon DEF Stored
  <2>4. LogOK'
    BY <2>2, Zenon DEF LogOK
  <2>5. Pools'
    BY <1>1, <2>2, <2>3 DEF Differs, Ids, Left, Pools
  <2>6. \A s \in SessionIds : sess[s].in_txn => \A v \in Version : Sees(s, v)' <=> Sees(s, v)
    BY <2>2, ViewSame, Zenon
  <2> QED
    BY <1>1, <2>2, <2>4, <2>5, <2>6, MvccQuiet, Zenon
<1> QED
  BY <1>2, <1>3, Zenon DEF Mvcc

\* COMMIT: the files get the transaction's versions, and its changes become what is
\* committed.
LEMMA MvccCommit ==
    ASSUME Stored, Stored', LogOK, DiskDone, Pools, LiveOnDisk, Changes, Snapshots,
           IdsFit, exec_commit
    PROVE  Mvcc'
<1>1. /\ up /\ in_txn /\ EndTxn /\ txnlog' = txnlog_commit(own) /\ heap' = heap
      /\ disk' = [t \in Tables |-> IF writer_txn[t] = own THEN heap[t] ELSE disk[t]]
      /\ writer_txn' = [t \in Tables |-> IF writer_txn[t] = own THEN 0 ELSE writer_txn[t]]
      /\ live' = (live \ del[cur_session]) \cup ins[cur_session]
      /\ clobbered' = clobbered /\ forgotten' = forgotten
  BY Zenon DEF exec_commit, txn_commit_tables, EndTxn
<1>2. PICK c \in SessionIds : c = cur_session
  BY Zenon DEF Stored, TypeOK
<1>3. /\ LogOK' /\ up' /\ committed_below' = committed_below /\ txnlog' = txnlog \cup {own}
      /\ own = sess[c].txn /\ ~sess'[c].in_txn
      /\ \A s \in SessionIds \ {c} :
            /\ sess'[s] = sess[s] /\ begun'[s] = begun[s] /\ ins'[s] = ins[s] /\ del'[s] = del[s]
            /\ sess[s].in_txn => /\ ~txn_committed_view(s, own)
                                 /\ \A v \in Version : Sees(s, v)' <=> Sees(s, v)
  BY <1>1, <1>2, EndLog, Zenon
<1>4. PICK x : x = own
  BY Zenon
<1>5. x = sess[c].txn /\ sess[c].in_txn /\ x \in Nat /\ x > 0 /\ x # 0 /\ ~Done(x)
  BY <1>1, <1>2, <1>3, <1>4, OpenUnseen DEF in_txn
<1>6. Left' = Left /\ (\A v : Clean(v)' <=> Clean(v)) /\ (\A y : Done(y) => Done(y)') /\ Done(x)'
  BY <1>1, <1>3, <1>4, <1>5, Zenon DEF Left, Clean, Done
<1>7. Pools'
  BY <1>1, <1>6, Zenon DEF Pools
<1>8. \A t \in Tables : writer_txn[t] = x => disk'[t] = heap[t] /\ Differs(heap[t], disk[t], x, Left)
  BY <1>1, <1>4, <1>5, Zenon DEF Pools
<1>9. \A t \in Tables : writer_txn[t] # x => disk'[t] = disk[t]
  BY <1>1, <1>4, Zenon
<1>10. \A t \in Tables : disk'[t] = disk[t] \/ Differs(disk'[t], disk[t], x, Left')
  BY <1>6, <1>8, <1>9, Zenon
<1>11. disk' \in [Tables -> SUBSET Version]
  BY Zenon DEF Stored, TypeOK
<1>12. /\ DiskDone'
       /\ \A s \in SessionIds :
             /\ sess[s].in_txn /\ begun'[s] = begun[s]
             /\ ~txn_committed_view(s, x) /\ \A v \in Version : Sees(s, v)' <=> Sees(s, v)
             => SnapOK(s)'
  BY <1>1, <1>3, <1>5, <1>6, <1>10, <1>11, Publish, Zenon
<1>13. ASSUME NEW s \in SessionIds, sess'[s].in_txn PROVE ChangesOK(s)' /\ SnapOK(s)'
  BY <1>1, <1>3, <1>4, <1>6, <1>12, <1>13 DEF Changes, ChangesOK
<1>14. LiveOnDisk'
  <2>1. live' = (live \ del[c]) \cup ins[c] /\ ChangesOK(c)
    BY <1>1, <1>2, <1>5, Zenon DEF Changes
  <2>2. /\ \A t \in Tables : \A v \in disk[t] : Clean(v) =>
             (v.id \in live <=> v.xmax = 0) /\ Done(v.xmin) /\ (v.xmax = 0 \/ Done(v.xmax))
        /\ \A i \in live : i \notin Left => \E t \in Tables : i \in Ids(disk[t])
    BY <1>1, Zenon DEF LiveOnDisk, DiskDone
  <2>3. \A t \in Tables : \A v \in heap[t] : Clean(v) =>
           /\ v.id \in ins[c] <=> v.xmin = x /\ v.xmax = 0
           /\ v.id \in del[c] <=> v.xmax = x
    BY <1>5, <2>1, Zenon DEF ChangesOK
  <2>4. ASSUME NEW t \in Tables, NEW v \in disk'[t], Clean(v) PROVE v.id \in live' <=> v.xmax = 0
    <3>1. CASE writer_txn[t] = x
      <4>1. v \in heap[t] /\ v.id \notin Left
        BY <1>8, <2>4, <3>1, Zenon DEF Clean
      <4>2. \/ v \in disk[t]
            \/ v.xmin = x /\ v.xmax \in {0, x} /\ v.id \notin Ids(disk[t])
            \/ v.xmax = x
        BY <1>8, <3>1, <4>1, Zenon DEF Differs
      <4>3. CASE v \in disk[t]
        BY <1>5, <2>1, <2>2, <2>3, <2>4, <4>1, <4>3, Zenon
      <4>4. CASE v.xmin = x /\ v.xmax \in {0, x} /\ v.id \notin Ids(disk[t])
        <5>1. v.xmax = 0 => v.id \in ins[c]
          BY <2>3, <2>4, <4>1, <4>4, Zenon
        <5>2. v.xmax = x => v.id \in del[c] /\ v.id \notin ins[c]
          BY <1>5, <2>3, <2>4, <4>1, Zenon
        <5> QED
          BY <1>5, <2>1, <4>4, <5>1, <5>2, Zenon
      <4>5. CASE v.xmax = x
        BY <1>5, <2>1, <2>3, <2>4, <4>1, <4>5, Zenon
      <4> QED
        BY <4>2, <4>3, <4>4, <4>5, Zenon
    <3>2. CASE writer_txn[t] # x
      <4>1. v \in disk[t]
        BY <1>9, <2>4, <3>2, Zenon
      <4>2. v.id \notin ins[c] \cup del[c]
        BY <1>5, <2>1, <2>3, <2>4, <3>2, <4>1, StampPlace DEF ChangesOK, Clean, Ids,
           Stored, Unique
      <4> QED
        BY <2>1, <2>2, <2>4, <4>1, <4>2, Zenon
    <3> QED
      BY <3>1, <3>2, Zenon
  <2>5. ASSUME NEW i \in live', i \notin Left PROVE \E t \in Tables : i \in Ids(disk'[t])
    <3>1. CASE i \in live
      BY <1>8, <1>9, <2>2, <2>5, <3>1 DEF Differs, Ids
    <3>2. CASE i \in ins[c]
      <4>1. PICK t \in Tables : i \in Ids(heap[t])
        BY <2>1, <2>5, <3>2, Zenon DEF ChangesOK
      <4>2. PICK w \in heap[t] : w.id = i
        BY <4>1, Zenon DEF Ids
      <4>3. w.xmin = sess[c].txn /\ Clean(w)
        BY <1>5, <2>3, <2>5, <3>2, <4>2, Zenon DEF Clean
      <4>4. writer_txn[t] = x
        BY <1>5, <4>2, <4>3, StampPlace, Zenon
      <4> QED
        BY <1>8, <4>1, <4>4, Zenon
    <3> QED
      BY <2>1, <2>5, <3>1, <3>2, Zenon
  <2> QED
    BY <1>6, <2>4, <2>5, Zenon DEF LiveOnDisk
<1> QED
  BY <1>3, <1>7, <1>12, <1>13, <1>14, Zenon DEF Changes, Snapshots, Mvcc

\* New versions get numbers no stored version has.
LEMMA NewIds ==
    ASSUME Stored, NEW t \in Tables, NEW S, NEW new, Written(t, S, new)
    PROVE  \A a \in Tables : \A u \in heap[a] \cup disk[a] : u.id \notin Ids(new)
<1> SUFFICES ASSUME NEW w \in new, NEW a \in Tables, NEW u \in heap[a] \cup disk[a] PROVE u.id # w.id
  BY Zenon DEF Ids
<1>1. u.id \in Nat /\ u.id < nid /\ nid \in Nat
  BY DEF Stored, TypeOK, Shape, Version
<1>2. w.id \in Nat /\ nid <= w.id
  BY Zenon DEF Written, Version
<1> QED
  BY <1>1, <1>2

\* The clean versions among what a statement leaves: it deleted none twice.
LEMMA ResultClean ==
    ASSUME Stored, NEW t \in Tables, NEW S, NEW new, Written(t, S, new),
           NEW v \in Result(t, S, new), v.id \notin Left'
    PROVE  /\ v.id \notin Left
           /\ \/ v \in heap[t] /\ v.id \notin Ids(S) /\ v.id \notin Ids(new)
              \/ \E u \in S : /\ u \in heap[t] /\ u.id = v.id /\ u.xmin = v.xmin /\ u.xmax = 0
                              /\ v.xmax = stmt_txn /\ v.id \in Ids(S) /\ v.id \notin Ids(new)
              \/ /\ v \in new /\ v.xmin = stmt_txn /\ v.xmax = 0 /\ v.id \in Ids(new)
                 /\ v.id \notin Ids(S) /\ \A a \in Tables : v.id \notin Ids(heap[a]) \cup Ids(disk[a])
<1>1. /\ S \subseteq heap[t] /\ clobbered' = clobbered \cup Ids({u \in S : u.xmax # 0})
      /\ forgotten' = forgotten
      /\ \A w \in new : w.xmin = stmt_txn /\ w.xmax = 0 /\ nid <= w.id
      /\ new \subseteq Version
  BY Zenon DEF Written, Write, Clobbers
<1>2. v.id \notin Left /\ v.id \notin Ids({u \in S : u.xmax # 0})
  BY <1>1, Zenon DEF Left
<1>3. \/ v \in heap[t] /\ v \notin S
      \/ \E u \in S : v = Stamp(u, stmt_txn)
      \/ v \in new
  BY <1>1, ResultHas, Zenon
<1>4. \A u, w \in heap[t] : u.id = w.id => u = w
  BY DEF Stored, Unique
<1>5. \A a \in Tables : \A u \in heap[a] \cup disk[a] : u.id \notin Ids(new)
  BY NewIds, Zenon
<1>6. \A u \in heap[t] : u.id \notin Ids(new)
  BY <1>5, Zenon
<1>7. CASE v \in heap[t] /\ v \notin S
  BY <1>1, <1>2, <1>4, <1>6, <1>7, Zenon DEF Ids
<1>8. CASE \E u \in S : v = Stamp(u, stmt_txn)
  BY <1>1, <1>2, <1>6, <1>8 DEF Stamp, Ids
<1>9. CASE v \in new
  BY <1>1, <1>2, <1>5, <1>9 DEF Ids
<1> QED
  BY <1>3, <1>7, <1>8, <1>9, Zenon

\* Every version of the table is still there, by its number.
LEMMA ResultKeeps ==
    ASSUME NEW t, NEW S, NEW new, S \subseteq heap[t]
    PROVE  \A u \in heap[t] : u.id \in Ids(Result(t, S, new))
<1> SUFFICES ASSUME NEW u \in heap[t] PROVE u.id \in Ids(Result(t, S, new))
  BY Zenon
<1>1. CASE u \notin S
  BY <1>1, ResultHas, Zenon DEF Ids
<1>2. CASE u \in S
  <2>1. Stamp(u, stmt_txn) \in Result(t, S, new) /\ Stamp(u, stmt_txn).id = u.id
    BY <1>2, ResultHas, Zenon DEF Stamp
  <2> QED
    BY <2>1, Zenon DEF Ids
<1> QED
  BY <1>1, <1>2, Zenon

\* It differs from the file by what the statement's transaction did.
LEMMA ResultDiffers ==
    ASSUME Stored, NEW t \in Tables, NEW S, NEW new, Written(t, S, new),
           Differs(heap[t], disk[t], stmt_txn, Left)
    PROVE  Differs(Result(t, S, new), disk[t], stmt_txn, Left')
<1>1. S \subseteq heap[t] /\ stmt_txn # 0
  BY Current DEF Written, Stored, SInv, Types
<1>2. ASSUME NEW v \in Result(t, S, new), v.id \notin Left'
      PROVE  \/ v \in disk[t]
             \/ v.xmin = stmt_txn /\ v.xmax \in {0, stmt_txn} /\ v.id \notin Ids(disk[t])
             \/ v.xmax = stmt_txn /\ \E w \in disk[t] : w.id = v.id /\ w.xmin = v.xmin /\ w.xmax = 0
  BY <1>1, <1>2, ResultClean DEF Differs
<1>3. Left \subseteq Left'
  BY Zenon DEF Left, Written, Write, Clobbers
<1>4. ASSUME NEW w \in disk[t], w.id \notin Left' PROVE w.id \in Ids(Result(t, S, new))
  BY <1>1, <1>3, <1>4, ResultKeeps, Zenon DEF Differs, Ids
<1> QED
  BY <1>2, <1>4, Zenon DEF Differs

\* The changes of an open transaction that is not the statement's.
LEMMA OtherChanges ==
    ASSUME Stored, LogOK, DiskDone, Pools, LiveOnDisk, Changes, Snapshots,
           NEW t \in Tables, NEW S, NEW new, Written(t, S, new),
           writer_txn[t] \in {0, stmt_txn}, NEW s \in SessionIds, sess[s].in_txn,
           sess[s].txn # stmt_txn, sess'[s] = sess[s], ins'[s] = ins[s], del'[s] = del[s]
    PROVE  ChangesOK(s)'
<1>1. ChangesOK(s) /\ sess[s].txn # 0 /\ stmt_txn # 0
  BY Current, OpenUnseen DEF Changes, Stored, SInv, Types
<1>2. heap'[t] = Result(t, S, new) /\ \A u \in Tables \ {t} : heap'[u] = heap[u]
  BY WrittenTables, Zenon
<1>3. S \subseteq heap[t] /\ Left \subseteq Left'
  BY Zenon DEF Written, Write, Clobbers, Left
<1>4. \A v : Clean(v)' <=> v.id \notin Left'
  BY Zenon DEF Clean
<1>5. \A i \in ins[s] \cup del[s] : i \notin Left => \E u \in Tables : i \in Ids(heap[u])
  BY <1>1, Zenon DEF ChangesOK
<1>6. ASSUME NEW u \in Tables, NEW v \in heap'[u], v.id \notin Left'
      PROVE  /\ v.id \in ins[s] <=> v.xmin = sess[s].txn /\ v.xmax = 0
             /\ v.id \in del[s] <=> v.xmax = sess[s].txn
  BY <1>1, <1>2, <1>3, <1>5, <1>6, ResultClean, StampPlace DEF ChangesOK, Clean
<1>7. ASSUME NEW i \in ins[s] \cup del[s], i \notin Left' PROVE \E u \in Tables : i \in Ids(heap'[u])
  BY <1>2, <1>3, <1>5, <1>7, ResultKeeps DEF Ids
<1> QED
  BY <1>4, <1>6, <1>7, Zenon DEF ChangesOK

\* INSERT, DELETE and UPDATE in a transaction.
LEMMA MvccWriteOpen ==
    ASSUME Stored, LogOK, DiskDone, Pools, LiveOnDisk, Changes, Snapshots,
           NEW t \in Tables, NEW S, NEW new, Written(t, S, new), in_txn
    PROVE  Mvcc'
<1>1. PICK c \in SessionIds : c = cur_session
  BY Zenon DEF Stored, TypeOK
<1>2. PICK x : x = own
  BY Zenon
<1>3. x = sess[c].txn /\ sess[c].in_txn /\ stmt_txn = x /\ x # 0
  BY <1>1, <1>2, Current DEF in_txn, Stored
<1>4. /\ Acquirable(locks, stmt_txn, t, "X") /\ InTransaction(t)
      /\ ins' = [ins EXCEPT ![c] = (@ \ Ids(S)) \cup Ids(new)]
      /\ del' = [del EXCEPT ![c] = @ \cup Ids(S)]
      /\ UNCHANGED <<disk, live, begun, forgotten>> /\ S \subseteq heap[t] /\ up
      /\ clobbered \subseteq clobbered'
  BY <1>1, Zenon DEF Written, Write, Clobbers, CanRun
<1>5. UNCHANGED <<up, sess, next_txn, committed_below, txnlog>>
  BY <1>4, Zenon DEF InTransaction, KeepLock
<1>6. /\ writer_txn'[t] = x /\ writer_txn[t] \in {0, x}
      /\ \A u \in Tables \ {t} : writer_txn'[u] = writer_txn[u]
  BY <1>2, <1>4, LockedWriter, Zenon DEF Stored
<1>7. Left \subseteq Left' /\ (\A v : Clean(v)' <=> v.id \notin Left') /\ \A v : Clean(v)' => Clean(v)
  BY <1>4, Zenon DEF Left, Clean
<1>8. LogOK'
  BY <1>5, Zenon DEF LogOK
<1>9. DiskDone'
  BY <1>4, <1>5, <1>7, Zenon DEF Done, DiskDone
<1>10. LiveOnDisk'
  BY <1>4, <1>7, Zenon DEF LiveOnDisk
<1>11. /\ heap'[t] = Result(t, S, new)
       /\ \A u \in Tables \ {t} : heap'[u] = heap[u]
  BY WrittenTables, Zenon
<1>12. Pools'
  <2>1. Differs(heap[t], disk[t], x, Left)
    BY <1>6, DiffersSame, Zenon DEF Pools
  <2>2. Differs(heap'[t], disk'[t], x, Left')
    BY <1>3, <1>4, <1>11, <2>1, ResultDiffers, Zenon
  <2>3. \A u \in Tables \ {t} :
            IF writer_txn'[u] = 0 THEN heap'[u] = disk'[u]
            ELSE Differs(heap'[u], disk'[u], writer_txn'[u], Left')
    BY <1>4, <1>6, <1>7, <1>11, DiffersMore, Zenon DEF Pools
  <2> QED
    BY <1>3, <1>6, <2>2, <2>3, Zenon DEF Pools
<1>13. Snapshots'
  BY <1>4, <1>5, <1>7, ViewSame, Zenon DEF Snapshots, Stored, TypeOK, SnapOK
<1>14. Changes'
  <2> SUFFICES ASSUME NEW s \in SessionIds, sess[s].in_txn PROVE ChangesOK(s)'
    BY <1>5, Zenon DEF Changes
  <2>1. ins \in [SessionIds -> SUBSET Nat] /\ del \in [SessionIds -> SUBSET Nat]
    BY Zenon DEF Stored, TypeOK
  <2>2. CASE s # c
    BY <1>3, <1>4, <1>5, <1>6, <2>1, <2>2, OtherChanges, Zenon DEF Stored, SInv, OwnIds
  <2>3. CASE s = c
    <3>1. /\ ins'[c] = (ins[c] \ Ids(S)) \cup Ids(new) /\ del'[c] = del[c] \cup Ids(S)
          /\ ChangesOK(c) /\ sess'[c].txn = x
      BY <1>3, <1>4, <1>5, <2>1, Zenon DEF Changes
    <3>2. \A i \in ins[c] \cup del[c] : i \notin Left => \E u \in Tables : i \in Ids(heap[u])
      BY <3>1, Zenon DEF ChangesOK
    <3>3. \A u \in Tables \ {t} : \A v \in heap[u] : v.id \notin Ids(S)
      BY <1>4 DEF Stored, Unique, Ids
    <3>4. ASSUME NEW u \in Tables, NEW v \in heap'[u], v.id \notin Left'
          PROVE  /\ v.id \in ins'[c] <=> v.xmin = x /\ v.xmax = 0
                 /\ v.id \in del'[c] <=> v.xmax = x
      <4>1. CASE u # t
        <5>1. v \in heap[u] /\ v.id \notin Ids(S) /\ v.id \notin Left
          BY <1>7, <1>11, <3>3, <3>4, <4>1, Zenon
        <5>2. v.id \notin Ids(new)
          BY <5>1, <4>1, NewIds, Zenon
        <5> QED
          BY <1>3, <3>1, <5>1, <5>2, Zenon DEF ChangesOK, Clean
      <4>2. CASE u = t
        <5>1. v \in Result(t, S, new)
          BY <1>11, <3>4, <4>2, Zenon
        <5>2. /\ v.id \notin Left
              /\ \/ v \in heap[t] /\ v.id \notin Ids(S) /\ v.id \notin Ids(new)
                 \/ v.xmax = x /\ v.id \in Ids(S) /\ v.id \notin Ids(new)
                 \/ /\ v.xmin = x /\ v.xmax = 0 /\ v.id \in Ids(new)
                    /\ v.id \notin Ids(S) /\ \A a \in Tables : v.id \notin Ids(heap[a])
          <6>1. /\ v.id \notin Left
                /\ \/ v \in heap[t] /\ v.id \notin Ids(S) /\ v.id \notin Ids(new)
                   \/ \E w \in S : /\ w \in heap[t] /\ w.id = v.id /\ w.xmin = v.xmin /\ w.xmax = 0
                                   /\ v.xmax = stmt_txn /\ v.id \in Ids(S) /\ v.id \notin Ids(new)
                   \/ /\ v \in new /\ v.xmin = stmt_txn /\ v.xmax = 0 /\ v.id \in Ids(new)
                      /\ v.id \notin Ids(S)
                      /\ \A a \in Tables : v.id \notin Ids(heap[a]) \cup Ids(disk[a])
            BY <3>4, <5>1, ResultClean
          <6> QED
            BY <1>3, <6>1, Zenon
        <5>3. CASE v \in heap[t] /\ v.id \notin Ids(S) /\ v.id \notin Ids(new)
          BY <1>3, <3>1, <5>2, <5>3, Zenon DEF ChangesOK, Clean
        <5>4. CASE v.xmax = x /\ v.id \in Ids(S) /\ v.id \notin Ids(new)
          BY <1>3, <3>1, <5>4, Zenon
        <5>5. CASE /\ v.xmin = x /\ v.xmax = 0 /\ v.id \in Ids(new)
                   /\ v.id \notin Ids(S) /\ \A a \in Tables : v.id \notin Ids(heap[a])
          <6>1. v.id \notin del[c]
            BY <3>2, <5>2, <5>5, Zenon
          <6> QED
            BY <1>3, <3>1, <5>5, <6>1, Zenon
        <5> QED
          BY <5>2, <5>3, <5>4, <5>5, Zenon
      <4> QED
        BY <4>1, <4>2, Zenon
    <3>5. ASSUME NEW i \in ins'[c] \cup del'[c], i \notin Left' PROVE \E u \in Tables : i \in Ids(heap'[u])
      <4>0. \A u \in Tables : Ids(heap[u]) \subseteq Ids(heap'[u])
        <5>1. Ids(heap[t]) \subseteq Ids(heap'[t])
          <6>1. \A u \in heap[t] : u.id \in Ids(heap'[t])
            BY <1>4, <1>11, ResultKeeps
          <6> QED
            BY <6>1, Zenon DEF Ids
        <5> QED
          BY <1>11, <5>1, Zenon
      <4>1. CASE i \in Ids(new)
        <5>1. PICK v \in new : v.id = i
          BY <4>1, Zenon DEF Ids
        <5>2. v \in heap'[t]
          BY <1>11, Zenon DEF Result
        <5> QED
          BY <5>1, <5>2, Zenon DEF Ids
      <4>2. CASE i \in Ids(S)
        BY <1>4, <4>0, <4>2, Zenon DEF Ids
      <4>3. CASE i \in ins[c] \cup del[c]
        <5>1. PICK u \in Tables : i \in Ids(heap[u])
          BY <1>7, <3>2, <3>5, <4>3, Zenon
        <5> QED
          BY <4>0, <5>1, Zenon
      <4> QED
        BY <3>1, <3>5, <4>1, <4>2, <4>3, Zenon
    <3> QED
      BY <1>7, <2>3, <3>1, <3>4, <3>5, Zenon DEF ChangesOK
  <2> QED
    BY <2>2, <2>3, Zenon
<1> QED
  BY <1>8, <1>9, <1>10, <1>12, <1>13, <1>14, Zenon DEF Mvcc

\* INSERT, DELETE and UPDATE outside a transaction: nobody writes the table, and the
\* statement's changes are committed with it.
LEMMA MvccWriteAuto ==
    ASSUME Stored, Stored', LogOK, DiskDone, Pools, LiveOnDisk, Changes, Snapshots,
           IdsFit, NEW t \in Tables, NEW S, NEW new, Written(t, S, new), ~in_txn
    PROVE  Mvcc'
<1>1. /\ Acquirable(locks, stmt_txn, t, "X") /\ Autocommit(TRUE) /\ live' = (live \ Ids(S)) \cup Ids(new)
      /\ UNCHANGED <<ins, del, begun, forgotten>> /\ S \subseteq heap[t] /\ up
      /\ clobbered \subseteq clobbered'
  BY Zenon DEF Written, Write, Clobbers, CanRun
<1>2. PICK x : x = next_txn
  BY Zenon
<1>3. stmt_txn = x
  BY <1>2, Current, Zenon DEF Stored
<1>4. /\ LogOK' /\ txnlog' = txnlog \cup {x} /\ committed_below' = committed_below /\ up' /\ sess' = sess
      /\ x \in Nat /\ x > 0 /\ x # 0 /\ ~Done(x)
      /\ \A s \in SessionIds : sess[s].in_txn =>
            /\ sess[s].txn # x /\ ~txn_committed_view(s, x)
            /\ \A v \in Version : Sees(s, v)' <=> Sees(s, v)
  <2>1. /\ LogOK' /\ txnlog' = txnlog \cup {next_txn} /\ committed_below' = committed_below
        /\ up' /\ sess' = sess /\ next_txn \in Nat /\ next_txn > 0 /\ ~Done(next_txn)
        /\ \A s \in SessionIds : sess[s].in_txn =>
              /\ sess[s].txn # next_txn /\ ~txn_committed_view(s, next_txn)
              /\ \A v \in Version : Sees(s, v)' <=> Sees(s, v)
    BY <1>1, AutocommitLog, Zenon
  <2>2. next_txn # 0
    BY <2>1
  <2> QED
    BY <1>2, <2>1, <2>2, Zenon
<1>5. writer_txn' = writer_txn /\ writer_txn[t] = 0
  <2>1. \A e \in locks : e.obj = t => e.txn = x
    <3>1. locks \subseteq LockSet /\ ExclusiveIn(locks) /\ x \in Nat
      BY <1>4, Zenon DEF Stored, SInv, Types
    <3> QED
      BY <1>1, <1>3, <3>1, AcquireKeeps, Zenon
  <2>2. \A e \in locks : e.txn < next_txn
    BY Current, Zenon DEF Stored
  <2>3. writer_txn[t] # 0 => Lock(writer_txn[t], t, "X") \in locks
    BY Zenon DEF Stored, SInv, WritersLock
  <2>4. \A e \in locks : e.obj # t
    BY <1>2, <1>4, <2>1, <2>2
  <2>5. writer_txn[t] = 0
    BY <2>3, <2>4, Zenon DEF Lock
  <2> QED
    BY <1>1, <2>5, Zenon DEF Autocommit
<1>6. heap[t] = disk[t]
  BY <1>5, Zenon DEF Pools
<1>7. /\ heap'[t] = Result(t, S, new) /\ disk'[t] = Result(t, S, new)
      /\ \A u \in Tables \ {t} : heap'[u] = heap[u] /\ disk'[u] = disk[u]
      /\ disk' \in [Tables -> SUBSET Version]
  BY WrittenTables, Zenon
<1>8. /\ Left \subseteq Left' /\ (\A v : Clean(v)' <=> v.id \notin Left') /\ (\A v : Clean(v)' => Clean(v))
      /\ (\A y : Done(y) => Done(y)') /\ Done(x)'
  BY <1>1, <1>4, Zenon DEF Left, Clean, Done
<1>9. Pools'
  BY <1>5, <1>7, <1>8, DiffersMore, Zenon DEF Pools
<1>10. \A u \in Tables : disk'[u] = disk[u] \/ Differs(disk'[u], disk[u], x, Left')
  BY <1>3, <1>6, <1>7, ResultDiffers, DiffersSame, Zenon
<1>11. /\ DiskDone'
       /\ \A s \in SessionIds :
             /\ sess[s].in_txn /\ begun'[s] = begun[s]
             /\ ~txn_committed_view(s, x) /\ \A v \in Version : Sees(s, v)' <=> Sees(s, v)
             => SnapOK(s)'
  BY <1>1, <1>4, <1>7, <1>8, <1>10, Publish, Zenon
<1>12. Snapshots'
  BY <1>1, <1>4, <1>11, Zenon DEF Snapshots
<1>13. Changes'
  BY <1>1, <1>3, <1>4, <1>5, OtherChanges, Zenon DEF Changes
<1>14. LiveOnDisk'
  <2>1. /\ \A u \in Tables : \A v \in disk[u] : Clean(v) => (v.id \in live <=> v.xmax = 0)
        /\ \A i \in live : i \notin Left => \E u \in Tables : i \in Ids(disk[u])
    BY Zenon DEF LiveOnDisk
  <2>2. ASSUME NEW u \in Tables, NEW v \in disk'[u], v.id \notin Left' PROVE v.id \in live' <=> v.xmax = 0
    <3>1. CASE u # t
      <4>1. v \in disk[u] /\ Clean(v)
        BY <1>7, <1>8, <2>2, <3>1, Zenon DEF Clean
      <4>2. v.id \notin Ids(new)
        BY <4>1, NewIds, Zenon
      <4>3. v.id \notin Ids(S)
        <5>1. \A w \in heap[t] : v.id # w.id
          BY <3>1, <4>1, Zenon DEF Stored, Unique
        <5>2. S \subseteq heap[t]
          BY <1>1, Zenon DEF Written
        <5> QED
          BY <5>1, <5>2, Zenon DEF Ids
      <4> QED
        BY <1>1, <2>1, <4>1, <4>2, <4>3, Zenon
    <3>2. CASE u = t
      <4>1. v \in Result(t, S, new)
        BY <1>7, <2>2, <3>2, Zenon
      <4>2. /\ v.id \notin Left
            /\ \/ v \in heap[t] /\ v.id \notin Ids(S) /\ v.id \notin Ids(new)
               \/ v.xmax = x /\ v.id \in Ids(S) /\ v.id \notin Ids(new)
               \/ v.xmax = 0 /\ v.id \in Ids(new)
        BY <1>3, <2>2, <4>1, ResultClean
      <4> QED
        BY <1>1, <1>4, <1>6, <2>1, <4>2, Zenon DEF Clean
    <3> QED
      BY <3>1, <3>2, Zenon
  <2>3. ASSUME NEW i \in live', i \notin Left' PROVE \E u \in Tables : i \in Ids(disk'[u])
    <3>1. CASE i \in Ids(new)
      BY <1>1, <1>7, <3>1, ResultHas DEF Ids
    <3>2. CASE i \in live
      <4>1. PICK u \in Tables : i \in Ids(disk[u])
        BY <1>8, <2>1, <2>3, <3>2, Zenon
      <4>2. i \in Ids(disk'[u])
        BY <1>1, <1>6, <1>7, <4>1, ResultKeeps DEF Ids
      <4> QED
        BY <4>2, Zenon
    <3> QED
      BY <1>1, <2>3, <3>1, <3>2, Zenon
  <2> QED
    BY <1>8, <2>2, <2>3, Zenon DEF LiveOnDisk
<1> QED
  BY <1>4, <1>9, <1>11, <1>12, <1>13, <1>14, Zenon DEF Mvcc

\* VACUUM: no transaction is open, and what it removes was deleted by a committed one.
LEMMA MvccVacuum ==
    ASSUME Stored, LogOK, DiskDone, Pools, LiveOnDisk, Changes, Snapshots,
           IdsFit, NEW T, exec_vacuum(T)
    PROVE  Mvcc'
<1>1. /\ up /\ Autocommit(TRUE) /\ UNCHANGED <<live, clobbered, forgotten>>
      /\ \A s \in SessionIds : ~sess[s].in_txn
      /\ heap' = [t \in Tables |-> IF t \in T THEN {v \in heap[t] : ~rec_dead(v)} ELSE heap[t]]
      /\ disk' = [t \in Tables |-> IF t \in T THEN heap'[t] ELSE disk[t]]
  BY Zenon DEF exec_vacuum, ghostVars
<1>2. /\ LogOK' /\ txnlog \subseteq txnlog' /\ committed_below' = committed_below /\ up' /\ sess' = sess
  BY <1>1, AutocommitLog, Zenon
<1>3. \A t \in Tables : writer_txn[t] = 0 /\ heap[t] = disk[t]
  BY <1>1, Quiet, Zenon DEF Stored, Pools
<1>4. \A t \in Tables : /\ heap'[t] = disk'[t] /\ disk'[t] \subseteq disk[t]
                        /\ \A v \in disk[t] : v.xmax = 0 => v \in disk'[t]
  BY <1>1, <1>3, Zenon DEF rec_dead
<1>5. Left' = Left /\ (\A v : Clean(v)' <=> Clean(v)) /\ \A x : Done(x) => Done(x)'
  BY <1>1, <1>2, Zenon DEF Left, Clean, Done
<1>6. Pools'
  BY <1>1, <1>3, <1>4, Zenon DEF Pools, Autocommit
<1>7. DiskDone'
  BY <1>1, <1>2, <1>4, <1>5, Zenon DEF DiskDone
<1>8. LiveOnDisk'
  <2>1. \A t \in Tables : \A v \in disk'[t] : Clean(v) => (v.id \in live <=> v.xmax = 0)
    BY <1>4, Zenon DEF LiveOnDisk
  <2>2. ASSUME NEW i \in live, i \notin Left PROVE \E t \in Tables : i \in Ids(disk'[t])
    BY <1>4, <2>2 DEF LiveOnDisk, Ids, Clean
  <2> QED
    BY <1>1, <1>5, <2>1, <2>2, Zenon DEF LiveOnDisk
<1>9. Changes' /\ Snapshots'
  BY <1>1, <1>2, Zenon DEF Changes, Snapshots
<1> QED
  BY <1>2, <1>6, <1>7, <1>8, <1>9, Zenon DEF Mvcc

\* Close and crash: what is left is the files, and the catalog's next id.
LEMMA MvccStop ==
    ASSUME Stored, LogOK, DiskDone, Pools, LiveOnDisk, Changes, Snapshots, db_close \/ Crash
    PROVE  Mvcc'
<1>1. LoseMemory /\ disk' = disk /\ forgotten \subseteq forgotten'
  BY Zenon DEF db_close, Crash, txn_abort_tables
<1>2. /\ up /\ ~up' /\ txnlog' = {} /\ live' = live /\ clobbered' = clobbered
      /\ \A s \in SessionIds : ~sess'[s].in_txn
  BY <1>1, Zenon DEF LoseMemory, NoTxn
<1>3. /\ Left \subseteq Left' /\ (\A v : Clean(v)' => Clean(v)) /\ \A i : i \notin Left' => i \notin Left
  BY <1>1, <1>2, Zenon DEF Left, Clean
<1>4. \A t \in Tables : heap'[t] = disk[t] /\ writer_txn'[t] = 0
  BY WriterOpen DEF Crash, db_close, txn_abort_tables, Own, Pools
<1>5. LogOK'
  BY <1>2, Zenon DEF LogOK
<1>6. DiskDone'
  <2> SUFFICES ASSUME NEW t \in Tables, NEW v \in disk[t], Clean(v)'
               PROVE  v.xmin < cat_next' /\ v.xmax < cat_next'
    BY <1>1, <1>2, Zenon DEF DiskDone
  <2>1. v \in Version /\ cat_next \in Nat /\ next_txn \in Nat \ {0}
    BY Zenon DEF Stored, TypeOK
  <2>2. v.xmin \in Nat /\ v.xmax \in Nat
    BY <2>1, Zenon DEF Version
  <2>3. CASE Crash
    BY <2>1, <2>2, <2>3 DEF Crash, Clean, Left, Ids
  <2>4. CASE db_close
    BY <1>2, <1>3, <2>1, <2>2, <2>4, DoneBelow DEF db_close, DiskDone
  <2> QED
    BY <2>3, <2>4, Zenon
<1>7. Pools'
  BY <1>1, <1>4, Zenon DEF Pools
<1>8. LiveOnDisk'
  BY <1>1, <1>2, <1>3, Zenon DEF LiveOnDisk
<1>9. Changes' /\ Snapshots'
  BY <1>2, Zenon DEF Changes, Snapshots
<1> QED
  BY <1>5, <1>6, <1>7, <1>8, <1>9, Zenon DEF Mvcc

\* db_open: ids below the catalog's count as committed.
LEMMA MvccOpen ==
    ASSUME Stored, LogOK, DiskDone, Pools, LiveOnDisk, Changes, Snapshots,
           db_open
    PROVE  Mvcc'
<1>1. /\ ~up /\ up' /\ next_txn' = (IF cat_next > 1 THEN cat_next ELSE 1) /\ committed_below' = next_txn'
      /\ UNCHANGED <<sess, txnlog, writer_txn, heap, disk, live, clobbered, forgotten>>
  BY Zenon DEF db_open, dataVars, ghostVars
<1>2. /\ txnlog = {} /\ cat_next \in Nat /\ \A s \in SessionIds : ~sess[s].in_txn
  BY <1>1, Zenon DEF LogOK, Stored, TypeOK, SInv, AtRest
<1>3. next_txn' \in Nat /\ committed_below' = next_txn' /\ cat_next <= next_txn'
  BY <1>1, <1>2
<1>4. Left' = Left /\ \A v : Clean(v)' <=> Clean(v)
  BY <1>1, Zenon DEF Left, Clean
<1>5. LogOK'
  BY <1>1, <1>2, <1>3 DEF LogOK
<1>6. DiskDone'
  BY <1>1, <1>2, <1>3, <1>4 DEF DiskDone, Stored, TypeOK, Shape, Version, Done
<1>7. Pools'
  BY <1>1, <1>4, Zenon DEF Pools
<1>8. LiveOnDisk'
  BY <1>1, <1>4, Zenon DEF LiveOnDisk
<1>9. Changes' /\ Snapshots'
  BY <1>1, <1>2, Zenon DEF Changes, Snapshots
<1> QED
  BY <1>5, <1>6, <1>7, <1>8, <1>9, Zenon DEF Mvcc

--------------------------------------------------------------------------------
(* All steps together.                                                           *)

\* Every step, given what a writing statement is.
LEMMA MvccStep ==
    ASSUME Stored, Stored', Mvcc, IdsFit, [Next]_vars,
           \A t \in Tables : exec_insert(t) \/ exec_delete(t) \/ exec_update(t) =>
              \E S, new : Written(t, S, new)
    PROVE  Mvcc'
<1>0. LogOK /\ DiskDone /\ Pools /\ LiveOnDisk /\ Changes /\ Snapshots
  BY Zenon DEF Mvcc
<1>1. CASE exec_begin \/ exec_commit \/ exec_rollback
  BY <1>0, <1>1, MvccBegin, MvccCommit, MvccRollback, Zenon
<1>2. CASE Select \/ SaveCatalog \/ \E n \in SessionIds \cup {-1} : Session(n)
  BY <1>0, <1>2, MvccControl DEF Select, SaveCatalog, Session, dataVars, ghostVars
<1>3. ASSUME NEW t \in Tables, exec_insert(t) \/ exec_delete(t) \/ exec_update(t) PROVE Mvcc'
  BY <1>0, <1>3, MvccWriteOpen, MvccWriteAuto, Zenon
<1>4. ASSUME NEW t \in Tables, StatementFails(t) PROVE Mvcc'
  BY <1>0, <1>4, MvccFails, Zenon
<1>5. ASSUME NEW t \in Tables, exec_create(t) PROVE Mvcc'
  <2>1. up /\ Autocommit(TRUE) /\ ghostVars' = ghostVars
    BY <1>5, Zenon DEF exec_create
  <2>2. heap' = heap /\ disk' = disk
    BY <1>5, StoredCreate, Zenon DEF Stored
  <2> QED
    BY <1>0, <2>1, <2>2, MvccAutocommit, Zenon
<1>6. CASE StatementRefused
  <2>1. up /\ heap' = heap /\ disk' = disk /\ ghostVars' = ghostVars
    BY <1>6 DEF StatementRefused, CanRun
  <2>2. CASE ~in_txn
    BY <1>0, <1>6, <2>1, <2>2, MvccAutocommit, Zenon DEF StatementRefused
  <2>3. CASE in_txn
    BY <1>0, <1>6, <2>1, <2>3, MvccControl, Zenon DEF StatementRefused, ghostVars
  <2> QED
    BY <2>2, <2>3, Zenon
<1>7. ASSUME NEW T, exec_vacuum(T) PROVE Mvcc'
  BY <1>0, <1>7, MvccVacuum, Zenon
<1>8. CASE db_close \/ Crash \/ db_open
  BY <1>0, <1>8, MvccStop, MvccOpen, Zenon
<1>9. CASE UNCHANGED vars
  <2>1. UNCHANGED <<up, sess, next_txn, committed_below, txnlog, writer_txn, heap, disk, cat_next>>
    BY <1>9, Zenon DEF vars, txnVars, dataVars
  <2>2. UNCHANGED <<live, begun, ins, del, clobbered, forgotten>>
    BY <1>9, Zenon DEF vars, ghostVars
  <2>3. CASE up
    BY <1>0, <2>1, <2>2, <2>3, MvccControl, Zenon
  <2>4. CASE ~up
    <3>1. \A s \in SessionIds : ~sess[s].in_txn
      BY <2>4, Zenon DEF Stored, SInv, AtRest
    <3>2. LogOK' /\ Changes' /\ Snapshots'
      BY <1>0, <2>1, <2>4, <3>1, Zenon DEF LogOK, Changes, Snapshots
    <3>3. DiskDone'
      BY <1>0, <2>1, <2>2, <2>4, Zenon DEF DiskDone, Clean, Left
    <3>4. Pools'
      BY <1>0, <2>1, <2>2, Zenon DEF Pools, Left
    <3>5. LiveOnDisk'
      BY <1>0, <2>1, <2>2, Zenon DEF LiveOnDisk, Clean, Left
    <3> QED
      BY <3>2, <3>3, <3>4, <3>5, Zenon DEF Mvcc
  <2> QED
    BY <2>3, <2>4, Zenon
<1>10. CASE CreateRefused
  <2>1. up /\ Autocommit(FALSE) /\ heap' = heap /\ disk' = disk /\ ghostVars' = ghostVars
    BY <1>10, Zenon DEF CreateRefused
  <2> QED
    BY <1>0, <2>1, MvccAutocommit, Zenon
<1> QED
  BY <1>1, <1>2, <1>3, <1>4, <1>5, <1>6, <1>7, <1>8, <1>9, <1>10, Zenon DEF Next

================================================================================
