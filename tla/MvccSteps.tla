------------------------------- MODULE MvccSteps -------------------------------
(* Why the invariant Mvcc (SessionsInv) gives what MVCC promises, and that the    *)
(* steps which change no file keep it: reads, BEGIN, ROLLBACK.                    *)
EXTENDS SessionsInv, TLAPS

--------------------------------------------------------------------------------
(* Ids of open transactions.                                                     *)

\* An open transaction is committed for nobody: not outside a transaction, and in no
\* open transaction's snapshot.
LEMMA OpenUnseen ==
    ASSUME Stored, LogOK, NEW s \in SessionIds, sess[s].in_txn
    PROVE  /\ up /\ sess[s].txn \in Nat /\ sess[s].txn > 0 /\ sess[s].txn < next_txn /\ ~Done(sess[s].txn)
           /\ \A r \in SessionIds : sess[r].in_txn => ~txn_committed_view(r, sess[s].txn)
<1>1. /\ sess \in [SessionIds -> DbSession] /\ next_txn \in Nat /\ committed_below \in Nat
      /\ sess[s].txn > 0 /\ sess[s].txn < next_txn /\ up
  BY Zenon DEF Stored, SInv, Types, OwnIds, AtRest, TypeOK
<1>2. sess[s].txn \in Nat /\ sess[s].snap_next \in Nat
  BY <1>1, Zenon DEF DbSession
<1>3. ~(sess[s].txn < committed_below) /\ sess[s].txn \notin txnlog
  BY <1>1, <1>2 DEF LogOK
<1> QED
  BY <1>1, <1>2, <1>3, Zenon DEF Done, txn_committed_view

\* A table's writer is an open transaction.
LEMMA WriterOpen ==
    ASSUME Stored, NEW t \in Tables, writer_txn[t] # 0
    PROVE  \E s \in SessionIds : sess[s].in_txn /\ sess[s].txn = writer_txn[t]
BY Zenon DEF Stored, SInv, WritersLock, LocksOpen, Lock

\* What is committed has an id already given out.
LEMMA DoneBelow ==
    ASSUME Stored, LogOK, up, NEW x \in Nat, Done(x)
    PROVE  x < next_txn
<1>1. next_txn \in Nat /\ committed_below \in Nat
  BY Zenon DEF Stored, TypeOK
<1> QED
  BY <1>1 DEF LogOK, Done

\* Clean versions of a pool bear stamps of committed transactions and of the table's
\* writer.
LEMMA PoolStamps ==
    ASSUME Stored, LogOK, DiskDone, Pools, up, NEW t \in Tables, NEW v \in heap[t], Clean(v)
    PROVE  /\ Done(v.xmin) \/ (v.xmin = writer_txn[t] /\ writer_txn[t] # 0)
           /\ v.xmax = 0 \/ Done(v.xmax) \/ (v.xmax = writer_txn[t] /\ writer_txn[t] # 0)
<1>1. \A w \in disk[t] : w.id = v.id => Done(w.xmin) /\ (w.xmax = 0 \/ Done(w.xmax))
  BY Zenon DEF DiskDone, Clean
<1>2. CASE writer_txn[t] = 0
  BY <1>1, <1>2, Zenon DEF Pools
<1>3. CASE writer_txn[t] # 0
  BY <1>1, <1>3, Zenon DEF Pools, Differs, Clean
<1> QED
  BY <1>2, <1>3, Zenon

\* A version that bears the stamp of an open transaction is in a table it writes.
LEMMA StampPlace ==
    ASSUME Stored, LogOK, DiskDone, Pools, NEW s \in SessionIds, sess[s].in_txn,
           NEW t \in Tables, NEW v \in heap[t], Clean(v), sess[s].txn \in {v.xmin, v.xmax}
    PROVE  writer_txn[t] = sess[s].txn
<1>1. up /\ sess[s].txn > 0 /\ ~Done(sess[s].txn) /\ sess[s].txn # 0
  BY OpenUnseen
<1> QED
  BY <1>1, PoolStamps, Zenon

\* A snapshot does not change when a transaction commits that is in progress for it, or
\* younger.
LEMMA ViewSame ==
    ASSUME NEW s \in SessionIds, sess[s].in_txn, sess'[s] = sess[s], committed_below' = committed_below,
           NEW y, \/ txnlog' = txnlog
                  \/ txnlog' = txnlog \cup {y} /\ (y \in sess[s].snap_inprog \/ ~(y < sess[s].snap_next))
    PROVE  /\ \A x \in Nat : txn_committed_view(s, x)' <=> txn_committed_view(s, x)
           /\ \A v \in Version : Sees(s, v)' <=> Sees(s, v)
<1>1. \A x : txn_committed_view(s, x)' <=> txn_committed_view(s, x)
  BY Zenon DEF txn_committed_view
<1> QED
  BY <1>1, Zenon DEF Sees

\* Leaving out more.
LEMMA DiffersMore ==
    ASSUME NEW h, NEW d, NEW x, NEW C, NEW D, C \subseteq D, Differs(h, d, x, C)
    PROVE  Differs(h, d, x, D)
BY Zenon DEF Differs

\* A pool that is its file differs from it by nothing.
LEMMA DiffersSame == \A d, x, C : Differs(d, d, x, C)
BY Zenon DEF Differs, Ids

--------------------------------------------------------------------------------
(* What the invariant says of reads.                                             *)

\* Outside a transaction, a clean version is read exactly when its file has it and has
\* it undeleted.
LEMMA ReadsFiles ==
    ASSUME Stored, LogOK, DiskDone, Pools, LiveOnDisk, Changes, Snapshots,
           up, NEW s \in SessionIds, ~sess[s].in_txn, NEW i, i \notin Left
    PROVE  i \in View(s, 0) <=> \E t \in Tables : \E w \in disk[t] : w.id = i /\ w.xmax = 0
<1>1. \A x : txn_committed_view(s, x) <=> Done(x)
  BY Zenon DEF txn_committed_view, Done
<1>2. ~Done(0)
  BY DEF Done
<1>3. /\ created \subseteq Tables
      /\ \A t \in Tables : \A v \in heap[t] \cup disk[t] : v.xmin # 0 /\ (t \in created)
  BY DEF Stored, Shape, TypeOK
<1>4. ASSUME NEW t \in Tables, NEW v \in heap[t], v.id = i
      PROVE  row_visible(s, v, 0) <=> \E w \in disk[t] : w.id = i /\ w.xmax = 0
  <2>1. row_visible(s, v, 0) <=> Done(v.xmin) /\ (v.xmax = 0 \/ ~Done(v.xmax))
    BY <1>1, <1>3, Zenon DEF row_visible
  <2>2. \A w \in disk[t] : w.id = i => Done(w.xmin) /\ (w.xmax = 0 \/ Done(w.xmax))
    BY Zenon DEF DiskDone, Clean
  <2>3. \A w \in disk[t], u \in disk[t] : w.id = u.id => w = u
    BY DEF Stored, Unique
  <2>4. CASE v \in disk[t]
    BY <1>4, <2>1, <2>2, <2>3, <2>4, Zenon
  <2>5. CASE v \notin disk[t]
    BY <1>4, <2>1, <2>2, <2>5, WriterOpen, OpenUnseen DEF Pools, Differs, Ids
  <2> QED
    BY <2>4, <2>5, Zenon
<1>5. ASSUME NEW t \in Tables, NEW w \in disk[t], w.id = i PROVE \E v \in heap[t] : v.id = i
  BY <1>5 DEF Pools, Differs, Ids
<1>6. i \in View(s, 0) <=> \E t \in created : \E v \in heap[t] : v.id = i /\ row_visible(s, v, 0)
  BY DEF View, Visible, Ids
<1> QED
  BY <1>3, <1>4, <1>5, <1>6, Zenon

\* So it reads what is committed.
LEMMA MvccReads == Stored /\ Mvcc => ReadCommitted
<1> SUFFICES ASSUME Stored, Mvcc, up, NEW s \in SessionIds, ~sess[s].in_txn, NEW i, i \notin Left
             PROVE  i \in View(s, 0) <=> i \in live
  BY Zenon DEF ReadCommitted, Left
<1>1. i \in View(s, 0) <=> \E t \in Tables : \E w \in disk[t] : w.id = i /\ w.xmax = 0
  BY ReadsFiles, Zenon DEF Mvcc
<1>2. \A t \in Tables : \A w \in disk[t] : w.id = i => (i \in live <=> w.xmax = 0)
  BY Zenon DEF Mvcc, LiveOnDisk, Clean
<1>3. i \in live => \E t \in Tables : \E w \in disk[t] : w.id = i
  BY Zenon DEF Mvcc, LiveOnDisk, Ids
<1> QED
  BY <1>1, <1>2, <1>3, Zenon

\* A transaction reads what it saw at its BEGIN, and its own changes.
LEMMA MvccSnapshot == Stored /\ Mvcc => SnapshotStable
<1> SUFFICES ASSUME Stored, LogOK, DiskDone, Pools, LiveOnDisk, Changes, Snapshots,
                    up, NEW s \in SessionIds, sess[s].in_txn, NEW i, i \notin Left
             PROVE  i \in View(s, sess[s].txn) <=> i \in (begun[s] \ del[s]) \cup ins[s]
  BY Zenon DEF SnapshotStable, Left, Mvcc
<1> DEFINE x == sess[s].txn
<1>1. x \in Nat /\ x # 0 /\ ~Done(x) /\ ~txn_committed_view(s, x)
  BY OpenUnseen
<1> HIDE DEF x
<1>2. \A t \in Tables : heap[t] # {} => t \in created
  BY Zenon DEF Stored, Shape
<1>3. ChangesOK(s) /\ SnapOK(s)
  BY Zenon DEF Changes, Snapshots
<1>4. ASSUME NEW t \in Tables, NEW v \in heap[t], v.id = i
      PROVE  row_visible(s, v, x) <=> i \in (begun[s] \ del[s]) \cup ins[s]
  <2>1. (i \in ins[s] <=> v.xmin = x /\ v.xmax = 0) /\ (i \in del[s] <=> v.xmax = x)
    BY <1>3, <1>4, Zenon DEF ChangesOK, Clean, x
  <2>2. \A w \in disk[t] : w.id = i => /\ i \in begun[s] <=> Sees(s, w)
                                       /\ Done(w.xmin) /\ (w.xmax = 0 \/ Done(w.xmax))
    BY <1>3, Zenon DEF SnapOK, DiskDone, Clean
  <2>3. CASE v \in disk[t]
    BY <1>1, <1>4, <2>1, <2>2, <2>3 DEF row_visible, Sees
  <2>4. CASE v \notin disk[t]
    <3> DEFINE z == writer_txn[t]
    <3>1. z # 0 /\ Differs(heap[t], disk[t], z, Left)
      BY <2>4, Zenon DEF Pools
    <3>2. ~Done(z) /\ ~txn_committed_view(s, z)
      BY <3>1, WriterOpen, OpenUnseen, Zenon
    <3>3. \/ v.xmin = z /\ v.xmax \in {0, z} /\ v.id \notin Ids(disk[t])
          \/ v.xmax = z /\ \E w \in disk[t] : w.id = v.id /\ w.xmin = v.xmin /\ w.xmax = 0
      BY <1>4, <2>4, <3>1, Zenon DEF Differs
    <3> HIDE DEF z
    <3>4. CASE v.xmin = z /\ v.xmax \in {0, z} /\ v.id \notin Ids(disk[t])
      BY <1>1, <1>3, <1>4, <2>1, <3>1, <3>2, <3>4 DEF SnapOK, Stored, Unique, Ids,
         row_visible
    <3>5. CASE v.xmax = z /\ \E w \in disk[t] : w.id = v.id /\ w.xmin = v.xmin /\ w.xmax = 0
      BY <1>1, <1>4, <2>1, <2>2, <3>1, <3>2, <3>5, Zenon DEF Sees, row_visible
    <3> QED
      BY <3>3, <3>4, <3>5, Zenon
  <2> QED
    BY <2>3, <2>4, Zenon
<1>5. i \in (begun[s] \ del[s]) \cup ins[s] => \E t \in Tables : \E v \in heap[t] : v.id = i
  BY <1>3 DEF ChangesOK, Ids, SnapOK, Pools, Differs
<1>6. i \in View(s, x) <=> \E t \in created : \E v \in heap[t] : v.id = i /\ row_visible(s, v, x)
  BY DEF View, Visible, Ids
<1>7. created \subseteq Tables
  BY Zenon DEF Stored, TypeOK
<1> QED
  BY <1>2, <1>4, <1>5, <1>6, <1>7, Zenon DEF x

--------------------------------------------------------------------------------
(* Every step keeps it.                                                          *)

\* The database the model starts from.
LEMMA MvccInit == Init => Mvcc
<1> SUFFICES ASSUME Init PROVE Mvcc
  BY Zenon
<1>1. /\ up /\ next_txn = 3 /\ committed_below = 3 /\ txnlog = {} /\ live = {1} /\ heap = disk
      /\ writer_txn = [t \in Tables |-> 0] /\ \A s \in SessionIds : ~sess[s].in_txn
      /\ disk = [t \in Tables |->
           IF t = InitTable THEN {[id |-> 1, row |-> 1, xmin |-> 2, xmax |-> 0]} ELSE {}]
  BY Zenon DEF Init, InitHeap, NoTxn
<1>2. \A t \in Tables : \A v \in disk[t] : v.id = 1 /\ v.xmin = 2 /\ v.xmax = 0
  BY <1>1
<1>3. 1 \in Ids(disk[InitTable])
  BY <1>1, SessionsAssumption, Zenon DEF Ids
<1>4. LogOK
  BY <1>1 DEF LogOK
<1>5. DiskDone
  BY <1>1, <1>2 DEF DiskDone, Done
<1>6. Pools
  BY <1>1, Zenon DEF Pools
<1>7. LiveOnDisk
  BY <1>1, <1>2, <1>3, SessionsAssumption, Zenon DEF LiveOnDisk
<1>8. Changes /\ Snapshots
  BY <1>1, Zenon DEF Changes, Snapshots
<1> QED
  BY <1>4, <1>5, <1>6, <1>7, <1>8, Zenon DEF Mvcc

\* A statement's own transaction: its id is new, and no snapshot has it.
LEMMA AutocommitLog ==
    ASSUME Stored, LogOK, IdsFit, up, NEW ok \in BOOLEAN, Autocommit(ok)
    PROVE  /\ LogOK' /\ txnlog' = IF ok THEN txnlog \cup {next_txn} ELSE txnlog
           /\ committed_below' = committed_below /\ up' /\ sess' = sess
           /\ next_txn \in Nat /\ next_txn > 0 /\ ~Done(next_txn)
           /\ \A s \in SessionIds : sess[s].in_txn =>
                 /\ sess[s].txn # next_txn /\ ~txn_committed_view(s, next_txn)
                 /\ \A x \in Nat : txn_committed_view(s, x)' <=> txn_committed_view(s, x)
                 /\ \A v \in Version : Sees(s, v)' <=> Sees(s, v)
<1>1. /\ next_txn \in Nat /\ next_txn > 0 /\ committed_below \in Nat /\ txnlog \subseteq Nat
      /\ sess \in [SessionIds -> DbSession]
      /\ \A s \in SessionIds : sess[s].in_txn => sess[s].txn \in Nat /\ sess[s].txn < next_txn
  BY DEF Stored, SInv, Types, TypeOK, OwnIds, DbSession
<1>2. TXN_MAX \in Nat /\ MaxTxn \in Nat
  BY SessionsAssumption, Zenon
<1>3. /\ next_txn <= MaxTxn /\ next_txn' = next_txn + 1 /\ up' = up /\ sess' = sess
      /\ committed_below' = committed_below
      /\ txnlog' = IF ok THEN txnlog_commit(next_txn) ELSE txnlog_abort(next_txn)
  BY Zenon DEF Autocommit
<1>4. committed_below <= next_txn /\ \A x \in txnlog : x < next_txn
  BY Zenon DEF LogOK
<1>5. next_txn \notin txnlog
  BY <1>1, <1>4
<1>6. txnlog' = IF ok THEN txnlog \cup {next_txn} ELSE txnlog
  <2>1. next_txn < TXN_MAX
    BY <1>1, <1>2, <1>3 DEF IdsFit
  <2> QED
    BY <1>3, <1>5, <2>1, Zenon DEF txnlog_commit, txnlog_abort
<1>7. LogOK'
  <2>1. committed_below <= next_txn + 1 /\ \A x \in txnlog' : x < next_txn + 1
    BY <1>1, <1>4, <1>6
  <2>2. \A s \in SessionIds : sess[s].in_txn => sess[s].txn # next_txn
    BY <1>1
  <2>3. \A s \in SessionIds : sess[s].in_txn => sess[s].txn \notin txnlog'
    BY <1>6, <2>2 DEF LogOK
  <2> QED
    BY <1>3, <2>1, <2>3, Zenon DEF LogOK
<1>8. ~Done(next_txn)
  BY <1>1, <1>4, <1>5 DEF Done
<1>9. ASSUME NEW s \in SessionIds, sess[s].in_txn
      PROVE  /\ sess[s].txn # next_txn /\ ~txn_committed_view(s, next_txn)
             /\ \A x \in Nat : txn_committed_view(s, x)' <=> txn_committed_view(s, x)
             /\ \A v \in Version : Sees(s, v)' <=> Sees(s, v)
  BY <1>1, <1>3, <1>6, <1>8, <1>9, ViewSame DEF LogOK, txn_committed_view, Done
<1> QED
  BY <1>1, <1>3, <1>6, <1>7, <1>8, <1>9, Zenon

\* Steps that leave versions, sessions and promises alone.
LEMMA MvccQuiet ==
    ASSUME Stored, LogOK, DiskDone, Pools, LiveOnDisk, Changes, Snapshots, LogOK', Pools', up, up',
           UNCHANGED <<sess, committed_below, heap, disk, live, begun, ins, del, clobbered, forgotten>>,
           txnlog \subseteq txnlog',
           \A s \in SessionIds : sess[s].in_txn => \A v \in Version : Sees(s, v)' <=> Sees(s, v)
    PROVE  Mvcc'
<1>1. Left' = Left /\ \A v : Clean(v)' <=> Clean(v)
  BY Zenon DEF Left, Clean
<1>2. \A x : Done(x) => Done(x)'
  BY Zenon DEF Done
<1>3. DiskDone'
  BY <1>1, <1>2, Zenon DEF DiskDone
<1>4. LiveOnDisk'
  BY <1>1, Zenon DEF LiveOnDisk
<1>5. Changes'
  BY <1>1, Zenon DEF Changes, ChangesOK
<1>6. Snapshots'
  BY <1>1, Zenon DEF Snapshots, Stored, TypeOK, SnapOK
<1> QED
  BY <1>3, <1>4, <1>5, <1>6, Zenon DEF Mvcc

\* SESSION, SELECT, writing the catalog, and statements of a transaction that are refused.
LEMMA MvccControl ==
    ASSUME Stored, LogOK, DiskDone, Pools, LiveOnDisk, Changes, Snapshots, up, up',
           UNCHANGED <<sess, next_txn, committed_below, txnlog, writer_txn, heap, disk>>,
           UNCHANGED <<live, begun, ins, del, clobbered, forgotten>>
    PROVE  Mvcc'
<1>1. LogOK'
  BY Zenon DEF LogOK
<1>2. Pools'
  BY Zenon DEF Pools, Left
<1>3. \A s \in SessionIds : sess[s].in_txn => \A v \in Version : Sees(s, v)' <=> Sees(s, v)
  BY ViewSame, Zenon
<1> QED
  BY <1>1, <1>2, <1>3, MvccQuiet, Zenon

\* Statements outside a transaction that change no version: they fail or are refused, or
\* create a table.
LEMMA MvccAutocommit ==
    ASSUME Stored, LogOK, DiskDone, Pools, LiveOnDisk, Changes, Snapshots,
           IdsFit, up, NEW ok \in BOOLEAN, Autocommit(ok),
           heap' = heap, disk' = disk, ghostVars' = ghostVars
    PROVE  Mvcc'
<1>1. /\ LogOK' /\ txnlog \subseteq txnlog' /\ UNCHANGED <<sess, committed_below>> /\ up'
      /\ \A s \in SessionIds : sess[s].in_txn => \A v \in Version : Sees(s, v)' <=> Sees(s, v)
  BY AutocommitLog, Zenon
<1>2. writer_txn' = writer_txn /\ UNCHANGED <<live, begun, ins, del, clobbered, forgotten>>
  BY Zenon DEF Autocommit, ghostVars
<1>3. Pools'
  BY <1>2, Zenon DEF Pools, Left
<1> QED
  BY <1>1, <1>2, <1>3, MvccQuiet, Zenon

\* BEGIN: the snapshot has every committed transaction and no open one, and so finds
\* what a statement outside a transaction reads.
LEMMA MvccBegin ==
    ASSUME Stored, LogOK, DiskDone, Pools, LiveOnDisk, Changes, Snapshots,
           exec_begin
    PROVE  Mvcc'
<1>0. PICK c \in SessionIds : c = cur_session
  BY Zenon DEF Stored, TypeOK
<1> DEFINE I == {sess[i].txn : i \in {j \in SessionIds : sess[j].in_txn}}
<1>1. /\ up /\ up' /\ ~sess[c].in_txn /\ next_txn <= MaxTxn /\ next_txn' = next_txn + 1
      /\ sess' = [sess EXCEPT ![c] = [in_txn |-> TRUE, txn |-> next_txn, snap_next |-> next_txn + 1,
                                      snap_inprog |-> I]]
      /\ txnlog' = txnlog \ {next_txn}
      /\ begun' = [begun EXCEPT ![c] = View(c, 0)]
      /\ ins' = [ins EXCEPT ![c] = {}] /\ del' = [del EXCEPT ![c] = {}]
      /\ UNCHANGED <<committed_below, writer_txn, heap, disk, live, clobbered, forgotten>>
  BY <1>0, Zenon DEF exec_begin, dataVars, in_txn, txnlog_abort
<1>2. /\ sess \in [SessionIds -> DbSession] /\ c \in SessionIds /\ next_txn \in Nat /\ next_txn > 0
      /\ txnlog \subseteq Nat /\ committed_below \in Nat /\ disk \in [Tables -> SUBSET Version]
      /\ heap \in [Tables -> SUBSET Version]
      /\ begun \in [SessionIds -> SUBSET Nat] /\ ins \in [SessionIds -> SUBSET Nat]
      /\ del \in [SessionIds -> SUBSET Nat]
      /\ \A s \in SessionIds : sess[s].in_txn => sess[s].txn \in Nat /\ sess[s].txn < next_txn
  BY DEF Stored, SInv, Types, TypeOK, OwnIds, DbSession
<1>3. committed_below <= next_txn /\ \A x \in txnlog : x < next_txn
  BY <1>1, Zenon DEF LogOK
<1>4. txnlog' = txnlog
  BY <1>1, <1>2, <1>3
<1>5. /\ sess'[c].in_txn /\ sess'[c].txn = next_txn /\ sess'[c].snap_next = next_txn + 1
      /\ sess'[c].snap_inprog = I
      /\ \A s \in SessionIds \ {c} : sess'[s] = sess[s]
      /\ ins'[c] = {} /\ del'[c] = {} /\ begun'[c] = View(c, 0)
      /\ \A s \in SessionIds \ {c} : ins'[s] = ins[s] /\ del'[s] = del[s] /\ begun'[s] = begun[s]
  BY <1>1, <1>2, Zenon
<1>6. \A s \in SessionIds : sess[s].in_txn => sess[s].txn \in I
  BY Zenon
<1>7. ASSUME NEW x, x \in I PROVE ~Done(x)
  BY <1>7, OpenUnseen, Zenon
<1> HIDE DEF I
<1>8. LogOK'
  BY <1>1, <1>2, <1>3, <1>4, <1>5, <1>6 DEF LogOK
<1>9. Left' = Left /\ (\A v : Clean(v)' <=> Clean(v)) /\ \A x : Done(x)' <=> Done(x)
  BY <1>1, <1>4, Zenon DEF Left, Clean, Done
<1>10. DiskDone' /\ Pools' /\ LiveOnDisk'
  BY <1>1, <1>9, Zenon DEF DiskDone, Pools, LiveOnDisk
<1>11. Changes'
  <2>1. 0 # next_txn /\ \A x \in Nat : Done(x) => x # next_txn
    BY <1>1, <1>2, DoneBelow
  <2>2. ASSUME NEW t \in Tables, writer_txn[t] # 0 PROVE writer_txn[t] # next_txn
    <3>1. PICK s \in SessionIds : sess[s].in_txn /\ sess[s].txn = writer_txn[t]
      BY <2>2, WriterOpen, Zenon
    <3> QED
      BY <1>2, <3>1
  <2>3. ASSUME NEW t \in Tables, NEW v \in heap[t], Clean(v)
        PROVE  v.xmin # next_txn /\ v.xmax # next_txn
    <3>1. v \in Version
      BY <1>2, Zenon
    <3>2. v.xmin \in Nat /\ v.xmax \in Nat
      BY <3>1, Zenon DEF Version
    <3> QED
      BY <1>1, <2>1, <2>2, <2>3, <3>2, PoolStamps, Zenon
  <2>4. ChangesOK(c)'
    <3>1. ASSUME NEW t \in Tables, NEW v \in heap'[t], Clean(v)'
          PROVE  v.xmin # sess'[c].txn /\ v.xmax # sess'[c].txn
      <4>1. v \in heap[t] /\ Clean(v)
        BY <1>1, <1>9, <3>1, Zenon
      <4> QED
        BY <1>5, <2>3, <4>1, Zenon
    <3> QED
      BY <1>5, <3>1, Zenon DEF ChangesOK
  <2>5. ASSUME NEW s \in SessionIds \ {c}, sess[s].in_txn PROVE ChangesOK(s)'
    <3>1. /\ ChangesOK(s) /\ sess'[s] = sess[s] /\ ins'[s] = ins[s] /\ del'[s] = del[s]
          /\ heap' = heap
      BY <1>1, <1>5, <2>5, Zenon DEF Changes
    <3> QED
      BY <1>9, <3>1, Zenon DEF ChangesOK
  <2> QED
    BY <1>5, <2>4, <2>5, Zenon DEF Changes
<1>12. Snapshots'
  <2> SUFFICES ASSUME NEW s \in SessionIds, sess'[s].in_txn PROVE SnapOK(s)'
    BY Zenon DEF Snapshots
  <2>1. CASE s = c
    <3>1. \A x \in Nat : Done(x) => txn_committed_view(c, x)'
      BY <1>1, <1>2, <1>4, <1>5, <1>7, DoneBelow DEF txn_committed_view, Done
    <3>2. ASSUME NEW t \in Tables, NEW v \in disk[t], Clean(v)
          PROVE  v.id \in View(c, 0) <=> Sees(c, v)'
      <4>1. v.id \in View(c, 0) <=> \E a \in Tables : \E w \in disk[a] : w.id = v.id /\ w.xmax = 0
        BY <1>1, <3>2, ReadsFiles DEF Clean
      <4>2. (\E a \in Tables : \E w \in disk[a] : w.id = v.id /\ w.xmax = 0) <=> v.xmax = 0
        BY <3>2, Zenon DEF Stored, Unique
      <4>3. v.xmin \in Nat /\ v.xmax \in Nat /\ Done(v.xmin) /\ (v.xmax = 0 \/ Done(v.xmax))
        <5>1. v \in Version
          BY <1>2, <3>2, Zenon
        <5> QED
          BY <1>1, <3>2, <5>1, Zenon DEF DiskDone, Version
      <4> QED
        BY <3>1, <4>1, <4>2, <4>3, Zenon DEF Sees
    <3>3. ASSUME NEW i \in View(c, 0), i \notin Left PROVE \E t \in Tables : i \in Ids(disk[t])
      <4>1. \E t \in Tables : \E w \in disk[t] : w.id = i /\ w.xmax = 0
        BY <1>1, <3>3, ReadsFiles
      <4> QED
        BY <4>1, Zenon DEF Ids
    <3> QED
      <4>1. disk' = disk /\ begun'[s] = View(c, 0)
        BY <1>1, <1>5, <2>1, Zenon
      <4> QED
        BY <1>9, <2>1, <3>2, <3>3, <4>1, Zenon DEF SnapOK
  <2>2. CASE s # c
    <3>1. SnapOK(s) /\ sess[s].in_txn /\ sess'[s] = sess[s] /\ begun'[s] = begun[s] /\ disk' = disk
      BY <1>1, <1>5, <2>2, Zenon DEF Snapshots
    <3>2. \A v \in Version : Sees(s, v)' <=> Sees(s, v)
      BY <1>1, <1>4, <3>1, ViewSame, Zenon
    <3> QED
      BY <1>2, <1>9, <3>1, <3>2, Zenon DEF SnapOK
  <2> QED
    BY <2>1, <2>2, Zenon
<1> QED
  BY <1>8, <1>10, <1>11, <1>12, Zenon DEF Mvcc

\* The end of the current session's transaction, as the others see it.
LEMMA EndLog ==
    ASSUME Stored, LogOK, IdsFit, up, in_txn, EndTxn,
           txnlog' = txnlog_commit(own) \/ txnlog' = txnlog_abort(own)
    PROVE  /\ LogOK' /\ up' /\ committed_below' = committed_below
           /\ txnlog' \in {txnlog, txnlog \cup {own}}
           /\ txnlog' = txnlog_commit(own) => txnlog' = txnlog \cup {own}
           /\ own = sess[cur_session].txn /\ ~sess'[cur_session].in_txn
           /\ \A s \in SessionIds \ {cur_session} :
                 /\ sess'[s] = sess[s] /\ begun'[s] = begun[s] /\ ins'[s] = ins[s] /\ del'[s] = del[s]
                 /\ sess[s].in_txn => /\ sess[s].txn # own /\ ~txn_committed_view(s, own)
                                      /\ \A v \in Version : Sees(s, v)' <=> Sees(s, v)
<1> DEFINE c == cur_session
<1>1. /\ sess' = [sess EXCEPT ![c] = NoTxn] /\ begun' = [begun EXCEPT ![c] = {}]
      /\ ins' = [ins EXCEPT ![c] = {}] /\ del' = [del EXCEPT ![c] = {}]
      /\ UNCHANGED <<up, next_txn, committed_below>>
  BY Zenon DEF EndTxn
<1>2. /\ sess \in [SessionIds -> DbSession] /\ c \in SessionIds /\ next_txn \in Nat /\ TXN_MAX \in Nat
      /\ begun \in [SessionIds -> SUBSET Nat] /\ ins \in [SessionIds -> SUBSET Nat]
      /\ del \in [SessionIds -> SUBSET Nat] /\ MaxTxn \in Nat
  BY SessionsAssumption, Zenon DEF Stored, TypeOK
<1>3. own = sess[c].txn /\ sess[c].in_txn
  BY Zenon DEF own, Own, in_txn
<1>4. own \in Nat /\ own < next_txn /\ own \notin txnlog /\ own < TXN_MAX
  BY <1>2, <1>3, OpenUnseen DEF LogOK, IdsFit
<1>5. /\ txnlog' \in {txnlog, txnlog \cup {own}}
      /\ txnlog' = txnlog_commit(own) => txnlog' = txnlog \cup {own}
  BY <1>4, Zenon DEF txnlog_commit, txnlog_abort
<1>6. /\ ~sess'[c].in_txn
      /\ \A s \in SessionIds \ {c} :
           sess'[s] = sess[s] /\ begun'[s] = begun[s] /\ ins'[s] = ins[s] /\ del'[s] = del[s]
  BY <1>1, <1>2, Zenon DEF NoTxn
<1> HIDE DEF c
<1>7. ASSUME NEW s \in SessionIds \ {c}, sess[s].in_txn
      PROVE  /\ sess[s].txn # own /\ ~txn_committed_view(s, own)
             /\ \A v \in Version : Sees(s, v)' <=> Sees(s, v)
  <2>1. sess[s].txn # own
    BY <1>2, <1>3, <1>7, Zenon DEF Stored, SInv, OwnIds
  <2>2. ~txn_committed_view(s, own)
    BY <1>2, <1>3, <1>7, OpenUnseen, Zenon
  <2>3. own \in sess[s].snap_inprog \/ ~(own < sess[s].snap_next)
    BY <1>2, <1>3, <1>4, <1>7 DEF LogOK, DbSession
  <2> QED
    BY <1>1, <1>5, <1>6, <1>7, <2>1, <2>2, <2>3, ViewSame, Zenon
<1>8. LogOK'
  <2>1. IF up' THEN committed_below' <= next_txn' /\ \A x \in txnlog' : x < next_txn'
               ELSE txnlog' = {}
    BY <1>1, <1>4, <1>5, Zenon DEF LogOK
  <2>2. ASSUME NEW s \in SessionIds, sess'[s].in_txn
        PROVE  s \in SessionIds \ {c} /\ sess'[s] = sess[s] /\ sess[s].in_txn
    BY <1>6, <2>2, Zenon
  <2>3. \A s \in SessionIds : sess'[s].in_txn =>
            /\ sess'[s].txn >= committed_below' /\ sess'[s].txn \notin txnlog' /\ sess'[s].txn <= MaxTxn
            /\ sess'[s].snap_next = sess'[s].txn + 1
    BY <1>1, <1>5, <1>7, <2>2, Zenon DEF LogOK
  <2>4. \A r, s \in SessionIds : r # s /\ sess'[r].in_txn /\ sess'[s].in_txn =>
            sess'[r].txn \in sess'[s].snap_inprog \/ sess'[r].txn > sess'[s].txn
    BY <2>2, Zenon DEF LogOK
  <2> QED
    BY <2>1, <2>3, <2>4, Zenon DEF LogOK
<1> QED
  BY <1>1, <1>3, <1>5, <1>6, <1>7, <1>8, Zenon DEF c

\* ROLLBACK: the files never had the transaction's stamps.
LEMMA MvccRollback ==
    ASSUME Stored, LogOK, DiskDone, Pools, LiveOnDisk, Changes, Snapshots,
           IdsFit, exec_rollback
    PROVE  Mvcc'
<1>1. /\ up /\ in_txn /\ EndTxn /\ txnlog' = txnlog_abort(own) /\ live' = live /\ disk' = disk
      /\ heap' = [t \in Tables |-> IF writer_txn[t] = own THEN disk[t] ELSE heap[t]]
      /\ writer_txn' = [t \in Tables |-> IF writer_txn[t] = own THEN 0 ELSE writer_txn[t]]
      /\ clobbered' = clobbered /\ forgotten' = forgotten
  BY Zenon DEF exec_rollback, txn_abort_tables, EndTxn
<1>2. PICK c \in SessionIds : c = cur_session
  BY Zenon DEF Stored, TypeOK
<1>3. /\ LogOK' /\ up' /\ committed_below' = committed_below /\ txnlog \subseteq txnlog'
      /\ own = sess[c].txn /\ ~sess'[c].in_txn
      /\ \A s \in SessionIds \ {c} :
            /\ sess'[s] = sess[s] /\ begun'[s] = begun[s] /\ ins'[s] = ins[s] /\ del'[s] = del[s]
            /\ sess[s].in_txn => sess[s].txn # own /\ \A v \in Version : Sees(s, v)' <=> Sees(s, v)
  BY <1>1, <1>2, EndLog, Zenon
<1>4. Left' = Left /\ (\A v : Clean(v)' <=> Clean(v)) /\ \A x : Done(x) => Done(x)'
  BY <1>1, <1>3, Zenon DEF Left, Clean, Done
<1>5. DiskDone'
  BY <1>1, <1>3, <1>4, Zenon DEF DiskDone
<1>6. LiveOnDisk'
  BY <1>1, <1>4, Zenon DEF LiveOnDisk
<1>7. Pools'
  BY <1>1, <1>4, Zenon DEF Pools
<1>8. ASSUME NEW s \in SessionIds, sess'[s].in_txn PROVE ChangesOK(s)' /\ SnapOK(s)'
  <2>1. /\ s # c /\ sess[s].in_txn /\ sess'[s] = sess[s] /\ begun'[s] = begun[s]
        /\ ins'[s] = ins[s] /\ del'[s] = del[s] /\ sess[s].txn # own
        /\ \A v \in Version : Sees(s, v)' <=> Sees(s, v)
    BY <1>3, <1>8, Zenon
  <2>2. ChangesOK(s) /\ SnapOK(s)
    BY <2>1, Zenon DEF Changes, Snapshots
  <2>3. disk \in [Tables -> SUBSET Version]
    BY Zenon DEF Stored, TypeOK
  <2>4. SnapOK(s)'
    BY <1>1, <1>4, <2>1, <2>2, <2>3, Zenon DEF SnapOK
  <2>5. ~Done(sess[s].txn) /\ sess[s].txn # 0
    BY <2>1, OpenUnseen
  <2>6. ASSUME NEW t \in Tables, NEW v \in heap[t], Clean(v), v.id \in ins[s] \cup del[s]
        PROVE  writer_txn[t] # own
    BY <2>1, <2>2, <2>6, StampPlace, Zenon DEF ChangesOK
  <2>7. ASSUME NEW t \in Tables, NEW v \in heap'[t], Clean(v)
        PROVE  /\ v.id \in ins[s] <=> v.xmin = sess[s].txn /\ v.xmax = 0
               /\ v.id \in del[s] <=> v.xmax = sess[s].txn
    <3>1. CASE writer_txn[t] # own
      <4>1. v \in heap[t]
        BY <1>1, <2>7, <3>1, Zenon
      <4> QED
        BY <2>2, <2>7, <4>1, Zenon DEF ChangesOK
    <3>2. CASE writer_txn[t] = own
      <4>1. v \in disk[t]
        BY <1>1, <2>7, <3>2, Zenon
      <4>2. v.xmin # sess[s].txn /\ v.xmax # sess[s].txn
        BY <1>1, <2>5, <2>7, <4>1, Zenon DEF DiskDone
      <4>3. v.id \notin ins[s] \cup del[s]
        <5> SUFFICES ASSUME v.id \in ins[s] \cup del[s] PROVE FALSE
          BY Zenon
        <5>1. PICK u \in Tables : v.id \in Ids(heap[u])
          BY <2>2, <2>7, Zenon DEF ChangesOK, Clean
        <5>2. PICK w \in heap[u] : w.id = v.id
          BY <5>1, Zenon DEF Ids
        <5>3. u = t
          <6>1. \A a \in heap[u] : \A b \in disk[t] : a.id = b.id => u = t
            BY DEF Stored, Unique
          <6> QED
            BY <4>1, <5>2, <6>1, Zenon
        <5> QED
          BY <2>6, <2>7, <3>2, <5>2, <5>3, Zenon DEF Clean
      <4> QED
        BY <4>2, <4>3, Zenon
    <3> QED
      BY <3>1, <3>2, Zenon
  <2>8. ASSUME NEW i \in ins[s] \cup del[s], i \notin Left
        PROVE  \E t \in Tables : i \in Ids(heap'[t])
    <3>1. PICK t \in Tables : i \in Ids(heap[t])
      BY <2>2, <2>8, Zenon DEF ChangesOK
    <3>2. PICK v \in heap[t] : v.id = i
      BY <3>1, Zenon DEF Ids
    <3>3. writer_txn[t] # own
      BY <2>6, <2>8, <3>2, Zenon DEF Clean
    <3>4. heap'[t] = heap[t]
      BY <1>1, <3>3, Zenon
    <3> QED
      BY <3>1, <3>4, Zenon
  <2> QED
    BY <1>4, <2>1, <2>4, <2>7, <2>8, Zenon DEF ChangesOK
<1> QED
  BY <1>3, <1>5, <1>6, <1>7, <1>8, Zenon DEF Changes, Snapshots, Mvcc

\* Files get what transaction x wrote: their stamps are committed, and open snapshots
\* find in them what they found before.
LEMMA Publish ==
    ASSUME Stored, Stored', LogOK, DiskDone, Pools, LiveOnDisk, Changes, Snapshots,
           up, up', NEW x, x # 0,
           \A y : Done(y) => Done(y)', Done(x)', Left \subseteq Left', disk' \in [Tables -> SUBSET Version],
           \A t \in Tables : disk'[t] = disk[t] \/ Differs(disk'[t], disk[t], x, Left')
    PROVE  /\ DiskDone'
           /\ \A s \in SessionIds :
                 /\ sess[s].in_txn /\ begun'[s] = begun[s]
                 /\ ~txn_committed_view(s, x) /\ \A v \in Version : Sees(s, v)' <=> Sees(s, v)
                 => SnapOK(s)'
<1>1. \A v : Clean(v)' <=> v.id \notin Left'
  BY Zenon DEF Clean
<1>2. \A v : v.id \notin Left' => Clean(v)
  BY Zenon DEF Clean
<1>3. \A t \in Tables : \A v \in disk[t] : Clean(v) => Done(v.xmin) /\ (v.xmax = 0 \/ Done(v.xmax))
  BY Zenon DEF DiskDone
<1>4. ASSUME NEW t \in Tables, NEW v \in disk'[t], v.id \notin Left'
      PROVE  \/ v \in disk[t]
             \/ v.xmin = x /\ v.xmax \in {0, x} /\ v.id \notin Ids(disk[t])
             \/ v.xmax = x /\ \E w \in disk[t] : w.id = v.id /\ w.xmin = v.xmin /\ w.xmax = 0
  BY <1>4, Zenon DEF Differs
<1>5. ASSUME NEW t \in Tables, NEW v \in disk'[t], v.id \notin Left'
      PROVE  Done(v.xmin)' /\ (v.xmax = 0 \/ Done(v.xmax)')
  BY <1>2, <1>3, <1>4, <1>5, Zenon DEF Clean
<1>6. DiskDone'
  BY <1>1, <1>5, Zenon DEF DiskDone
<1>7. ASSUME NEW s \in SessionIds, sess[s].in_txn, begun'[s] = begun[s],
             ~txn_committed_view(s, x), \A v \in Version : Sees(s, v)' <=> Sees(s, v)
      PROVE  SnapOK(s)'
  <2>1. SnapOK(s)
    BY <1>7, Zenon DEF Snapshots
  <2>2. ASSUME NEW t \in Tables, NEW v \in disk'[t], v.id \notin Left'
        PROVE  v.id \in begun[s] <=> Sees(s, v)
    <3>1. Clean(v)
      BY <1>2, <2>2, Zenon
    <3>2. CASE v \in disk[t]
      BY <2>1, <3>1, <3>2, Zenon DEF SnapOK
    <3>3. CASE v.xmin = x /\ v.xmax \in {0, x} /\ v.id \notin Ids(disk[t])
      <4>1. ~Sees(s, v)
        BY <1>7, <3>3, Zenon DEF Sees
      <4>2. ASSUME v.id \in begun[s] PROVE FALSE
        <5>1. v.id \notin Left
          BY <3>1, Zenon DEF Clean
        <5>2. PICK a \in Tables : v.id \in Ids(disk[a])
          BY <2>1, <4>2, <5>1, Zenon DEF SnapOK
        <5> QED
          <6>1. \A u \in disk'[a] : u.id = v.id => a = t
            <7>1. Unique'
              BY Zenon DEF Stored
            <7> QED
              BY <7>1, Zenon DEF Unique
          <6>2. PICK w \in disk[a] : w.id = v.id
            BY <5>2, Zenon DEF Ids
          <6>3. v.id \in Ids(disk'[a])
            <7>1. CASE disk'[a] = disk[a]
              BY <5>2, <7>1, Zenon
            <7>2. CASE Differs(disk'[a], disk[a], x, Left')
              <8>1. w.id \notin Left'
                BY <2>2, <6>2, Zenon
              <8>2. w.id \in Ids(disk'[a])
                BY <7>2, <8>1, Zenon DEF Differs
              <8> QED
                BY <6>2, <8>2, Zenon
            <7> QED
              BY <7>1, <7>2, Zenon
          <6>4. a = t
            BY <6>1, <6>3, Zenon DEF Ids
          <6> QED
            BY <3>3, <5>2, <6>4, Zenon
      <4> QED
        BY <4>1, <4>2, Zenon
    <3>4. CASE v.xmax = x /\ \E w \in disk[t] : w.id = v.id /\ w.xmin = v.xmin /\ w.xmax = 0
      BY <1>7, <2>1, <3>1, <3>4, Zenon DEF SnapOK, Clean, Sees
    <3> QED
      BY <1>4, <2>2, <3>2, <3>3, <3>4, Zenon
  <2>3. ASSUME NEW i \in begun[s], i \notin Left' PROVE \E t \in Tables : i \in Ids(disk'[t])
    <3>1. PICK a \in Tables : i \in Ids(disk[a])
      BY <2>1, <2>3, Zenon DEF SnapOK
    <3>2. PICK w \in disk[a] : w.id = i
      BY <3>1, Zenon DEF Ids
    <3>3. i \in Ids(disk'[a])
      <4>1. CASE disk'[a] = disk[a]
        BY <3>1, <4>1, Zenon
      <4>2. CASE Differs(disk'[a], disk[a], x, Left')
        <5>1. w.id \in Ids(disk'[a])
          BY <2>3, <3>2, <4>2, Zenon DEF Differs
        <5> QED
          BY <3>2, <5>1, Zenon
      <4> QED
        BY <4>1, <4>2, Zenon
    <3> QED
      BY <3>3, Zenon
  <2> QED
    BY <1>1, <1>7, <2>2, <2>3, Zenon DEF SnapOK
<1> QED
  BY <1>6, <1>7, Zenon
================================================================================
