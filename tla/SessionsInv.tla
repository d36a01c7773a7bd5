------------------------------ MODULE SessionsInv ------------------------------
(* The inductive invariants of Sessions: SInv for the locks and the writers,     *)
(* Stored for the versions in the pools and in the files, Mvcc for what statements *)
(* read.  SessionsProofs, MvccSteps, MvccWrites and MvccProofs prove them.       *)
EXTENDS Sessions

--------------------------------------------------------------------------------
(* Locks and writers.                                                            *)

LockSet == [txn : Nat, obj : Tables, mode : LockMode]

\* The types OneWriter depends on.
Types ==
    /\ up \in BOOLEAN
    /\ sess \in [SessionIds -> DbSession] /\ cur_session \in SessionIds
    /\ next_txn \in Nat \ {0} /\ cat_next \in Nat
    /\ locks \subseteq LockSet
    /\ writer_txn \in [Tables -> Nat]
    /\ heap = [t \in Tables |-> heap[t]] /\ disk = [t \in Tables |-> disk[t]]
    /\ created \subseteq Tables

\* Open transactions have ids of their own, already given out.
OwnIds ==
    /\ \A s \in SessionIds : sess[s].in_txn => sess[s].txn > 0 /\ sess[s].txn < next_txn
    /\ \A r, s \in SessionIds : sess[r].in_txn /\ sess[s].in_txn /\ sess[r].txn = sess[s].txn => r = s

\* A database that is closed has no transaction.
AtRest == ~up => \A s \in SessionIds : ~sess[s].in_txn

Differences ==
    \A t \in Tables : \A v \in heap[t] \ disk[t] :
        writer_txn[t] # 0 /\ writer_txn[t] \in {v.xmin, v.xmax}
LocksOpen == \A l \in locks : \E s \in SessionIds : sess[s].in_txn /\ sess[s].txn = l.txn
WritersLock == \A t \in Tables : writer_txn[t] # 0 => Lock(writer_txn[t], t, "X") \in locks

SInv == Types /\ OwnIds /\ AtRest /\ ExclusiveIn(locks) /\ LocksOpen /\ WritersLock /\ Differences

--------------------------------------------------------------------------------
(* The stored versions.                                                          *)

\* Versions have numbers already given out and a creator; none is in a table that does
\* not exist.
Shape ==
    /\ \A t \in Tables : \A v \in heap[t] \cup disk[t] : v.id < nid /\ v.xmin > 0
    /\ \A t \in Tables \ created : heap[t] = {} /\ disk[t] = {}

\* A number names one version of a pool and one of the files, of the same table and
\* by the same creator.
Unique ==
    \A t, u \in Tables :
       /\ \A v \in heap[t], w \in heap[u] : v.id = w.id => t = u /\ v = w
       /\ \A v \in disk[t], w \in disk[u] : v.id = w.id => t = u /\ v = w
       /\ \A v \in heap[t], w \in disk[u] : v.id = w.id => t = u /\ v.xmin = w.xmin

Stored == SInv /\ TypeOK /\ Shape /\ Unique

\* A statement stamps versions S of table t and adds the versions of new.
Written(t, S, new) ==
    /\ CanRun /\ t \in created /\ S \subseteq heap[t]
    /\ new \subseteq Version /\ IsFiniteSet(new) /\ nid' \in Nat /\ nid <= nid'
    /\ \A v \in new : v.xmin = stmt_txn /\ v.xmax = 0 /\ nid <= v.id /\ v.id < nid'
    /\ \A v, w \in new : v.id = w.id => v = w
    /\ Write(t, stamp_xmax(heap[t], S, stmt_txn) \cup new, Ids(new), Ids(S))
    /\ Clobbers(S)

\* A version with the stamp of transaction x.
Stamp(u, x) == [id |-> u.id, row |-> u.row, xmin |-> u.xmin, xmax |-> x]

\* What such a statement leaves in its table.
Result(t, S, new) == stamp_xmax(heap[t], S, stmt_txn) \cup new

--------------------------------------------------------------------------------
(* The inductive invariant of MVCC.                                              *)

\* The status array has room for every transaction (txnlog_commit drops the others).
IdsFit == MaxTxn < TXN_MAX

\* The versions the properties leave out, and those they speak of.
Left == clobbered \cup forgotten
Clean(v) == v.id \notin Left

\* Transaction x counts as committed outside a transaction.
Done(x) == x > 0 /\ (x < committed_below \/ x \in txnlog)

\* Session s sees version v, as far as other transactions go.
Sees(s, v) == txn_committed_view(s, v.xmin) /\ (v.xmax = 0 \/ ~txn_committed_view(s, v.xmax))

\* The log knows only ids given out, no open transaction is in it, and of two open
\* transactions each is in the other's snapshot as in progress, or younger.
LogOK ==
    /\ IF up THEN committed_below <= next_txn /\ \A x \in txnlog : x < next_txn ELSE txnlog = {}
    /\ \A s \in SessionIds : sess[s].in_txn =>
          /\ sess[s].txn >= committed_below /\ sess[s].txn \notin txnlog /\ sess[s].txn <= MaxTxn
          /\ sess[s].snap_next = sess[s].txn + 1
    /\ \A r, s \in SessionIds : r # s /\ sess[r].in_txn /\ sess[s].in_txn =>
          sess[r].txn \in sess[s].snap_inprog \/ sess[r].txn > sess[s].txn

\* Files hold stamps of committed transactions only, and the catalog of a closed
\* database knows their ids.
DiskDone ==
    \A t \in Tables : \A v \in disk[t] : Clean(v) =>
        IF up THEN Done(v.xmin) /\ (v.xmax = 0 \/ Done(v.xmax))
              ELSE v.xmin < cat_next /\ v.xmax < cat_next

\* h is d with versions that transaction x has added and with versions, undeleted in d,
\* that x has deleted; C is left out.
Differs(h, d, x, C) ==
    /\ \A v \in h : v.id \notin C =>
          \/ v \in d
          \/ v.xmin = x /\ v.xmax \in {0, x} /\ v.id \notin Ids(d)
          \/ v.xmax = x /\ \E w \in d : w.id = v.id /\ w.xmin = v.xmin /\ w.xmax = 0
    /\ \A w \in d : w.id \notin C => w.id \in Ids(h)

Pools ==
    \A t \in Tables : IF writer_txn[t] = 0 THEN heap[t] = disk[t]
                      ELSE Differs(heap[t], disk[t], writer_txn[t], Left)

\* What is committed is what the files hold undeleted.
LiveOnDisk ==
    /\ \A t \in Tables : \A v \in disk[t] : Clean(v) => (v.id \in live <=> v.xmax = 0)
    /\ \A i \in live : i \notin Left => \E t \in Tables : i \in Ids(disk[t])

\* The changes of an open transaction are the versions with its stamps.
ChangesOK(s) ==
    /\ \A t \in Tables : \A v \in heap[t] : Clean(v) =>
          /\ v.id \in ins[s] <=> v.xmin = sess[s].txn /\ v.xmax = 0
          /\ v.id \in del[s] <=> v.xmax = sess[s].txn
    /\ \A i \in ins[s] \cup del[s] : i \notin Left => \E t \in Tables : i \in Ids(heap[t])

\* What it saw at its BEGIN is what its snapshot finds in the files now.
SnapOK(s) ==
    /\ \A t \in Tables : \A v \in disk[t] : Clean(v) => (v.id \in begun[s] <=> Sees(s, v))
    /\ \A i \in begun[s] : i \notin Left => \E t \in Tables : i \in Ids(disk[t])

Changes == \A s \in SessionIds : sess[s].in_txn => ChangesOK(s)
Snapshots == \A s \in SessionIds : sess[s].in_txn => SnapOK(s)

Mvcc == LogOK /\ DiskDone /\ Pools /\ LiveOnDisk /\ Changes /\ Snapshots

================================================================================
