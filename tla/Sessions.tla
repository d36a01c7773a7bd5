-------------------------------- MODULE Sessions -------------------------------
(* Statements and transactions of several sessions over shared tables: the       *)
(* dispatcher, MVCC visibility, table locks, VACUUM, and what survives a close   *)
(* or a crash (src/db.c, src/mvcc.c, src/lock.c).                                *)
(*                                                                               *)
(* db_exec runs one statement at a time, so a statement is one step.  A row is   *)
(* the set of its versions; a version is known by a number, never reused, in     *)
(* place of its RID and values.  What a WHERE clause selects is any subset of    *)
(* the visible versions.  A table's file is what module Wal promises of it: a    *)
(* commit makes the pool's content permanent, a rollback brings the file back.   *)
EXTENDS LockTable, Integers

CONSTANTS
    SessionIds,     \* 0..DB_MAX_SESSIONS - 1
    Tables,         \* table names
    InitTable,      \* table of the database the model starts from
    TXN_MAX,        \* transaction ids the status array has room for
    MaxTxn,         \* bound on transaction ids
    MaxVersions,    \* bound on row versions
    MaxCrashes,     \* bound on crashes
    Ops             \* statements of the workload besides BEGIN, COMMIT, ROLLBACK, INSERT:
                    \* subset of {"select", "delete", "update", "vacuum", "create", "catalog", "close"}

ASSUME SessionsAssumption ==
    /\ IsFiniteSet(Tables) /\ InitTable \in Tables
    /\ 0 \in SessionIds
    /\ TXN_MAX \in Nat /\ MaxTxn \in Nat /\ MaxVersions \in Nat /\ MaxCrashes \in Nat

VARIABLES
    up,                 \* the database is open
    sess,               \* [SessionIds -> DbSession]
    cur_session,        \* session of the current statement
    cur_txn,            \* transaction the visibility test takes for its own
    next_txn,           \* next transaction id
    committed_below,    \* ids below it count as committed
    txnlog,             \* ids whose entry is TXN_COMMITTED (the only one ever asked for)
    locks,              \* entries of the lock manager
    writer_txn,         \* per table, the transaction writing it, or 0
    heap,               \* per table, the versions a scan meets
    disk,               \* per table, the versions its file and log hold for good
    created,            \* tables of the catalog
    cat_next,           \* next_txn as the catalog file has it
    nid,                \* next version number
    crashes             \* crashes so far

\* History variables: what the sessions were promised.
VARIABLES
    live,       \* versions added and not deleted by committed transactions
    begun,      \* per session, the versions it saw at its BEGIN
    ins, del,   \* per session, versions its open transaction has added and deleted
    clobbered,  \* versions whose committed deletion was stamped over by another transaction
    forgotten   \* versions stamped by a transaction whose id a crash has set free again

txnVars == <<sess, cur_session, cur_txn, next_txn, committed_below, txnlog>>
dataVars == <<locks, writer_txn, heap, disk, created, cat_next, nid>>
ghostVars == <<live, begun, ins, del, clobbered, forgotten>>
vars == <<up, txnVars, dataVars, crashes, ghostVars>>

NoTxn == [in_txn |-> FALSE, txn |-> 0, snap_next |-> 0, snap_inprog |-> {}]

--------------------------------------------------------------------------------
(* Visibility.                                                                   *)

\* The log with x committed, and with x in progress or aborted.
txnlog_commit(x) == IF x < TXN_MAX THEN txnlog \cup {x} ELSE txnlog
txnlog_abort(x) == txnlog \ {x}

\* Faulty variant of txn_committed_view: the snapshot leaves out what is younger, and
\* not what was in progress.
txn_committed_view_young(s, x) ==
    /\ x > 0
    /\ \/ x < committed_below
       \/ /\ x \in txnlog
          /\ sess[s].in_txn => x < sess[s].snap_next

\* Does transaction x count as committed for session s?
txn_committed_view(s, x) ==
    /\ x > 0
    /\ \/ x < committed_below
       \/ /\ x \in txnlog
          /\ sess[s].in_txn => x < sess[s].snap_next /\ x \notin sess[s].snap_inprog

row_visible(s, v, my_txn) ==
    /\ v.xmin = my_txn \/ txn_committed_view(s, v.xmin)
    /\ v.xmax = 0 \/ ~(v.xmax = my_txn \/ txn_committed_view(s, v.xmax))

Visible(s, t, my_txn) == {v \in heap[t] : row_visible(s, v, my_txn)}
Ids(V) == {v.id : v \in V}
View(s, my_txn) == UNION {Ids(Visible(s, t, my_txn)) : t \in created}

Own(s) == IF sess[s].in_txn THEN sess[s].txn ELSE 0
in_txn == sess[cur_session].in_txn
own == Own(cur_session)

--------------------------------------------------------------------------------
\* A database with one table of one row, created and filled by transactions 1 and 2,
\* closed and opened again.
InitHeap == [t \in Tables |->
    IF t = InitTable THEN {[id |-> 1, row |-> 1, xmin |-> 2, xmax |-> 0]} ELSE {}]

Init ==
    /\ up = TRUE
    /\ sess = [s \in SessionIds |-> NoTxn] /\ cur_session = 0 /\ cur_txn = 0
    /\ next_txn = 3
    /\ committed_below = next_txn /\ cat_next = next_txn
    /\ txnlog = {}
    /\ locks = {} /\ writer_txn = [t \in Tables |-> 0]
    /\ heap = InitHeap /\ disk = InitHeap
    /\ created = {InitTable}
    /\ nid = 2 /\ crashes = 0
    /\ live = {1} /\ clobbered = {} /\ forgotten = {}
    /\ begun = [s \in SessionIds |-> {}]
    /\ ins = [s \in SessionIds |-> {}] /\ del = [s \in SessionIds |-> {}]

--------------------------------------------------------------------------------
(* Transaction control.                                                          *)

exec_begin ==
    /\ up /\ ~in_txn /\ next_txn <= MaxTxn
    /\ sess' = [sess EXCEPT ![cur_session] =
                   [in_txn |-> TRUE, txn |-> next_txn, snap_next |-> next_txn + 1,
                    snap_inprog |-> {sess[i].txn : i \in {j \in SessionIds : sess[j].in_txn}}]]
    /\ txnlog' = txnlog_abort(next_txn)
    /\ cur_txn' = next_txn
    /\ next_txn' = next_txn + 1
    /\ begun' = [begun EXCEPT ![cur_session] = View(cur_session, 0)]
    /\ ins' = [ins EXCEPT ![cur_session] = {}] /\ del' = [del EXCEPT ![cur_session] = {}]
    /\ UNCHANGED <<up, cur_session, committed_below, dataVars, crashes, live, clobbered,
                   forgotten>>

\* The tables of one transaction become permanent, or go back to their files.
txn_commit_tables(x) ==
    /\ disk' = [t \in Tables |-> IF writer_txn[t] = x THEN heap[t] ELSE disk[t]]
    /\ writer_txn' = [t \in Tables |-> IF writer_txn[t] = x THEN 0 ELSE writer_txn[t]]
    /\ UNCHANGED heap
txn_abort_tables(X) ==
    /\ heap' = [t \in Tables |-> IF writer_txn[t] \in X THEN disk[t] ELSE heap[t]]
    /\ writer_txn' = [t \in Tables |-> IF writer_txn[t] \in X THEN 0 ELSE writer_txn[t]]
    /\ UNCHANGED disk

\* in_txn := 0; the rest of a session is not read without it.
EndTxn ==
    /\ locks' = lock_release_all(locks, own)
    /\ sess' = [sess EXCEPT ![cur_session] = NoTxn]
    /\ cur_txn' = 0
    /\ begun' = [begun EXCEPT ![cur_session] = {}]
    /\ ins' = [ins EXCEPT ![cur_session] = {}] /\ del' = [del EXCEPT ![cur_session] = {}]
    /\ UNCHANGED <<up, cur_session, next_txn, committed_below, created, cat_next, nid, crashes,
                   clobbered, forgotten>>

exec_commit ==
    /\ up /\ in_txn
    /\ txn_commit_tables(own)
    /\ txnlog' = txnlog_commit(own)
    /\ EndTxn
    /\ live' = (live \ del[cur_session]) \cup ins[cur_session]

exec_rollback ==
    /\ up /\ in_txn
    /\ txn_abort_tables({own})
    /\ txnlog' = txnlog_abort(own)
    /\ EndTxn
    /\ UNCHANGED live

\* Faulty variant of Session: the number is not checked.
SessionUnchecked(n) ==
    /\ up
    /\ cur_session' = n
    /\ cur_txn' = own
    /\ UNCHANGED <<up, sess, next_txn, committed_below, txnlog, dataVars, crashes, ghostVars>>

\* SESSION n: the statement's own transaction is still the old session's.  A number out
\* of range is refused.
Session(n) ==
    /\ up /\ n \in SessionIds
    /\ cur_session' = n
    /\ cur_txn' = own
    /\ UNCHANGED <<up, sess, next_txn, committed_below, txnlog, dataVars, crashes, ghostVars>>

\* SELECT and other statements that write nothing.
Select ==
    /\ up /\ "select" \in Ops
    /\ cur_txn' = own
    /\ UNCHANGED <<up, sess, cur_session, next_txn, committed_below, txnlog, dataVars, crashes,
                   ghostVars>>

\* CREATE INDEX and ANALYZE: the catalog file is written again.  (Bound: only while a
\* crash may follow; db_close writes it anyway.)
SaveCatalog ==
    /\ up /\ "catalog" \in Ops /\ crashes < MaxCrashes
    /\ cat_next' = next_txn /\ cur_txn' = own
    /\ UNCHANGED <<up, sess, cur_session, next_txn, committed_below, txnlog, locks, writer_txn, heap,
                   disk, created, nid, crashes, ghostVars>>

--------------------------------------------------------------------------------
(* Statements that write.  Outside a transaction (and for CREATE) the statement   *)
(* takes an id of its own and commits, or aborts, before it returns.              *)

stmt_txn == IF in_txn THEN own ELSE next_txn
CanRun == up /\ (in_txn \/ next_txn <= MaxTxn)

\* The bookkeeping of a statement's own transaction, which commits or aborts.
Autocommit(ok) ==
    /\ next_txn <= MaxTxn
    /\ next_txn' = next_txn + 1
    /\ txnlog' = IF ok THEN txnlog_commit(next_txn) ELSE txnlog_abort(next_txn)
    /\ cur_txn' = own
    /\ UNCHANGED <<up, sess, cur_session, committed_below, locks, writer_txn, crashes>>

\* Faulty variant of InTransaction: no lock is taken.
InTransactionUnlocked(t) ==
    /\ writer_txn' = [writer_txn EXCEPT ![t] = own]
    /\ cur_txn' = own
    /\ UNCHANGED <<up, sess, cur_session, next_txn, committed_below, txnlog, locks, crashes>>

\* A statement of an open transaction on table t, which stays locked for it; a write
\* of it, which opens the table's WAL transaction (table_begin_write).
KeepLock(t) ==
    /\ locks' = Acquired(locks, own, t, "X")
    /\ cur_txn' = own
    /\ UNCHANGED <<up, sess, cur_session, next_txn, committed_below, txnlog, crashes>>
InTransaction(t) == KeepLock(t) /\ writer_txn' = [writer_txn EXCEPT ![t] = own]

\* Table t becomes h, through a commit of its own outside a transaction; added and
\* gone are the versions the statement adds and deletes.
Write(t, h, added, gone) ==
    /\ Acquirable(locks, stmt_txn, t, "X")
    /\ heap' = [heap EXCEPT ![t] = h]
    /\ IF in_txn
       THEN /\ InTransaction(t)
            /\ ins' = [ins EXCEPT ![cur_session] = (@ \ gone) \cup added]
            /\ del' = [del EXCEPT ![cur_session] = @ \cup gone]
            /\ UNCHANGED <<disk, live>>
       ELSE /\ Autocommit(TRUE)
            /\ disk' = [disk EXCEPT ![t] = h]
            /\ live' = (live \ gone) \cup added
            /\ UNCHANGED <<ins, del>>
    /\ nid' = nid + Cardinality(added)
    /\ UNCHANGED <<created, cat_next, begun, forgotten>>

exec_insert(t) ==
    /\ CanRun /\ t \in created /\ nid <= MaxVersions
    /\ Write(t, heap[t] \cup {[id |-> nid, row |-> nid, xmin |-> stmt_txn, xmax |-> 0]}, {nid}, {})
    /\ UNCHANGED clobbered

\* Versions S of table t get x as their xmax.
stamp_xmax(V, S, x) == {v \in V : v \notin S} \cup
    {[id |-> v.id, row |-> v.row, xmin |-> v.xmin, xmax |-> x] : v \in S}

Clobbers(S) == clobbered' = clobbered \cup Ids({v \in S : v.xmax # 0})

exec_delete(t) ==
    /\ CanRun /\ t \in created /\ "delete" \in Ops
    /\ \E S \in SUBSET Visible(cur_session, t, stmt_txn) :
          /\ Write(t, stamp_xmax(heap[t], S, stmt_txn), {}, Ids(S))
          /\ Clobbers(S)

\* The old versions are stamped and each gets a successor, with the next numbers.
exec_update(t) ==
    /\ CanRun /\ t \in created /\ "update" \in Ops
    /\ \E S \in SUBSET Visible(cur_session, t, stmt_txn) :
          LET num(v) == nid + Cardinality({u \in S : u.id < v.id})
              new == {[id |-> num(v), row |-> v.row, xmin |-> stmt_txn, xmax |-> 0] : v \in S}
          IN  /\ nid + Cardinality(S) <= MaxVersions + 1
              /\ Write(t, stamp_xmax(heap[t], S, stmt_txn) \cup new, Ids(new), Ids(S))
              /\ Clobbers(S)

\* A statement that fails when it has its lock and has not changed a row.  Inside a
\* transaction the lock stays, with the table being written (INSERT's values do not fit
\* the schema) or not: the table is missing, a NULL is refused, SET names no column of
\* its type.
StatementFails(t) ==
    /\ CanRun /\ Acquirable(locks, stmt_txn, t, "X")
    /\ IF in_txn
       THEN \/ t \in created /\ InTransaction(t)
            \/ KeepLock(t) /\ UNCHANGED writer_txn
       ELSE Autocommit(FALSE)
    /\ UNCHANGED <<heap, disk, created, cat_next, nid, ghostVars>>

\* A statement that is refused: the table is locked; VACUUM while any session has a
\* transaction.  Outside a transaction its id is used up.
StatementRefused ==
    /\ CanRun
    /\ \/ \E t \in Tables : ~Acquirable(locks, stmt_txn, t, "X")
       \/ "vacuum" \in Ops /\ \E s \in SessionIds : sess[s].in_txn
    /\ IF in_txn
       THEN /\ cur_txn' = own
            /\ UNCHANGED <<up, sess, cur_session, next_txn, committed_below, txnlog, locks, writer_txn,
                           crashes>>
       ELSE Autocommit(FALSE)
    /\ UNCHANGED <<heap, disk, created, cat_next, nid, ghostVars>>

\* CREATE takes an id of its own even inside a transaction, and writes the catalog.
exec_create(t) ==
    /\ up /\ t \notin created /\ "create" \in Ops
    /\ Autocommit(TRUE)
    /\ created' = created \cup {t}
    /\ heap' = [heap EXCEPT ![t] = {}] /\ disk' = [disk EXCEPT ![t] = {}]
    /\ cat_next' = next_txn + 1
    /\ UNCHANGED <<nid, ghostVars>>

\* CREATE of a table that is there: the id is used up, inside a transaction too.
CreateRefused ==
    /\ up /\ created # {} /\ "create" \in Ops
    /\ Autocommit(FALSE)
    /\ UNCHANGED <<heap, disk, created, cat_next, nid, ghostVars>>

rec_dead(v) == v.xmax # 0 /\ txn_committed_view(cur_session, v.xmax)

\* VACUUM of one table or of all of them.
exec_vacuum(T) ==
    /\ up /\ "vacuum" \in Ops /\ T \subseteq created
    /\ \A s \in SessionIds : ~sess[s].in_txn
    /\ heap' = [t \in Tables |-> IF t \in T THEN {v \in heap[t] : ~rec_dead(v)} ELSE heap[t]]
    /\ disk' = [t \in Tables |-> IF t \in T THEN heap'[t] ELSE disk[t]]
    /\ Autocommit(TRUE)
    /\ UNCHANGED <<created, cat_next, nid, ghostVars>>

--------------------------------------------------------------------------------
(* The end of the process, and db_open.                                          *)

\* What was in memory is gone.
LoseMemory ==
    /\ up /\ up' = FALSE
    /\ sess' = [s \in SessionIds |-> NoTxn] /\ cur_session' = 0 /\ cur_txn' = 0
    /\ txnlog' = {}
    /\ locks' = {}
    /\ begun' = [s \in SessionIds |-> {}]
    /\ ins' = [s \in SessionIds |-> {}] /\ del' = [s \in SessionIds |-> {}]
    /\ UNCHANGED <<next_txn, committed_below, created, nid, live, clobbered>>

\* Faulty variant of db_close: open transactions are not rolled back, and the flush of
\* the pool writes their pages.
db_close_keep ==
    /\ "close" \in Ops
    /\ disk' = heap /\ writer_txn' = [t \in Tables |-> 0]
    /\ cat_next' = next_txn
    /\ LoseMemory
    /\ UNCHANGED <<heap, crashes, forgotten>>

\* Open transactions are rolled back, the catalog is written, the files closed.
db_close ==
    /\ "close" \in Ops
    /\ txn_abort_tables({Own(s) : s \in {r \in SessionIds : sess[r].in_txn}})
    /\ cat_next' = next_txn
    /\ LoseMemory
    /\ UNCHANGED <<crashes, forgotten>>

\* A crash: the files recover what was committed.
Crash ==
    /\ crashes < MaxCrashes /\ crashes' = crashes + 1
    /\ heap' = disk /\ writer_txn' = [t \in Tables |-> 0]
    /\ forgotten' = forgotten \cup UNION {Ids({v \in disk[t] : v.xmin >= cat_next \/ v.xmax >= cat_next}) :
                                             t \in Tables}
    /\ LoseMemory
    /\ UNCHANGED <<disk, cat_next>>

db_open ==
    /\ ~up /\ up' = TRUE
    /\ next_txn' = IF cat_next > 1 THEN cat_next ELSE 1
    /\ committed_below' = next_txn'
    /\ UNCHANGED <<sess, cur_session, cur_txn, txnlog, dataVars, crashes, ghostVars>>

Next ==
    \/ exec_begin \/ exec_commit \/ exec_rollback
    \/ \E n \in SessionIds \cup {-1} : Session(n)
    \/ Select \/ SaveCatalog
    \/ \E t \in Tables : \/ exec_insert(t) \/ exec_delete(t) \/ exec_update(t)
                         \/ StatementFails(t) \/ exec_create(t)
    \/ StatementRefused \/ CreateRefused
    \/ \E T \in {{t} : t \in Tables} \cup {created} : exec_vacuum(T)
    \/ db_close \/ Crash \/ db_open

Spec == Init /\ [][Next]_vars

--------------------------------------------------------------------------------
(* Properties.                                                                   *)

Version == [id : Nat, row : Nat, xmin : Nat, xmax : Nat]
DbSession == [in_txn : BOOLEAN, txn : Nat, snap_next : Nat, snap_inprog : SUBSET Nat]

\* Every variable holds a value of its kind.
TypeOK ==
    /\ up \in BOOLEAN
    /\ sess \in [SessionIds -> DbSession] /\ cur_session \in SessionIds
    /\ cur_txn \in Nat /\ next_txn \in Nat \ {0} /\ committed_below \in Nat /\ cat_next \in Nat
    /\ txnlog \subseteq Nat
    /\ locks \subseteq [txn : Nat, obj : Tables, mode : LockMode]
    /\ writer_txn \in [Tables -> Nat]
    /\ heap \in [Tables -> SUBSET Version] /\ disk \in [Tables -> SUBSET Version]
    /\ created \subseteq Tables
    /\ nid \in Nat \ {0} /\ crashes \in Nat
    /\ live \subseteq Nat /\ clobbered \subseteq Nat
    /\ begun \in [SessionIds -> SUBSET Nat]
    /\ ins \in [SessionIds -> SUBSET Nat] /\ del \in [SessionIds -> SUBSET Nat]

\* One writer per table, on which the recovery of its file rests: a table whose pool
\* differs from its file is being written by one open transaction, which holds the
\* exclusive lock and made every difference; no lock outlives its transaction.
OneWriter ==
    /\ ExclusiveIn(locks)
    /\ \A l \in locks : \E s \in SessionIds : sess[s].in_txn /\ sess[s].txn = l.txn
    /\ \A t \in Tables : writer_txn[t] # 0 => Lock(writer_txn[t], t, "X") \in locks
    /\ \A t \in Tables : \A v \in heap[t] \ disk[t] :
          writer_txn[t] # 0 /\ writer_txn[t] \in {v.xmin, v.xmax}

\* A statement outside a transaction reads what has been committed, neither more nor
\* less, however transactions were interleaved, rolled back, cleaned up after by
\* VACUUM, or cut off by closing the database or by a crash.  Left out are versions
\* deleted twice (collect_visit lets a transaction stamp a version that another has
\* deleted since its BEGIN) and those a crash has made db_open misjudge, the subjects of
\* OneLiveVersion and CrashKeepsCommits.
ReadCommitted ==
    up => \A s \in SessionIds : ~sess[s].in_txn =>
              View(s, 0) \ (clobbered \cup forgotten) = live \ (clobbered \cup forgotten)

\* Snapshot isolation: an open transaction sees what it saw at its BEGIN and its own
\* changes, whatever others commit meanwhile (with the same exceptions).
SnapshotStable ==
    up => \A s \in SessionIds : sess[s].in_txn =>
              View(s, sess[s].txn) \ (clobbered \cup forgotten)
                  = ((begun[s] \ del[s]) \cup ins[s]) \ (clobbered \cup forgotten)

\* The log's fsync at COMMIT is the durability point: what was committed before a
\* crash is what a statement reads after it.
CrashKeepsCommits ==
    up /\ crashes > 0 => \A s \in SessionIds : ~sess[s].in_txn =>
                             View(s, 0) \ clobbered = live \ clobbered

\* A subquery, which prepare_where runs before db_exec has set the statement's own
\* transaction, sees no uncommitted version of another session.
SubqueryReadsOwn ==
    up => View(cur_session, cur_txn) \subseteq View(cur_session, own)

\* "First updater wins": no statement sees two versions of one row at once, neither
\* while the second of two concurrent updaters is open nor after it has committed,
\* since the second update is refused.
OneLiveVersion ==
    up => \A s \in SessionIds, t \in created :
              \A v, w \in Visible(s, t, Own(s)) : v.row = w.row => v = w
================================================================================
