# A TLA+ verification of db-hobby

db-hobby is a small relational database in C: a paged file with a buffer pool and
a write-ahead log, slotted pages, heaps and B+Trees, an SQL executor with
sessions, MVCC and table locks, and beside it an LSM engine, a concurrent B+Tree,
a parallel scan, a log-shipping replica and Raft.  This directory holds TLA+
modules translated from that code, TLC configurations that check them on small
instances, and proofs that TLAPS checks for every value of the constants.
Line numbers refer to the files under `src/src/`.

## The system and what is modelled

| Part | Files | State | What changes it | Module |
|---|---|---|---|---|
| Pager | `pager.c` | the data file, `num_pages` | write, allocate, truncate | `Wal` |
| Buffer pool | `bufpool.c` | frames, LRU, dirty flags, pins, `io_pending` | fetch, new page, eviction, steal, invalidate | `Wal` (the writer of a table), `BufPool` (several threads) |
| WAL | `wal.c` | the log file, `stole`, `base_pages`, `spilled`, `txn_log_start`, staged pages | begin, stage, steal, commit, checkpoint, undo, recover | `Wal` |
| Lock manager | `lock.c` | lock entries, waits | acquire, release, wait, deadlock search | `LockTable`, `LockManager` |
| Sessions and MVCC | `db.c`, `mvcc.c` | sessions with snapshots, transaction status, row versions, `writer_txn`, catalog | statements, open, close | `Sessions` |
| Slotted page, heap | `page.c`, `heap.c` | slots, free space | insert, delete, overwrite, compact | not modelled |
| B+Tree | `btree.c` | nodes | insert, delete, search, scan | not modelled |
| Concurrent B+Tree | `cbtree.c` | nodes, latches | crabbing insert and search | not modelled |
| LSM engine | `lsm.c` | memtable, sorted runs | put, delete, flush, compact, clear, close, open | `Lsm`, refining `LsmMap` |
| Parallel scan | `parscan.c`, `db.c` | workers, their pages and results | leader and worker threads | `Blocks`, `ParScan` over `BufPool` |
| Raft | `raft.c` | term, vote, log, commit index, `next_index`, `match_index`, pending read | ticks, submit, read, messages, restart | `Raft` (without snapshots and membership changes) |
| Replicated database | `raftdb.c` | message queue, one database per node | step, write, query, isolate, crash | its queue is the network of `Raft`; the rest not modelled |
| WAL replica | `replica.c`, `replnet.c` | apply offset, replica's file | apply, ship | not modelled |
| Join order | `joinopt.c` | none (pure) | | not modelled |
| Server | `server.c` | connections | threads over one engine mutex | not modelled |
| SQL parser, executors, REPL | `sql.c`, `db.c`, `main.c` | none beyond one call | | partial aggregates in `Blocks`; the rest not modelled |

How the parts meet: a table is a heap over a buffer pool over a pager, with a WAL
of its own file.  The first write of a transaction opens the WAL transaction of
the table (`table_begin_write`), which puts the pool into no-steal mode with a
steal handler: a dirty victim goes through `wal_steal`.  COMMIT stages the dirty
frames and calls `wal_commit`; ROLLBACK calls `wal_undo` and drops the pool.
Above that, MVCC decides by transaction ids which row versions a session sees,
and an X lock per table keeps a second writer out.  `ParScan` runs over the pool of
`BufPool`, and `Sessions` and `LockManager` use one `LockTable`.

The behaviours that are hard to test are crashes between two system calls
(recovery included), losses of power that drop unsynced writes, pages stolen from
an open transaction, interleavings of sessions' statements and of threads in the
pool, messages late or lost, and what a reopened database believes about old
transaction ids.  `PROJECT.json` lists them as
hazards, each at its line and with the properties that would notice it.

## Modules

### `Wal`: one table file

The state is the data file (`file`, `fsize`), the log (`log`, a sequence of
BEGIN, UNDO, PAGE and COMMIT records), the pool (`used`, `cval`, `dirty`), the
fields of `Wal` and `Table` that a transaction uses, and `pc`, the place of the
one running call.  A page's content is the number of the write that produced it.
`used` is the LRU order: for a resident page, the resident pages used no later, so
that the least recently used page is the one for which there is no other.
A step is one system call, so a crash can fall between any two.

| Code | Actions |
|---|---|
| `table_begin_write` (db.c) | `BeginWrite` |
| `bufpool_fetch`, `bufpool_unpin` | `FetchHit`, `FetchMiss` |
| `wal_steal` as the steal handler | `StealBegin`, `StealLog`, `StealSync`, `StealWrite`, `StealDone` |
| `bufpool_new_page` | `NewPage`, then the access |
| end of `vacuum_table` | `VacuumTruncate` |
| `txn_commit_tables`, `wal_flush_commit`, `wal_commit` | `CommitStage`, `CommitLog`, `CommitMark`, `CommitSync`, `CommitApply`, `CheckpointSync`, `CheckpointTruncate`, `CommitDone` |
| `txn_abort_tables`, `wal_undo` | `Abort`, `UndoStep`, `UndoTruncate`, `UndoSync`, `UndoLogTruncate`, `AbortFinish` |
| `db_close` | `Close` |
| `wal_open`, `wal_recover` | `Open`, `RedoScan`, `RedoApply`, `RedoEnd`, `LoserScan`, `LoserEnd`, `RecoverTruncate`, `RecoverSync` |

Two kinds of crash: `ProcessCrash` keeps what was written, `PowerLoss` may drop
any page write, length change or log suffix since the last `fsync`
(`filemay`, `sizemay`, `logmay` collect what it may leave).  `CrashKinds` selects
them: "process"; "power_run", a loss of power outside recovery; "power_recover", one
inside; "power_first", one that comes before any other crash and while the length of
the file is settled.  History variables
hold what the callers were promised: `committed` (the table as of the last
durable commit), `begun` (the table at BEGIN), `mine` and `history` (writes).  A
commit that a crash interrupts may go either way.  Which way it went is read off the
log that the crash left: `Open` notes in `pending.won` whether the commit's marker is
there, and the end of recovery makes `committed` the one state or the other.

Abstractions: LSNs are left out, since nothing in `wal.c` reads them back.
Records are written whole (a torn record ends the scan in the code, as a missing
one does).  `Frames` stays below `WAL_MAX_STAGED`, as the pool size in `db.h`
does.  A write pins one page at a time.  A page stays pinned while `heap_scan` runs
its callback (heap.c:91-108), and the callback of a join reads other pages, so on a
read `Victim` may pass over any resident pages as pinned and takes the least recently
used of the others; nothing is written below a scan.

### `LockTable`, `LockManager`

`LockTable` has the operators: what `lock_acquire` grants, the table it leaves,
release.  `LockManager` adds the wait list and the depth-first search of
`lock_deadlock_victim`, and transactions that request, wait, retry and finish in any
order.  No code of the repository waits for a lock (`db.c` refuses at once), so these
callers are the ones that `lock.h` describes and `tests/test_lock.c` plays, and nothing
is assumed about when they call.  The search is described by the paths it can have
built: `Paths(txn)` are those of at most `LOCK_MAX_WAITS` different waiters, each
waiting for the next, and it returns a transaction that the last of them waits for and
that is on the path; which one, when there are several, depends on the order of the
entries, and is left open.  `Sessions` uses `LockTable` for the X locks `db_exec` takes.

### `Sessions`

One statement of `db_exec` is one step, because one thread runs statements one at
a time (the server holds one mutex around `db_exec`).  A row version is `[id, row,
xmin, xmax]`: its number stands for its RID and values, `row` for the row.  A
WHERE clause selects any subset of the visible versions.  `Session(n)`,
`exec_begin`, `exec_commit`, `exec_rollback`, `Select`, `exec_insert`,
`exec_delete`, `exec_update`, `exec_create`, `exec_vacuum`, `StatementFails`,
`StatementRefused`, `CreateRefused`, `SaveCatalog`, `db_close`, `db_open` and `Crash`
are the actions.  `StatementFails` is a statement that fails once it has its lock:
inside a transaction the lock stays, and the table counts as being written
or not, depending on which check failed.  `StatementRefused` is one that finds
the table locked, or a VACUUM while a transaction is open.  What a file holds after a
commit or a rollback is what `Wal` promises of one table file: `disk` follows
`heap` at COMMIT, `heap` follows `disk` at ROLLBACK and after a crash.  The two defects
of the log described below are therefore not seen again here.  COMMIT over several
tables is one step.  `MCSessions` gives TLC a view: the current session comes first,
since sessions are interchangeable, and `cur_txn` is left out, which no action reads
(the subquery property does, and its run uses no view).

### `BufPool`, `Blocks`, `ParScan`

An action of `BufPool` is what a thread does under the pool's latch, or one access
to the disk or to a page's bytes outside it: `Hit`, `WaitForLoad` on `io_cond`,
`SpuriousWakeup`, `Miss` with the eviction, `NoFrame`, `ReadPage`, `LoadDone`,
`LoadFailed`, `Modify` and `bufpool_unpin`.  `Blocks` has the arithmetic that divides
pages among workers, and the partial aggregates of `db.c`; its assumptions, which TLC
evaluates with `ParScan`, compare both with one thread's result on small inputs.
`ParScan` is a SELECT by several threads after the session has written a page in its
own transaction: the leader starts and joins the workers, and prints their rows or,
after a failure, scans alone.  Another thread uses the pool meanwhile; the server's
mutex would keep it out, but the pool is written for it (`tests/test_concurrency.c`).

### `LsmMap`, `Lsm`, `MCLsm`

`LsmMap` is what the engine promises: `map`, what a reader is given, `durable`, what a
reader would be given after a crash, `open`, and `call`, the call under way.  Which step
may change what depends on the call: `Write` changes one entry of `map` while none is
under way, `Flush` sets `durable` to `map` inside a flush only, and `Forget` gives up
entries of `durable`, and never brings an older one back, inside a clear only; `Begin`
and `End` change neither, so a compaction changes nothing that can be seen.  `Clear`
ends a clear with both empty, and `Stop`, at any point, leaves `durable`.  `Lsm`
has the memtable (`mem`), the list of open runs (`ssts`), the files (`disk`, some
of them torn) and `pc`, the place in a flush, a compaction or a clear that takes
several system calls.  `lsm_put`, `lsm_delete`, `lsm_flush`, `WriteBegin`,
`WriteEnd`, `FlushEnd`, `lsm_compact`, `CompactUnlink`, `CompactEnd`, `lsm_clear`,
`lsm_close`, `lsm_open_multi` and `CallFails` are its actions; `lsm_close` is
also the crash, since neither writes anything.  `lsm_get` (newest first, stop at
the first hit) and `lsm_scan` (merge everything) are separate operators, as they
are separate code.  `ImplementsMap` maps `map` to what a scan returns and
`durable` to what a scan would return after reopening the files on disk, and `call` to
the call that `pc` is in.  `Lists` stands for the order of `readdir`, which is any
order; `lsm_open_multi` takes the one that its sort leaves.

### `Raft`, `MCRaft`

`node` holds the struct `Raft` of each node; the operators named after C
functions take such a struct and return it changed, so that the actions are the
library's entry points: `Timeout` and `Heartbeat` (`raft_tick`), `raft_submit`,
`raft_read_index`, `raft_recv` and `raft_crash_restart`.  `msgs` is a bag of
messages under way; a message is delivered at most once, at any later time, or
lost when it is sent.  This covers the queue of `raftdb.c` with its full-queue
drops, partitions and dead nodes, and more: that queue does not reorder, but
`raft.c` is written (and commented) for networks that do.  `elected`, `chosen`
and `floor` record what has happened.  `MCRaft` gives TLC the symmetry of the nodes
and a view that leaves out fields which are set anew before they are read again.  It
also has two constraints.  `NoIdleReply` drops states in which a reply is under way that
its receiver will ignore whenever it comes; nothing is lost by it, since the message
could as well have been lost when it was sent.  `OneAtATime` is a bound: once a node has
reached the third term, one message travels at a time.

## Runs

Passing runs:

| Run | Configuration | Shows |
|---|---|---|
| `wal_no_steal` | 3 pages, 3 frames, 3 writes, VACUUM and allocation, 2 crashes of the process, of which the first may be a loss of power | `TypeOK`; `CommittedState`: whenever the table is at rest it is what the last commit left, whatever system call the crashes hit, in recovery too |
| `wal_steal` | 3 pages, 2 frames, 2 writes, allocation, 2 crashes: of the process at any time, or of power outside recovery | `NoLoserData`: no write of an unfinished transaction is left, also when a second crash hits the undo of the first; `UndoBeforeSteal`: the write-ahead rule; `RollbackRestores`: ROLLBACK is exact |
| `lock_manager` | 3 transactions, 3 objects, 4 locks | `TypeOK`, `Exclusive`; `VictimOnCycle`: a victim is named exactly when there is a deadlock, and is on the cycle |
| `sessions` | 2 sessions, 2 tables, 5 ids, 2 versions, 1 crash | `TypeOK`, `OneWriter`, `ReadCommitted`, `SnapshotStable` |
| `lsm` | 2 keys, 2 values, memtable threshold 2, 3 runs, failing and torn writes | `TypeOK`; `ReadsAgree`: point lookups and scans return the same; `ImplementsMap`: refinement of `LsmMap`, in both modes |
| `raft` | 3 nodes, 3 terms, commands at index 1, 2 messages under way, 3 elections, reads and restarts in all | `TypeOK`, `ElectionSafety`, `LogMatching`, `LeaderCompleteness`, `StateMachineSafety`; `MatchIsHeld`: what a leader counts as replicated is; `ReadsAreCurrent`: a confirmed read misses nothing applied before it began |
| `scan` | 2 workers, leader and another thread, 4 pages, 3 frames, 1 failing read, write or thread start | `OneFramePerPage`, `PinsCounted`; `HeldIsLatest`: a fetched frame has the latest bytes until its unpin; `ScanAnswers`: without a failure the answer is one thread's; `NeverWrong`: with one it has no row twice and none stale; `ScanEnds` |

Runs that show a disagreement between the code and what it says of itself
(each was also reproduced with the compiled program):

| Run | What TLC shows |
|---|---|
| `wal_stolen_redo` | A page committed through the log, then changed and stolen by a second transaction that commits, is overwritten by the first after-image at the next open. |
| `wal_no_marker` | A transaction all of whose pages were stolen commits without a marker; the next open undoes it. |
| `sessions_crash` | `next_txn` is stored only with the catalog, so after a crash rows committed since are taken for uncommitted. |
| `sessions_subquery` | The IN-subquery of the first statement after `SESSION n` reads the previous session's uncommitted rows. |
| `sessions_update` | A transaction updates a row that another updated and committed after its BEGIN.  While it is open the version it stamped over is visible to others again, beside the committed new one; when it commits, both successors are. |

Because of the last three, `ReadCommitted` and `SnapshotStable` in the passing run
leave out the versions in `clobbered` (a committed deletion stamped over) and
`forgotten` (stamped by a transaction whose id a crash set free), and what a
subquery reads; the runs above are about exactly those.

Why the bounds are enough to be interesting.  Two frames under three pages make a
third access steal, so that with two writes a stolen page can be fetched and changed
again, beside an allocated one, and the second of two crashes can fall into the undo of
the first; a checkpoint threshold of 3 or 4 records falls in the middle of the second
commit.  Three transactions on three objects give deadlocks by upgrade, by crossed
requests and in a ring of three, and a transaction that waits behind a cycle without
being on it.  Three terms of Raft allow a deposed leader that does not know it, a
conflicting tail that is cut, a committed entry that the next leader must have, a read
served by the wrong leader, and a leader whose `prev_log_index` falls on an entry of
another term in the follower's log, which the consistency check must refuse; they do not
reach the history that needs the current-term rule of `leader_advance_commit`, which
takes a fourth term.  Three run files of an LSM tree are the least that lets a
compaction follow a compaction.  Two sessions with five ids allow a snapshot to be
older, in progress or younger than each other transaction, and a reopened database to
hand out an id twice.  `parscan.h` asks for a frame per thread that holds a
page, and three are what two workers and the other thread need; the four pages do not
fit, so that frames are evicted under a scan.  `MaxWrites`, `MaxCrashes`, `MaxTxn`,
`MaxVersions`, `MaxSeq`, `MaxTerm`, `MaxLog`, `MaxEvents` and `MaxErrors` bound counters
that the program does not bound.

Fairness.  Only `ScanEnds` needs it: a thread that can take a step takes one in the end
(`WF` of the leader's steps and of each thread's).  The threads are POSIX threads, and
none is held up by another except on `io_cond`, which is modelled; whoever loads the
page wakes the ones that wait.  Spurious wakeups are not part of it.

Deadlock checking is on for `Wal` and `Lsm`.  It is off for `LockManager`, `Sessions`,
`Raft` and `ParScan`, where all transactions or threads may have ended or the bounds
been used up.

Weak places found while choosing the configurations, which the passing runs leave
out and which `PROJECT.json` keeps as hazards: a loss of power inside recovery
(`wal_recover` truncates the log before it syncs the data file, lines 213 and
217), and a loss of power while an allocation is not yet durable (redo writes past
`num_pages`).  In both, `CommittedState` fails.  For `Lsm` it is a run file that was
written whole but could not be opened, which stays behind under a number newer than
its inputs (`Faults` without "open").  For `Raft` it is a log longer than
`RAFT_MAX_BATCH`: a follower commits up to the end of its own log, not up to the
last entry of the message (line 474); the run's logs fit into one message.

## Proofs

`WalProofs` proves, for every number of pages, frames, writes and
crashes and every choice of crash kinds and operations, assuming only
`WalAssumption` (the constants are naturals, at least one frame, the initial file
fits):

- `TypeCorrect`: `Spec => []TypeOK`;
- `WriteAheadRule`: `Spec => []UndoBeforeSteal`;
- `RollbackExact`: `Spec => RollbackRestores`;
- `Invariance`: `Spec => []IInv`, from which the three follow.

`UndoBeforeSteal` alone is not inductive: it speaks of the file and the log, while
the steps preserve it because of where the running call is and what the pool
holds.  `IInv` adds

- `PcInv`: which fields are meaningful at which `pc` (a steal has a resident dirty
  victim, undo only runs with `stole` set, and so on);
- `PoolInv`: a clean resident page equals its page of the file, unless a commit
  under way still has to apply it; nothing is dirty without a writer or a commit;
- `TxnInv`: `base_pages` and `txn_data_pages` are the length at BEGIN, and the
  transaction's log begins inside the log;
- `UndoInv`: an old page not yet spilled is as it was at BEGIN; a spilled one has
  its before-image in the log after `txn_log_start`; what follows that place is a
  BEGIN record and before-images of the table at BEGIN; when the stolen page is
  written the log is durable;
- `RestoreInv`: while `wal_undo` runs, each old page is restored or has its
  before-image at or after `rpos`.

The module proves the types first, with the facts about the LRU order, and then the
other conjuncts action by action.

`BufPoolProofs` proves, for any finite set of threads and any pages, frames and
number of failures, from `PoolAssumption`, and for the pool alone, whatever its
users ask of it:

- `OneFrame`: `PoolSpec => []OneFramePerPage`;
- `PinsExact`: `PoolSpec => []PinsCounted`;
- `HoldersRead`: `PoolSpec => []HeldIsLatest`.

`HeldIsLatest` is about the frame a thread holds; to be inductive it needs where
the bytes come from.  `PoolInv` adds `Held` (a thread between fetch and unpin
holds a valid frame of its page, `io_pending` exactly while it reads), `Loading`
(such a frame is clean and has one holder), `Current` (a loaded frame has the
latest bytes), `OnDisk` (so has the disk, unless a frame keeps changes) and
`Fetched` (a read that succeeded brought what the disk has: nobody could write the
page meanwhile, since its only frame is pending).  `PinsCounted`, the pin count
is the number of holders, is what keeps a held frame from being evicted; it
needs the cardinality facts of the library.

`LockProofs` proves, for any finite set of transactions, any objects and any sizes of
the two arrays, from `LockAssumption` and `WaitAssumption`:

- `LockInvariance`: `Spec => []LockInv`;
- `TypeCorrect`: `Spec => []TypeOK`;
- `Exclusion`: `Spec => []Exclusive`;
- `DeadlockExact`: `Spec => []VictimOnCycle`.

`LockInv` adds to `Exclusive` that the table is finite, so that its slots can be
counted, and that waits are those of active transactions, one for each.  That the
search is exact does not follow step by step but from the shape of its paths: a
victim is on a cycle because the path from it to the end of the search closes one;
and when there is a cycle, a shortest one has no transaction twice, so it is a path of
waiters no longer than the list of waits, and the search starts at one of them or
has stopped earlier with a victim.  The shortest cycle exists because the natural
numbers are well-founded (`LeastNat`).

`SessionsInv` defines the inductive invariants of `Sessions`, and four modules prove
them.  `SessionsProofs` proves, for any set of sessions and tables and any bounds, from
`SessionsAssumption` (session 0 and the initial table exist):

- `SessionsInvariance`: `Spec => []SInv`;
- `OneWriterAlways`: `Spec => []OneWriter`.

`OneWriter` says that each lock belongs to an open transaction and that a table's
pool differs from its file only by what its lock holder stamped.  To be inductive it
needs that open transactions have ids that are different, not zero and below
`next_txn` (`OwnIds`), without which the end of one transaction would release
another's locks; and that a closed database has no transaction (`AtRest`), because
`db_open` may set `next_txn` back.  `AcquireKeeps` is the one lemma about the lock
table: a granted X lock keeps the matrix, and all locks on its object are the
requester's.

`MvccSteps` (statements that write nothing, transactions, closing, opening, crashes),
`MvccWrites` (INSERT, UPDATE, DELETE) and `MvccProofs` (the theorems) prove, from
the same assumption:

- `StoredInvariance`: `Spec => [](Stored /\ Finite)`: a version's number names one
  version in the pools and one in the files, of one table and one creator;
- `TypeCorrect`: `Spec => []TypeOK`;
- `MvccInvariance`: `Spec => [](Stored /\ Mvcc)`, if `IdsFit`;
- `ReadsCommitted`: `Spec => []ReadCommitted`, if `IdsFit`;
- `SnapshotIsolation`: `Spec => []SnapshotStable`, if `IdsFit`.

`IdsFit` says that `MaxTxn`, the bound on transaction ids, is below `TXN_MAX`, the
length of the status array.  The code needs it: `txnlog_commit` drops an id that
has no entry (mvcc.c), and what that transaction committed is then invisible.  The
properties speak of the versions outside `clobbered` and `forgotten`, as in the
run.  `ReadCommitted` and `SnapshotStable` compare what `row_visible` lets through
with history variables; the argument goes through the files.  `Mvcc` says that

- `LogOK`: the status array knows only ids given out and no open transaction, and
  of two open transactions each is in the other's snapshot as in progress, or younger;
- `DiskDone`: the files hold stamps of committed transactions only, and the catalog of
  a closed database knows their ids;
- `Pools`: a pool is its file with the versions that its writer added, and with deletions
  by its writer of versions that were not deleted;
- `LiveOnDisk`: what is committed is what the files hold undeleted;
- `Changes`: the insertions and deletions of an open transaction are the versions with
  its stamps;
- `Snapshots`: what a transaction saw at its BEGIN is what its snapshot finds in the
  files now.  This is the conjunct that VACUUM, commits of others and a reused
  status array could break.

`LsmProofs` proves, for any number of runs, any threshold and any finite sets of
keys and values, in both modes, from `LsmAssumption` (keys and values are finite
because they are C integers):

- `FilesInvariance`: `Spec => []SInv`;
- `TypeCorrect`: `Spec => []TypeOK`;
- `LookupsAgree`: `Spec => []ReadsAgree`;
- `MapInvariance`: `Spec => []IInv`, if `"open" \notin Faults`;
- `EngineIsMap`: `Spec => ImplementsMap`, the refinement of `LsmMap`, if
  `"open" \notin Faults`.

Everything rests on one fact about sets of runs: what is read for a group is the entry
of the newest run that has one (`Top`, `MergedTop`).  A scan merges by it, and a point
lookup finds it because the list is in the order of the numbers (`ScanReads`,
`GetReads`); that order, and that the file with a listed number holds that run, is
`SInv`.  The refinement needs what the files say as well.  `IInv` adds

- `Directory`: the files that can be opened are the listed runs', and that of the new
  run once it is whole;
- `OldestFirst`: while files are removed, the ones left are the newest;
- `Content`: a flush writes the memtable, and a compaction for each group what the
  listed runs say together, with nothing for a deleted one.

A flush takes effect at the last byte of its file (`WriteEndMaps`: adding a newest run
replaces the entries it has, `AddTop`), and so does a compaction, which changes no
answer.  Removing the inputs changes none either, since the merged run is newer; but
it has no tombstones, so a group it lacks is decided by the inputs that are left, and
going from the oldest, the entry that decides is the last to go (`DropOldest`).  That
is also why a clear that is cut off only gives up entries.  The hypothesis is needed:
when a file is whole but cannot be opened, the call fails and the file stays, with a
number above those of the listed runs (lsm.c:478), so that `Directory` is false.  With
"open" in `Faults` TLC finds `ImplementsMap` violated in six steps: two writes, a flush
that fails in this way, and a clear, which does not remove that file.

Checked by TLC only: `ScanEnds`, since the prover does not handle fairness;
`CommittedState` and `NoLoserData`, which say what recovery computes from the whole
log by a loop over it, so that their invariant is about a fold over sequences; and
`Raft` and `ParScan` above its pool, whose invariants have not been made inductive.

## Not modelled

- Slotted page, heap, B+Tree (`page.c`, `heap.c`, `btree.c`): a table is its pages in
  `Wal` and its row versions in `Sessions`; how rows lie in pages and how an index finds
  them is sequential code on bytes.
- Concurrent B+Tree (`cbtree.c`): latch crabbing in a module of its own that nothing
  else uses.
- WAL replica and its transport (`replica.c`, `replnet.c`), and `raftdb.c` beyond the
  network of `Raft`: replaying pages, or SQL text, on other nodes.
- Snapshots, InstallSnapshot, membership changes and the file format of `raft_save` in
  `raft.c`.
- Join order (`joinopt.c`): a pure function of estimates.
- `server.c`: a connection is one session, and `engine_mtx` is held for a whole
  statement, so its interleavings are those of `Sessions`; a disconnect is a ROLLBACK.
  What is left is the encoding of messages.
- `sql.c`: text to a syntax tree within one call.
- Executors of `db.c` other than the ones named above (joins, grouping, sorting,
  EXPLAIN, output) and `main.c`: computations over values that the models abstract,
  and I/O.
