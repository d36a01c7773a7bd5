---------------------------------- MODULE Wal ----------------------------------
(* One table file: the pager, the buffer pool as its single writer sees it, and *)
(* the write-ahead log with steal and no-force (src/wal.c, src/pager.c,         *)
(* src/bufpool.c, and the transaction calls of src/db.c that drive them).       *)
(*                                                                              *)
(* A page's content is the number of the write that produced it, so two         *)
(* contents are equal exactly when the bytes are.  A step is one system call    *)
(* (or a run of memory updates up to the next one), so a crash may fall between *)
(* any two of them.  LSNs are left out: nothing in wal.c reads them back.       *)
EXTENDS Integers, Sequences, FiniteSets

CONSTANTS
    MaxPages,       \* bound on the length of the data file, in pages
    InitPages,      \* pages of the file the model starts from
    Frames,         \* frames of the buffer pool
    MaxWrites,      \* bound on the number of page modifications
    CheckpointLen,  \* WAL_CHECKPOINT_BYTES, counted in log records
    MaxCrashes,     \* bound on the number of crashes
    CrashKinds,     \* subset of {"process", "power_run", "power_first", "power_recover"}
    Ops             \* operations of the workload: subset of {"read", "write", "new", "vacuum"}

ASSUME WalAssumption ==
    /\ MaxPages \in Nat /\ InitPages \in 0..MaxPages
    /\ Frames \in Nat \ {0}
    /\ MaxWrites \in Nat /\ CheckpointLen \in Nat /\ MaxCrashes \in Nat

PageId == 0..(MaxPages - 1)
Zero == 0                        \* a page of zeros: just allocated
Val == Nat                       \* 0: zeros, 1: the initial content, else a write's number
None == -1

Rec == [type : {"BEGIN", "UNDO", "PAGE", "COMMIT"}, page : PageId \cup {None}, val : Nat]
BeginRec(base) == [type |-> "BEGIN", page |-> None, val |-> base]
UndoRec(p, v) == [type |-> "UNDO", page |-> p, val |-> v]
PageRec(p, v) == [type |-> "PAGE", page |-> p, val |-> v]
\* REC_COMMIT carries no body; val is the number of its transaction's last write,
\* kept to tell whose marker it is when the properties ask.
CommitRec(id) == [type |-> "COMMIT", page |-> None, val |-> id]

VARIABLES
    file,       \* data file as the operating system shows it: [PageId -> Val]
    fsize,      \* its length in pages
    filemay,    \* per page: the contents a power loss may leave
    sizemay,    \* the lengths a power loss may leave
    log,        \* the log file: Seq(Rec)
    logmay,     \* the logs a power loss may leave
    np,         \* Pager.num_pages
    used,       \* last_used as an order: the resident pages used no later, {} not resident
    cval,       \* content of the resident pages
    dirty,      \* resident pages whose dirty flag is set
    writer,     \* Table.writer_txn # 0 (then no_steal and the steal handler are on)
    stole, base, spilled, start,     \* Wal: stole, base_pages, spilled[], txn_log_start
    txnPages,   \* Table.txn_data_pages
    staged,     \* Wal.staged: pages of the commit under way
    todo,       \* those the current loop of wal_commit has still to handle
    op,         \* the page access that waits for a steal to finish
    pc,         \* where the one running call is
    rpos, redo, loserStart, rbase,   \* locals of wal_recover (rpos: of wal_undo too)
    clock,      \* number of page modifications so far, plus one
    crashes     \* crashes so far

\* History variables: what the callers were promised.
VARIABLES
    committed,  \* [np, img]: the file as of the last transaction whose marker is durable
    pending,    \* [id, np, img, won]: the same for a commit under way (id = 0: none)
    begun,      \* [np, img]: the file as it was when the open transaction began
    mine,       \* writes of the open transaction
    history     \* writes of committed transactions

diskVars == <<file, fsize, filemay, sizemay>>
logVars == <<log, logmay>>
poolVars == <<used, cval, dirty>>
txnVars == <<writer, stole, base, spilled, start, txnPages>>
commitVars == <<staged, todo>>
recVars == <<rpos, redo, loserStart, rbase>>
ghostVars == <<committed, pending, begun, mine, history>>
vars == <<diskVars, logVars, np, poolVars, txnVars, commitVars, op, pc, recVars,
          clock, crashes, ghostVars>>

--------------------------------------------------------------------------------
(* Files.  "May" collects what a power loss can leave until an fsync pins it.   *)

TrackPower == \/ CrashKinds \cap {"power_run", "power_recover"} # {}
              \/ "power_first" \in CrashKinds /\ crashes = 0
May(S, x) == IF TrackPower THEN S \cup {x} ELSE {x}

NoPage == [p \in PageId |-> Zero]

pager_write(p, v) ==
    /\ file' = [file EXCEPT ![p] = v]
    /\ filemay' = [filemay EXCEPT ![p] = May(@, v)]
    /\ fsize' = IF p < fsize THEN fsize ELSE p + 1
    /\ sizemay' = May(sizemay, fsize')

\* ftruncate, and num_pages := n.
pager_truncate(n) ==
    /\ file' = [p \in PageId |-> IF p < n THEN file[p] ELSE Zero]
    /\ filemay' = [p \in PageId |-> IF p < n THEN filemay[p] ELSE May(filemay[p], Zero)]
    /\ fsize' = n
    /\ sizemay' = May(sizemay, n)
    /\ np' = n

\* A page of zeros at the end of the file.
pager_allocate == pager_write(np, Zero) /\ np' = np + 1

fsync_data ==
    /\ filemay' = [p \in PageId |-> {file[p]}]
    /\ sizemay' = {fsize}
    /\ UNCHANGED <<file, fsize>>

fsync_log == logmay' = {log} /\ log' = log

\* write(2) of one record, and ftruncate to the first n records.
log_append(r) == log' = Append(log, r) /\ logmay' = May(logmay, Append(log, r))
log_truncate(n) == log' = SubSeq(log, 1, n) /\ logmay' = May(logmay, SubSeq(log, 1, n))

Cached == {p \in PageId : used[p] # {}}

\* The order when the pages S stay; and after an access to page p of S.
Ordered(S) == [q \in PageId |-> IF q \in S THEN {r \in S : used[r] \subseteq used[q]} ELSE {}]
Touched(S, p) == [Ordered(S \ {p}) EXCEPT ![p] = S]

\* What pick_frame evicts when no frame is free: the least recently used page that is
\* not pinned.  A page stays pinned under the callback of heap_scan, and the callback
\* of a join reads on (mjoin_visit); nothing is written below a scan.
Victim(v, w) ==
    /\ Cardinality(Cached) >= Frames
    /\ \E pinned \in SUBSET Cached :
          /\ w => pinned = {}
          /\ v \in Cached \ pinned /\ used[v] \ pinned = {v}

\* The file as a reader of the buffer pool sees it.
Image == [p \in PageId |-> IF p >= np THEN Zero ELSE IF p \in Cached THEN cval[p] ELSE file[p]]

\* The table has the pages of snapshot s with their contents.
Shows(s) == np >= s.np /\ \A p \in PageId : p < s.np => Image[p] = s.img[p]
Snapshot == [np |-> np, img |-> Image]
NoOp == [page |-> None, write |-> FALSE, victim |-> None]
NoCommit == [id |-> 0, np |-> 0, img |-> NoPage, won |-> FALSE]

\* Every frame becomes invalid; also what is left of a pool when its process ends.
bufpool_invalidate_all == used' = [p \in PageId |-> {}] /\ cval' = NoPage /\ dirty' = {}
bufpool_invalidate_from(n) ==
    /\ used' = Ordered({p \in Cached : p < n})
    /\ cval' = [p \in PageId |-> IF p < n THEN cval[p] ELSE Zero]
    /\ dirty' = {p \in dirty : p < n}

\* Every dirty frame is handed to wal_stage and becomes clean.
wal_stage(S) == staged' = S /\ todo' = S
bufpool_flush_cb == wal_stage(dirty) /\ dirty' = {}

wal_begin == stole' = FALSE /\ base' = np /\ spilled' = {} /\ start' = Len(log)

--------------------------------------------------------------------------------
InitImg == [p \in PageId |-> IF p < InitPages THEN 1 ELSE Zero]

Init ==
    /\ file = InitImg /\ fsize = InitPages
    /\ filemay = [p \in PageId |-> {InitImg[p]}] /\ sizemay = {InitPages}
    /\ log = <<>> /\ logmay = {<<>>}
    /\ np = InitPages
    /\ used = [p \in PageId |-> {}] /\ cval = NoPage /\ dirty = {}
    /\ writer = FALSE /\ stole = FALSE /\ base = 0 /\ spilled = {} /\ start = 0
    /\ txnPages = 0
    /\ staged = {} /\ todo = {}
    /\ op = NoOp
    /\ pc = "idle"
    /\ rpos = 1 /\ redo = <<>> /\ loserStart = 1 /\ rbase = None
    /\ clock = 1 /\ crashes = 0
    /\ committed = [np |-> InitPages, img |-> InitImg]
    /\ pending = NoCommit
    /\ begun = committed /\ mine = {} /\ history = {Zero, 1}

--------------------------------------------------------------------------------
(* Page accesses.  bufpool_fetch, the modification of the pinned page and       *)
(* bufpool_unpin are one step: one thread executes statements (db.c).           *)

\* table_begin_write: the first write of a transaction opens the WAL transaction.
BeginWrite ==
    /\ pc = "idle" /\ ~writer
    /\ writer' = TRUE
    /\ wal_begin
    /\ txnPages' = np
    /\ begun' = Snapshot /\ mine' = {}
    /\ UNCHANGED <<diskVars, logVars, np, poolVars, commitVars, op, pc, recVars, clock,
                   crashes, committed, pending, history>>

\* The access to page p may start: a statement asks for a page of the table, or
\* goes on to the page it has just allocated.
MayAccess(p, w) ==
    \/ /\ pc = "idle" /\ p < np
       /\ IF w THEN "write" \in Ops /\ writer /\ clock <= MaxWrites ELSE "read" \in Ops
    \/ pc = "new" /\ p = np - 1 /\ w

\* The access itself: a write gives the pinned page the next number as its content.
Use(w) ==
    /\ clock' = IF w THEN clock + 1 ELSE clock
    /\ mine' = IF w THEN mine \cup {clock + 1} ELSE mine
    /\ pc' = "idle"
    /\ UNCHANGED <<np, txnPages, writer, commitVars, recVars, crashes, committed, pending,
                   begun, history>>

Filled(c, p, w, v) == [c EXCEPT ![p] = IF w THEN clock + 1 ELSE v]

FetchHit(p, w) ==
    /\ MayAccess(p, w) /\ p \in Cached
    /\ used' = Touched(Cached, p)
    /\ cval' = Filled(cval, p, w, cval[p])
    /\ dirty' = IF w THEN dirty \cup {p} ELSE dirty
    /\ Use(w)
    /\ UNCHANGED <<diskVars, logVars, stole, base, spilled, start, op>>

\* A free frame, or the least recently used page when it is clean.
FetchMiss(p, w) ==
    /\ MayAccess(p, w) /\ p \notin Cached
    /\ \/ /\ Cardinality(Cached) < Frames
          /\ used' = Touched(Cached \cup {p}, p)
          /\ cval' = Filled(cval, p, w, file[p])
       \/ \E v \in Cached \ dirty :
             /\ Victim(v, w)
             /\ used' = Touched((Cached \ {v}) \cup {p}, p)
             /\ cval' = Filled([cval EXCEPT ![v] = Zero], p, w, file[p])
    /\ dirty' = IF w THEN dirty \cup {p} ELSE dirty
    /\ Use(w)
    /\ UNCHANGED <<diskVars, logVars, stole, base, spilled, start, op>>

(* The victim is dirty: the steal handler, wal_steal.                           *)

\* The first steal of a transaction records the file's length at its start.
StealBegin(p, w) ==
    /\ MayAccess(p, w) /\ p \notin Cached
    /\ writer
    /\ \E v \in dirty : Victim(v, w) /\ op' = [page |-> p, write |-> w, victim |-> v]
    /\ IF stole THEN UNCHANGED logVars ELSE log_append(BeginRec(base))
    /\ stole' = TRUE
    /\ pc' = "steal_log"
    /\ UNCHANGED <<diskVars, np, poolVars, writer, base, spilled, start, txnPages, commitVars,
                   recVars, clock, crashes, ghostVars>>

\* Faulty variants of StealLog: the page before the first new one gets no
\* before-image; a page that is stolen again gets a second one.
StealLogOffByOne ==
    LET v == op.victim IN
    /\ pc = "steal_log" /\ pc' = "steal_sync"
    /\ IF v \in spilled \/ v + 1 >= base THEN UNCHANGED logVars ELSE log_append(UndoRec(v, file[v]))
    /\ spilled' = spilled \cup {v}
    /\ UNCHANGED <<diskVars, np, poolVars, writer, stole, base, start, txnPages, commitVars, op,
                   recVars, clock, crashes, ghostVars>>
StealLogAgain ==
    LET v == op.victim IN
    /\ pc = "steal_log" /\ pc' = "steal_sync"
    /\ IF v >= base THEN UNCHANGED logVars ELSE log_append(UndoRec(v, file[v]))
    /\ spilled' = spilled \cup {v}
    /\ UNCHANGED <<diskVars, np, poolVars, writer, stole, base, start, txnPages, commitVars, op,
                   recVars, clock, crashes, ghostVars>>

\* The before-image, once per page and only for pages older than the transaction.
StealLog ==
    LET v == op.victim IN
    /\ pc = "steal_log" /\ pc' = "steal_sync"
    /\ IF v \in spilled \/ v >= base THEN UNCHANGED logVars ELSE log_append(UndoRec(v, file[v]))
    /\ spilled' = spilled \cup {v}
    /\ UNCHANGED <<diskVars, np, poolVars, writer, stole, base, start, txnPages, commitVars, op,
                   recVars, clock, crashes, ghostVars>>

\* Faulty variant of StealSync: the log is not synced before the page is written.
StealNoSync ==
    /\ pc = "steal_sync" /\ pc' = "steal_write"
    /\ UNCHANGED <<diskVars, logVars, np, poolVars, txnVars, commitVars, op, recVars, clock, crashes,
                   ghostVars>>

StealSync ==
    /\ pc = "steal_sync" /\ pc' = "steal_write"
    /\ fsync_log
    /\ UNCHANGED <<diskVars, np, poolVars, txnVars, commitVars, op, recVars, clock, crashes,
                   ghostVars>>

StealWrite ==
    /\ pc = "steal_write" /\ pc' = "steal_done"
    /\ pager_write(op.victim, cval[op.victim])
    /\ UNCHANGED <<logVars, np, poolVars, txnVars, commitVars, op, recVars, clock, crashes,
                   ghostVars>>

\* fsync of the data file; the frame is free and the waiting access goes on.
StealDone ==
    /\ pc = "steal_done"
    /\ fsync_data
    /\ used' = Touched((Cached \ {op.victim}) \cup {op.page}, op.page)
    /\ cval' = Filled([cval EXCEPT ![op.victim] = Zero], op.page, op.write, file[op.page])
    /\ dirty' = (dirty \ {op.victim}) \cup (IF op.write THEN {op.page} ELSE {})
    /\ op' = NoOp
    /\ Use(op.write)
    /\ UNCHANGED <<logVars, stole, base, spilled, start>>

\* bufpool_new_page; the access that pins the page follows.
NewPage ==
    /\ pc = "idle" /\ pc' = "new"
    /\ writer /\ "new" \in Ops /\ np < MaxPages /\ clock <= MaxWrites
    /\ pager_allocate
    /\ UNCHANGED <<logVars, poolVars, txnVars, commitVars, op, recVars, clock, crashes, ghostVars>>

\* The end of vacuum_table: the empty pages at the end of the file are dropped from
\* the pool and cut off, which the log does not record; the autocommit follows.
\* They held dead rows only, so from here on they are no part of what is promised.
VacuumTruncate ==
    /\ pc = "idle" /\ pc' = "vacuum"
    /\ writer /\ "vacuum" \in Ops
    /\ \E n \in 0..(np - 1) :
          /\ pager_truncate(n)
          /\ bufpool_invalidate_from(n)
          /\ committed' = [np |-> IF n < committed.np THEN n ELSE committed.np,
                            img |-> committed.img]
    /\ UNCHANGED <<logVars, txnVars, commitVars, op, recVars, clock, crashes, pending, begun, mine,
                   history>>

--------------------------------------------------------------------------------
(* COMMIT: txn_commit_tables, wal_flush_commit, wal_commit.                     *)

\* wal_flush_commit: every dirty frame is staged.  With nothing staged the transaction is over.
CommitStage ==
    /\ pc \in {"idle", "vacuum"} /\ writer
    /\ wal_begin
    /\ bufpool_flush_cb
    /\ IF dirty = {}
       THEN /\ pc' = "idle" /\ writer' = FALSE
            /\ committed' = Snapshot /\ history' = history \cup mine
            /\ UNCHANGED pending
       ELSE /\ pc' = "commit_log"
            /\ pending' = [id |-> clock, np |-> np, img |-> Image, won |-> FALSE]
            /\ UNCHANGED <<writer, committed, history>>
    /\ UNCHANGED <<diskVars, logVars, np, used, cval, txnPages, op, recVars, clock, crashes, begun,
                   mine>>

CommitLog ==
    /\ pc = "commit_log"
    /\ \E p \in todo :
          /\ log_append(PageRec(p, cval[p]))
          /\ todo' = todo \ {p}
    /\ pc' = IF todo' = {} THEN "commit_mark" ELSE pc
    /\ UNCHANGED <<diskVars, np, poolVars, txnVars, staged, op, recVars, clock, crashes, ghostVars>>

CommitMark ==
    /\ pc = "commit_mark" /\ pc' = "commit_sync"
    /\ log_append(CommitRec(pending.id))
    /\ UNCHANGED <<diskVars, np, poolVars, txnVars, commitVars, op, recVars, clock, crashes,
                   ghostVars>>

\* "Past this line it is durable" (wal.c).
CommitSync ==
    /\ pc = "commit_sync" /\ pc' = "commit_apply"
    /\ fsync_log
    /\ todo' = staged
    /\ committed' = [np |-> pending.np, img |-> pending.img]
    /\ history' = history \cup mine
    /\ pending' = NoCommit
    /\ UNCHANGED <<diskVars, np, poolVars, txnVars, staged, op, recVars, clock, crashes, begun, mine>>

\* No-force: the data file is written and not synced.
CommitApply ==
    /\ pc = "commit_apply"
    /\ \E p \in todo :
          /\ pager_write(p, cval[p])
          /\ todo' = todo \ {p}
    /\ pc' = IF todo' = {} THEN "commit_done" ELSE pc
    /\ UNCHANGED <<logVars, np, poolVars, txnVars, staged, op, recVars, clock, crashes, ghostVars>>

\* Faulty variant of CheckpointSync: the log is emptied before the data is durable.
CheckpointNoSync ==
    /\ pc = "commit_done" /\ Len(log) > CheckpointLen
    /\ pc' = "checkpoint"
    /\ UNCHANGED <<diskVars, logVars, np, poolVars, txnVars, commitVars, op, recVars, clock, crashes,
                   ghostVars>>

\* A log past the threshold is emptied, after the data file has caught up with it.
CheckpointSync ==
    /\ pc = "commit_done" /\ Len(log) > CheckpointLen
    /\ fsync_data
    /\ pc' = "checkpoint"
    /\ UNCHANGED <<logVars, np, poolVars, txnVars, commitVars, op, recVars, clock, crashes,
                   ghostVars>>

CheckpointTruncate ==
    /\ pc = "checkpoint" /\ pc' = "commit_done"
    /\ log_truncate(0)
    /\ UNCHANGED <<diskVars, np, poolVars, txnVars, commitVars, op, recVars, clock, crashes,
                   ghostVars>>

CommitDone ==
    /\ pc = "commit_done" /\ Len(log) <= CheckpointLen
    /\ pc' = "idle" /\ writer' = FALSE
    /\ staged' = {} /\ stole' = FALSE /\ spilled' = {}
    /\ UNCHANGED <<diskVars, logVars, np, poolVars, base, start, txnPages, todo, op, recVars, clock,
                   crashes, ghostVars>>

--------------------------------------------------------------------------------
(* ROLLBACK: txn_abort_tables, wal_undo.                                        *)

Abort ==
    /\ pc = "idle" /\ writer
    /\ pc' = IF stole THEN "undo" ELSE "abort"
    /\ rpos' = start + 1
    /\ UNCHANGED <<diskVars, logVars, np, poolVars, txnVars, commitVars, op, redo, loserStart, rbase,
                   clock, crashes, ghostVars>>

\* The scan stops at the end of the log, or at a record of another kind.
UndoMore == rpos <= Len(log) /\ log[rpos].type \in {"BEGIN", "UNDO"}

UndoStep ==
    /\ pc = "undo" /\ UndoMore
    /\ rpos' = rpos + 1
    /\ IF log[rpos].type = "UNDO" THEN pager_write(log[rpos].page, log[rpos].val)
                                  ELSE UNCHANGED diskVars
    /\ UNCHANGED <<logVars, np, poolVars, txnVars, commitVars, op, pc, redo, loserStart, rbase, clock,
                   crashes, ghostVars>>

\* The BEGIN record, if one was read, repeats base_pages.
UndoTruncate ==
    /\ pc = "undo" /\ ~UndoMore
    /\ IF base < np THEN pager_truncate(base) ELSE UNCHANGED <<diskVars, np>>
    /\ pc' = "undo_sync"
    /\ UNCHANGED <<logVars, poolVars, txnVars, commitVars, op, recVars, clock, crashes, ghostVars>>

UndoSync ==
    /\ pc = "undo_sync" /\ pc' = "undo_log"
    /\ fsync_data
    /\ UNCHANGED <<logVars, np, poolVars, txnVars, commitVars, op, recVars, clock, crashes, ghostVars>>

UndoLogTruncate ==
    /\ pc = "undo_log" /\ pc' = "abort"
    /\ log_truncate(start)
    /\ stole' = FALSE /\ spilled' = {}
    /\ UNCHANGED <<diskVars, np, poolVars, writer, base, start, txnPages, commitVars, op, recVars, clock,
                   crashes, ghostVars>>

\* The pool is dropped whole, pages the transaction added are cut off.
AbortFinish ==
    /\ pc = "abort" /\ pc' = "idle"
    /\ bufpool_invalidate_all
    /\ pager_truncate(txnPages)
    /\ writer' = FALSE
    /\ UNCHANGED <<logVars, stole, base, spilled, start, txnPages, commitVars, op, recVars, clock,
                   crashes, ghostVars>>

--------------------------------------------------------------------------------
(* The process ends, and the file is opened again: wal_open, wal_recover.       *)

Recovering == pc \in {"redo", "redo_apply", "loser", "rec_log", "rec_sync"}

\* What the process held is gone.
LoseMemory ==
    /\ bufpool_invalidate_all
    /\ np' = 0
    /\ writer' = FALSE /\ stole' = FALSE /\ base' = 0 /\ spilled' = {} /\ start' = 0 /\ txnPages' = 0
    /\ staged' = {} /\ todo' = {}
    /\ op' = NoOp
    /\ rpos' = 1 /\ redo' = <<>> /\ loserStart' = 1 /\ rbase' = None
    /\ pc' = "down"
    /\ UNCHANGED <<clock, committed, pending, begun, mine, history>>

\* db_close with no transaction open: nothing is dirty, the log is left as it is.
Close ==
    /\ pc = "idle" /\ ~writer
    /\ LoseMemory
    /\ UNCHANGED <<diskVars, logVars, crashes>>

\* The process dies; what it wrote is with the operating system.
ProcessCrash ==
    /\ "process" \in CrashKinds
    /\ pc # "down" /\ crashes < MaxCrashes
    /\ LoseMemory
    /\ crashes' = crashes + 1
    /\ UNCHANGED <<diskVars, logVars>>

\* The machine dies; of the writes after the last fsync any may be missing.  The kind
\* "power_first" is the loss that comes before any other crash, at a moment that leaves
\* no doubt about the data file's length.
PowerLoss ==
    /\ IF Recovering THEN "power_recover" \in CrashKinds
       ELSE "power_run" \notin CrashKinds =>
                "power_first" \in CrashKinds /\ crashes = 0 /\ sizemay = {fsize}
    /\ pc # "down" /\ crashes < MaxCrashes
    /\ LoseMemory
    /\ crashes' = crashes + 1
    /\ \E s \in sizemay : \E f \in [PageId -> UNION {filemay[p] : p \in PageId}] :
          /\ \A p \in PageId : f[p] \in filemay[p] /\ (p >= s => f[p] = Zero)
          /\ file' = f /\ fsize' = s
          /\ filemay' = [p \in PageId |-> {f[p]}] /\ sizemay' = {s}
    /\ \E l \in logmay : log' = l /\ logmay' = {l}

Open ==
    /\ pc = "down" /\ pc' = "redo"
    /\ np' = fsize
    /\ pending' = [pending EXCEPT !.won = @ \/ \E i \in DOMAIN log : log[i] = CommitRec(pending.id)]
    /\ UNCHANGED <<diskVars, logVars, poolVars, txnVars, commitVars, op, recVars, clock, crashes,
                   committed, begun, mine, history>>

\* Pass 1 collects the after-images of a segment ...
RedoScan ==
    /\ pc = "redo" /\ rpos <= Len(log)
    /\ rpos' = rpos + 1
    /\ CASE log[rpos].type = "PAGE" -> redo' = Append(redo, log[rpos]) /\ UNCHANGED <<pc, loserStart>>
         [] log[rpos].type = "COMMIT" -> /\ pc' = IF redo = <<>> THEN pc ELSE "redo_apply"
                                         /\ loserStart' = rpos + 1
                                         /\ UNCHANGED redo
         [] OTHER -> UNCHANGED <<pc, loserStart, redo>>
    /\ UNCHANGED <<diskVars, logVars, np, poolVars, txnVars, commitVars, op, rbase, clock, crashes,
                   ghostVars>>

\* ... and applies them at its commit marker.
RedoApply ==
    /\ pc = "redo_apply" /\ redo # <<>>
    /\ pager_write(Head(redo).page, Head(redo).val)
    /\ redo' = Tail(redo)
    /\ pc' = IF redo' = <<>> THEN "redo" ELSE pc
    /\ UNCHANGED <<logVars, np, poolVars, txnVars, commitVars, op, rpos, loserStart, rbase, clock,
                   crashes, ghostVars>>

RedoEnd ==
    /\ pc = "redo" /\ rpos > Len(log)
    /\ pc' = "loser" /\ rpos' = loserStart /\ redo' = <<>>
    /\ UNCHANGED <<diskVars, logVars, np, poolVars, txnVars, commitVars, op, loserStart, rbase, clock,
                   crashes, ghostVars>>

\* Pass 2 puts the before-images of the tail back.
LoserMore == rpos <= Len(log) /\ log[rpos].type # "COMMIT"

LoserScan ==
    /\ pc = "loser" /\ LoserMore
    /\ rpos' = rpos + 1
    /\ rbase' = IF log[rpos].type = "BEGIN" THEN log[rpos].val ELSE rbase
    /\ IF log[rpos].type = "UNDO" THEN pager_write(log[rpos].page, log[rpos].val)
                                  ELSE UNCHANGED diskVars
    /\ UNCHANGED <<logVars, np, poolVars, txnVars, commitVars, op, pc, redo, loserStart, clock, crashes,
                   ghostVars>>

\* Faulty variant of LoserEnd: the file is cut although no BEGIN was found.
LoserEndNoBase ==
    /\ pc = "loser" /\ ~LoserMore
    /\ IF rbase < np THEN pager_truncate(rbase) ELSE UNCHANGED <<diskVars, np>>
    /\ pc' = "rec_log"
    /\ UNCHANGED <<logVars, poolVars, txnVars, commitVars, op, recVars, clock, crashes, ghostVars>>

LoserEnd ==
    /\ pc = "loser" /\ ~LoserMore
    /\ IF rbase # None /\ rbase < np THEN pager_truncate(rbase) ELSE UNCHANGED <<diskVars, np>>
    /\ pc' = "rec_log"
    /\ UNCHANGED <<logVars, poolVars, txnVars, commitVars, op, recVars, clock, crashes, ghostVars>>

RecoverTruncate ==
    /\ pc = "rec_log" /\ pc' = "rec_sync"
    /\ log_truncate(0)
    /\ UNCHANGED <<diskVars, np, poolVars, txnVars, commitVars, op, recVars, clock, crashes, ghostVars>>

\* An interrupted commit counts, as a whole, exactly if an opening of the file has
\* found its marker in the log (Open), which is what wal_recover goes by.
RecoverSync ==
    /\ pc = "rec_sync" /\ pc' = "idle"
    /\ fsync_data
    /\ rpos' = 1 /\ redo' = <<>> /\ loserStart' = 1 /\ rbase' = None
    /\ committed' = IF pending.won THEN [np |-> pending.np, img |-> pending.img] ELSE committed
    /\ history' = IF pending.won THEN history \cup mine ELSE history
    /\ pending' = NoCommit /\ mine' = {}
    /\ UNCHANGED <<logVars, np, poolVars, txnVars, commitVars, op, clock, crashes, begun>>

Recover ==
    \/ Open \/ RedoScan \/ RedoApply \/ RedoEnd \/ LoserScan \/ LoserEnd
    \/ RecoverTruncate \/ RecoverSync

--------------------------------------------------------------------------------
Next ==
    \/ BeginWrite
    \/ \E p \in PageId, w \in BOOLEAN :
          FetchHit(p, w) \/ FetchMiss(p, w) \/ StealBegin(p, w)
    \/ StealLog \/ StealSync \/ StealWrite \/ StealDone \/ NewPage \/ VacuumTruncate
    \/ CommitStage \/ CommitLog \/ CommitMark \/ CommitSync \/ CommitApply
    \/ CheckpointSync \/ CheckpointTruncate \/ CommitDone
    \/ Abort \/ UndoStep \/ UndoTruncate \/ UndoSync \/ UndoLogTruncate \/ AbortFinish
    \/ Close \/ ProcessCrash \/ PowerLoss
    \/ Recover

Spec == Init /\ [][Next]_vars

--------------------------------------------------------------------------------
(* Properties.                                                                  *)

FileState == [np : 0..MaxPages, img : [PageId -> Val]]

DiskType == /\ file \in [PageId -> Val] /\ fsize \in 0..MaxPages
            /\ filemay \in [PageId -> SUBSET Val] /\ sizemay \subseteq 0..MaxPages
LogType == log \in Seq(Rec) /\ logmay \subseteq Seq(Rec)
PoolType == used \in [PageId -> SUBSET PageId] /\ cval \in [PageId -> Val] /\ dirty \subseteq PageId
TxnType == /\ np \in 0..MaxPages
           /\ writer \in BOOLEAN /\ stole \in BOOLEAN
           /\ base \in 0..MaxPages /\ spilled \subseteq PageId /\ start \in Nat
           /\ txnPages \in 0..MaxPages
CallType == /\ staged \subseteq PageId /\ todo \subseteq PageId
            /\ op \in [page : PageId \cup {None}, write : BOOLEAN, victim : PageId \cup {None}]
            /\ rpos \in Nat \ {0} /\ redo \in Seq(Rec) /\ loserStart \in Nat \ {0}
            /\ rbase \in Nat \cup {None}
HistoryType == /\ clock \in Nat \ {0} /\ crashes \in Nat
               /\ committed \in FileState /\ begun \in FileState
               /\ pending \in [id : Nat, np : 0..MaxPages, img : [PageId -> Val], won : BOOLEAN]
               /\ mine \subseteq Val /\ history \subseteq Val

\* Every variable holds a value of its kind; page numbers stay inside the file's
\* bound and num_pages never goes negative (wal_recover may cut the file at a base
\* it has read from the log).
TypeOK == DiskType /\ LogType /\ PoolType /\ TxnType /\ CallType /\ HistoryType

\* No transaction is open and no call is running.
AtRest == pc = "idle" /\ ~writer

\* Durability and atomicity of COMMIT and ROLLBACK across restarts: whenever no
\* transaction is open, the table shows exactly the pages of the last committed
\* transaction, whatever was rolled back, interrupted by a crash, or replayed by
\* wal_recover in between.  A commit that a crash interrupted before wal_commit's fsync
\* of the log returned is judged by its marker: the transaction counts if the marker
\* was in the log when the file was opened again, and must not show otherwise.
CommittedState == AtRest => Shows(committed)

\* No page of the table, outside a transaction, holds a write of a transaction that
\* did not commit: wal_undo and pass 2 of wal_recover take back every stolen page.
NoLoserData == AtRest => \A p \in PageId : Image[p] \in history

\* The write-ahead rule of wal_steal: while a transaction may still be rolled back,
\* a page of the data file that no longer holds what it held when the transaction
\* began has its before-image in every log a crash at this point could leave.
UndoBeforeSteal ==
    writer /\ pc \in {"idle", "new", "steal_log", "steal_sync", "steal_write", "steal_done",
                      "undo", "undo_sync", "undo_log", "abort"} =>
        \A p \in PageId : p < base /\ file[p] # begun.img[p] =>
            \A l \in logmay : \E i \in DOMAIN l : l[i] = UndoRec(p, begun.img[p])

\* ROLLBACK gives back the table as it was when the transaction first wrote to it,
\* its length included, even when some of its pages had reached the disk.
RollbackRestores == [][AbortFinish => Snapshot' = begun]_vars

\* wal_recover takes whatever follows the last marker for an unfinished transaction:
\* so once a transaction is over, no before-image may be left after the last marker.
TailIsLoser == AtRest => \A i \in DOMAIN log : log[i].type = "UNDO" =>
                             \E j \in DOMAIN log : j > i /\ log[j].type = "COMMIT"
================================================================================
