------------------------------- MODULE WalProofs -------------------------------
(* Proofs about Wal.  One inductive invariant, IInv, carries the write-ahead    *)
(* rule of wal_steal (UndoBeforeSteal) and the exactness of ROLLBACK            *)
(* (RollbackRestores), for every file size, pool size and crash model.          *)
EXTENDS Wal, TLAPS

StealPcs == {"steal_log", "steal_sync", "steal_write", "steal_done"}
CommitPcs == {"commit_log", "commit_mark", "commit_sync", "commit_apply", "commit_done", "checkpoint"}
UndoPcs == {"undo", "undo_sync", "undo_log"}
RunPcs == {"idle", "new"} \cup StealPcs
DownPcs == {"down", "redo", "redo_apply", "loser", "rec_log", "rec_sync"}

\* A call of the write path runs only inside a transaction.
PcInv ==
    /\ pc \in RunPcs \cup UndoPcs \cup CommitPcs \cup DownPcs \cup {"vacuum", "abort"}
    /\ pc \in ({"new", "vacuum", "abort"} \cup StealPcs \cup UndoPcs \cup CommitPcs) => writer
    /\ pc \in StealPcs => op.victim \in Cached /\ op.page \in PageId /\ op.page < np
    /\ pc \in DownPcs => Cached = {} /\ ~writer

\* The pool: a resident page that is clean holds what the file holds, unless the
\* commit under way has still to write it.
Unapplied ==
    CASE pc \in {"commit_log", "commit_mark", "commit_sync"} -> staged
      [] pc = "commit_apply" -> todo
      [] OTHER -> {}
PoolInv ==
    /\ dirty \subseteq Cached
    /\ ~writer \/ pc \in CommitPcs => dirty = {}
    /\ pc \notin UndoPcs \cup {"abort"} =>
          \A p \in Cached : p < np /\ (p \in dirty \cup Unapplied \/ cval[p] = file[p])

\* The open transaction: begun is the file of the time it began.
TxnInv ==
    writer /\ pc \in RunPcs \cup UndoPcs \cup {"abort"} =>
        /\ base = txnPages /\ base = begun.np
        /\ \A p \in PageId : p >= base => begun.img[p] = Zero
        /\ start <= Len(log)
        /\ pc \in RunPcs => base <= np

\* Its part of the log, and the pages it has stolen.
UndoInv ==
    writer /\ pc \in RunPcs \cup UndoPcs =>
        /\ ~stole => spilled = {} /\ pc \notin StealPcs
        /\ \A p \in PageId : p < base /\ p \notin spilled => file[p] = begun.img[p]
        /\ \A p \in spilled : p < base =>
              \E i \in (start + 1)..Len(log) : log[i] = UndoRec(p, begun.img[p])
        /\ \A i \in (start + 1)..Len(log) :
              /\ log[i].type \in {"BEGIN", "UNDO"}
              /\ log[i].type = "UNDO" =>
                    log[i].page \in PageId /\ log[i].val = begun.img[log[i].page]
        /\ pc \in {"steal_sync", "steal_write"} => op.victim \in spilled
        /\ pc = "steal_write" => logmay = {log}

\* ROLLBACK: what wal_undo has still to put back.
RestoreInv ==
    /\ pc = "undo" => /\ rpos > start
                      /\ \A p \in PageId : p < base =>
                            \/ file[p] = begun.img[p]
                            \/ \E i \in rpos..Len(log) : log[i] = UndoRec(p, begun.img[p])
    /\ pc \in {"undo_sync", "undo_log", "abort"} =>
          \A p \in PageId : p < base => file[p] = begun.img[p]

\* The inductive invariant.
IInv == TypeOK /\ PcInv /\ PoolInv /\ TxnInv /\ UndoInv /\ RestoreInv /\ UndoBeforeSteal
--------------------------------------------------------------------------------
(* The pool's order of use.                                                     *)

\* Exactly the pages of S are in the order: those the code keeps in frames.
LEMMA OrderedPages ==
    ASSUME used \in [PageId -> SUBSET PageId], NEW S \in SUBSET PageId
    PROVE  /\ Ordered(S) \in [PageId -> SUBSET PageId]
           /\ {q \in PageId : Ordered(S)[q] # {}} = S
  BY Zenon DEF Ordered

\* The pool after bufpool_fetch.
LEMMA TouchedPages ==
    ASSUME used \in [PageId -> SUBSET PageId], NEW S \in SUBSET PageId, NEW p \in S
    PROVE  /\ Touched(S, p) \in [PageId -> SUBSET PageId]
           /\ {q \in PageId : Touched(S, p)[q] # {}} = S
<1>1. Touched(S, p) \in [PageId -> SUBSET PageId]
  BY Zenon DEF Ordered, Touched
<1>2. \A q \in PageId : Touched(S, p)[q] # {} <=> q \in S
  BY Zenon DEF Ordered, Touched
<1> QED
  BY <1>1, <1>2, Zenon

--------------------------------------------------------------------------------
(* Type correctness.                                                            *)

USE DEF diskVars, logVars, poolVars, txnVars, commitVars, recVars, ghostVars,
    wal_begin, wal_stage, bufpool_flush_cb, bufpool_invalidate_from, pager_allocate

\* The pager keeps the file well formed.
LEMMA WriteType ==
    ASSUME DiskType, NEW p \in PageId \cup {None}, NEW v \in Val, pager_write(p, v)
    PROVE  DiskType'
<1> USE WalAssumption DEF DiskType, pager_write, May, Val, PageId, None
<1>1. file' \in [PageId -> Val]
  BY Zenon
<1>2. filemay' \in [PageId -> SUBSET Val]
  BY Zenon
<1>3. fsize' \in 0..MaxPages /\ sizemay' \subseteq 0..MaxPages
  OBVIOUS
<1> QED
  BY <1>1, <1>2, <1>3, Zenon

\* pager_truncate cuts the file, or extends it with zeros.
LEMMA TruncateType ==
    ASSUME DiskType, NEW n \in 0..MaxPages, pager_truncate(n)
    PROVE  DiskType' /\ np' = n
<1> USE WalAssumption DEF DiskType, pager_truncate, May, Val, PageId, Zero
<1>1. file' \in [PageId -> Val]
  BY Zenon
<1>2. filemay' \in [PageId -> SUBSET Val]
  OBVIOUS
<1>3. fsize' \in 0..MaxPages /\ sizemay' \subseteq 0..MaxPages /\ np' = n
  BY Zenon
<1> QED
  BY <1>1, <1>2, <1>3, Zenon

\* An fsync of the data file leaves one possible content.
LEMMA SyncType == ASSUME DiskType, fsync_data PROVE DiskType'
  BY Zenon DEF DiskType, fsync_data

\* The actions that touch the data file.
LEMMA DiskFrame ==
    Next => \/ UNCHANGED diskVars
            \/ StealWrite \/ StealDone \/ NewPage \/ VacuumTruncate
            \/ CommitApply \/ CheckpointSync
            \/ UndoStep \/ UndoTruncate \/ UndoSync \/ AbortFinish
            \/ PowerLoss \/ RedoApply \/ LoserScan \/ LoserEnd \/ RecoverSync
  BY ZenonT(60) DEF Next, Recover, BeginWrite, FetchHit, FetchMiss, StealBegin, StealLog, StealSync,
         CommitStage, CommitLog, CommitMark, CommitSync, CheckpointTruncate, CommitDone, Abort,
         UndoLogTruncate, Close, ProcessCrash, Open, RedoScan, RedoEnd, RecoverTruncate

\* The file holds pages, whatever a power loss keeps of the unsynced writes.
LEMMA DiskTypeStep == TypeOK /\ PcInv /\ Next => DiskType'
<1> SUFFICES ASSUME TypeOK, PcInv, Next PROVE DiskType'
  BY Zenon
<1> USE WalAssumption DEF TypeOK
<1>1. CASE UNCHANGED diskVars
  BY <1>1, Zenon DEF DiskType
<1>2. CASE StealWrite
  BY <1>2, WriteType, Zenon DEF StealWrite, PcInv, StealPcs, Cached, PoolType
<1>3. CASE StealDone \/ CheckpointSync \/ UndoSync \/ RecoverSync
  BY <1>3, SyncType, Zenon DEF StealDone, CheckpointSync, UndoSync, RecoverSync
<1>4. CASE NewPage
  BY <1>4, WriteType DEF NewPage, TxnType, PageId, Val, Zero
<1>5. CASE VacuumTruncate
  BY <1>5, TruncateType DEF VacuumTruncate, TxnType
<1>6. CASE CommitApply
  BY <1>6, WriteType, Zenon DEF CommitApply, CallType, PoolType
<1>7. CASE UndoStep \/ LoserScan
  <2>1. log[rpos] \in Rec
    BY <1>7 DEF UndoStep, UndoMore, LoserScan, LoserMore, LogType, CallType
  <2>2. CASE pager_write(log[rpos].page, log[rpos].val)
    BY <2>1, <2>2, WriteType, Zenon DEF Rec, Val
  <2>3. CASE UNCHANGED diskVars
    BY <2>3, Zenon DEF DiskType
  <2> QED
    BY <1>7, <2>2, <2>3, Zenon DEF UndoStep, LoserScan
<1>8. CASE UndoTruncate
  BY <1>8, <1>1, TruncateType, Zenon DEF UndoTruncate, TxnType
<1>9. CASE AbortFinish
  BY <1>9, TruncateType, Zenon DEF AbortFinish, TxnType
<1>10. CASE PowerLoss
  BY <1>10 DEF PowerLoss, DiskType
<1>11. CASE RedoApply
  <2>1. Head(redo) \in Rec
    BY <1>11 DEF RedoApply, CallType
  <2> QED
    BY <1>11, <2>1, WriteType, Zenon DEF RedoApply, Rec, Val
<1>12. CASE LoserEnd
  BY <1>12, <1>1, TruncateType DEF LoserEnd, TxnType, CallType, None
<1> QED
  BY <1>1, <1>2, <1>3, <1>4, <1>5, <1>6, <1>7, <1>8, <1>9, <1>10, <1>11, <1>12, DiskFrame, Zenon

\* The actions that touch the log.
LEMMA LogFrame ==
    Next => \/ UNCHANGED logVars
            \/ \E p \in PageId, w \in BOOLEAN : StealBegin(p, w)
            \/ StealLog \/ StealSync \/ CommitLog \/ CommitMark \/ CommitSync
            \/ CheckpointTruncate \/ UndoLogTruncate \/ PowerLoss \/ RecoverTruncate
  BY ZenonT(60) DEF Next, Recover, BeginWrite, FetchHit, FetchMiss, StealWrite, StealDone, NewPage,
         VacuumTruncate, CommitStage, CommitApply, CheckpointSync, CommitDone, Abort, UndoStep,
         UndoTruncate, UndoSync, AbortFinish, Close, ProcessCrash, Open, RedoScan, RedoApply,
         RedoEnd, LoserScan, LoserEnd, RecoverSync

\* log_append.
LEMMA AppendType ==
    ASSUME LogType, NEW r \in Rec, log_append(r)
    PROVE  LogType'
  BY DEF LogType, log_append, May

\* Truncating the log.
LEMMA LogTruncateType ==
    ASSUME LogType, NEW n \in 0..Len(log), log_truncate(n)
    PROVE  LogType'
<1>1. SubSeq(log, 1, n) \in Seq(Rec)
  BY DEF LogType
<1> QED
  BY <1>1, Zenon DEF LogType, log_truncate, May

\* The log holds records.
LEMMA LogTypeStep == TypeOK /\ PcInv /\ TxnInv /\ Next => LogType'
<1> SUFFICES ASSUME TypeOK, PcInv, TxnInv, Next PROVE LogType'
  BY Zenon
<1> USE WalAssumption DEF TypeOK
<1>1. CASE UNCHANGED logVars
  BY <1>1, Zenon DEF LogType
<1>2. ASSUME NEW p \in PageId, NEW w \in BOOLEAN, StealBegin(p, w)
      PROVE  LogType'
  BY <1>1, <1>2, AppendType DEF BeginRec, Rec, TxnType, StealBegin
<1>3. CASE StealLog
  <2>1. op.victim \in PageId
    BY <1>3, Zenon DEF StealLog, PcInv, StealPcs, Cached
  <2>2. UndoRec(op.victim, file[op.victim]) \in Rec
    BY <2>1, Zenon DEF UndoRec, Rec, DiskType, Val
  <2> QED
    BY <1>3, <1>1, <2>2, AppendType, Zenon DEF StealLog
<1>4. CASE StealSync \/ CommitSync
  BY <1>4, Zenon DEF StealSync, CommitSync, fsync_log, LogType
<1>5. CASE CommitLog
  BY <1>5, AppendType, Zenon DEF CommitLog, PageRec, Rec, CallType, PoolType, Val
<1>6. CASE CommitMark
  BY <1>6, AppendType, Zenon DEF CommitRec, Rec, HistoryType, CommitMark
<1>7. CASE CheckpointTruncate \/ RecoverTruncate
  BY <1>7, LogTruncateType DEF LogType, CheckpointTruncate, RecoverTruncate
<1>8. CASE UndoLogTruncate
  BY <1>8, SMTT(30), LogTruncateType DEF UndoLogTruncate, PcInv, TxnInv,
     UndoPcs, TxnType, LogType
<1>9. CASE PowerLoss
  BY <1>9, Zenon DEF PowerLoss, LogType
<1> QED
  BY <1>1, <1>2, <1>3, <1>4, <1>5, <1>6, <1>7, <1>8, <1>9, LogFrame, Zenon

\* The actions that touch the buffer pool.
LEMMA PoolFrame ==
    Next => \/ UNCHANGED poolVars
            \/ \E p \in PageId, w \in BOOLEAN : FetchHit(p, w) \/ FetchMiss(p, w)
            \/ StealDone \/ VacuumTruncate \/ CommitStage
            \/ bufpool_invalidate_all
  BY ZenonT(60) DEF Next, Recover, LoseMemory, BeginWrite, StealBegin, StealLog, StealSync, StealWrite, NewPage,
         CommitLog, CommitMark, CommitSync, CommitApply, CheckpointSync, CheckpointTruncate,
         CommitDone, Abort, UndoStep, UndoTruncate, UndoSync, UndoLogTruncate, AbortFinish, Close,
         ProcessCrash, PowerLoss, Open, RedoScan, RedoApply, RedoEnd, LoserScan, LoserEnd,
         RecoverTruncate, RecoverSync

\* What each of them leaves in the pool.
LEMMA PoolAfterHit ==
    ASSUME TypeOK, NEW p \in PageId, NEW w \in BOOLEAN, FetchHit(p, w)
    PROVE  PoolType' /\ Cached' = Cached
<1>1. Cached \subseteq PageId /\ used \in [PageId -> SUBSET PageId]
  BY Zenon DEF Cached, TypeOK, PoolType
<1>2. used' \in [PageId -> SUBSET PageId] /\ Cached' = Cached
  BY <1>1, TouchedPages, Zenon DEF FetchHit, Cached
<1>3. cval' \in [PageId -> Val] /\ dirty' \subseteq PageId
  BY DEF FetchHit, Filled, TypeOK, PoolType, HistoryType, Val
<1> QED
  BY <1>2, <1>3, Zenon DEF PoolType

\* A miss brings its page in, in a free frame or in place of a clean page.
LEMMA PoolAfterMiss ==
    ASSUME TypeOK, NEW p \in PageId, NEW w \in BOOLEAN, FetchMiss(p, w)
    PROVE  /\ PoolType' /\ p \in Cached' /\ Cached' \subseteq Cached \cup {p}
           /\ dirty \subseteq Cached => dirty \subseteq Cached'
<1>1. Cached \subseteq PageId /\ used \in [PageId -> SUBSET PageId]
  BY Zenon DEF Cached, TypeOK, PoolType
<1>2. CASE used' = Touched(Cached \cup {p}, p) /\ cval' = Filled(cval, p, w, file[p])
  <2>1. used' \in [PageId -> SUBSET PageId] /\ Cached' = Cached \cup {p}
    BY <1>1, <1>2, TouchedPages, Zenon DEF Cached
  <2>2. cval' \in [PageId -> Val] /\ dirty' \subseteq PageId
    BY <1>2 DEF FetchMiss, Filled, TypeOK, PoolType, DiskType, HistoryType, Val
  <2> QED
    BY <2>1, <2>2, Zenon DEF PoolType
<1>3. ASSUME NEW v \in Cached \ dirty, used' = Touched((Cached \ {v}) \cup {p}, p),
             cval' = Filled([cval EXCEPT ![v] = Zero], p, w, file[p])
      PROVE  /\ PoolType' /\ p \in Cached' /\ Cached' \subseteq Cached \cup {p}
             /\ dirty \subseteq Cached => dirty \subseteq Cached'
  <2>1. used' \in [PageId -> SUBSET PageId] /\ Cached' = (Cached \ {v}) \cup {p}
    BY <1>1, <1>3, TouchedPages, ZenonT(30) DEF Cached
  <2>2. cval' \in [PageId -> Val] /\ dirty' \subseteq PageId
    BY <1>3 DEF FetchMiss, Filled, TypeOK, PoolType, DiskType, HistoryType, Val, Zero
  <2> QED
    BY <2>1, <2>2, Zenon DEF PoolType
<1> QED
  BY <1>2, <1>3, Zenon DEF FetchMiss

\* A stolen frame: the victim leaves, the page of the call comes in.
LEMMA PoolAfterSteal ==
    ASSUME TypeOK, PcInv, StealDone
    PROVE  PoolType' /\ Cached' = (Cached \ {op.victim}) \cup {op.page}
<1>1. Cached \subseteq PageId /\ used \in [PageId -> SUBSET PageId]
  BY Zenon DEF Cached, TypeOK, PoolType
<1>2. op.page \in PageId /\ op.victim \in PageId /\ op.write \in BOOLEAN
  BY <1>1, Zenon DEF StealDone, PcInv, StealPcs, TypeOK, CallType
<1>3. used' \in [PageId -> SUBSET PageId] /\ Cached' = (Cached \ {op.victim}) \cup {op.page}
  <2> DEFINE S == (Cached \ {op.victim}) \cup {op.page}
  <2>1. S \in SUBSET PageId /\ op.page \in S
    BY <1>1, <1>2, Zenon
  <2>2. used' = Touched(S, op.page)
    BY Zenon DEF StealDone
  <2> HIDE DEF S
  <2> DEFINE T == Touched(S, op.page)
  <2>3. T \in [PageId -> SUBSET PageId] /\ {q \in PageId : T[q] # {}} = S
    BY <1>1, <2>1, TouchedPages, Zenon
  <2>4. Cached' = S
    BY <2>2, <2>3, Zenon DEF Cached
  <2> QED
    BY <2>2, <2>3, <2>4, Zenon DEF S
<1>4. cval' \in [PageId -> Val] /\ dirty' \subseteq PageId
  BY <1>2, SMTT(30) DEF StealDone, Filled, TypeOK, PoolType, DiskType, HistoryType, Val, Zero
<1> QED
  BY <1>3, <1>4, Zenon DEF PoolType

\* bufpool_invalidate_from drops the pages VACUUM cut off.
LEMMA PoolAfterVacuum ==
    ASSUME TypeOK, NEW n \in 0..(np - 1),
           used' = Ordered({p \in Cached : p < n}),
           cval' = [p \in PageId |-> IF p < n THEN cval[p] ELSE Zero],
           dirty' = {p \in dirty : p < n}
    PROVE  PoolType' /\ Cached' = {p \in Cached : p < n}
<1>1. {p \in Cached : p < n} \subseteq PageId /\ used \in [PageId -> SUBSET PageId]
  BY Zenon DEF Cached, TypeOK, PoolType
<1>2. used' \in [PageId -> SUBSET PageId] /\ Cached' = {p \in Cached : p < n}
  BY <1>1, OrderedPages, Zenon DEF Cached
<1>3. cval' \in [PageId -> Val] /\ dirty' \subseteq PageId
  BY Zenon DEF TypeOK, PoolType, Val, Zero
<1> QED
  BY <1>2, <1>3, Zenon DEF PoolType

\* bufpool_invalidate_all empties the pool.
LEMMA PoolAfterDrop ==
    ASSUME bufpool_invalidate_all
    PROVE  PoolType' /\ Cached' = {} /\ dirty' = {}
  BY Zenon DEF bufpool_invalidate_all, PoolType, Cached, NoPage, Val, Zero

\* The pool holds pages.
LEMMA PoolTypeStep == TypeOK /\ PcInv /\ Next => PoolType'
<1> SUFFICES ASSUME TypeOK, PcInv, Next PROVE PoolType'
  BY Zenon
<1>1. CASE UNCHANGED poolVars
  BY <1>1, Zenon DEF TypeOK, PoolType
<1>2. ASSUME NEW p \in PageId, NEW w \in BOOLEAN, FetchHit(p, w) \/ FetchMiss(p, w)
      PROVE  PoolType'
  BY <1>2, PoolAfterHit, PoolAfterMiss, Zenon
<1>3. CASE StealDone
  BY <1>3, PoolAfterSteal, Zenon
<1>4. CASE VacuumTruncate
  BY <1>4, PoolAfterVacuum, Zenon DEF VacuumTruncate
<1>5. CASE CommitStage
  BY <1>5, Zenon DEF CommitStage, TypeOK, PoolType
<1>6. CASE bufpool_invalidate_all
  BY <1>6, PoolAfterDrop, Zenon
<1> QED
  BY <1>1, <1>2, <1>3, <1>4, <1>5, <1>6, PoolFrame, Zenon

\* The actions that touch num_pages, or the transaction's part of the Wal and Table.
LEMMA TxnFrame ==
    Next => \/ UNCHANGED <<np, txnVars>>
            \/ BeginWrite \/ (\E p \in PageId, w \in BOOLEAN : StealBegin(p, w)) \/ StealLog
            \/ NewPage \/ VacuumTruncate \/ CommitStage \/ CommitDone
            \/ UndoTruncate \/ UndoLogTruncate \/ AbortFinish
            \/ LoseMemory \/ Open \/ LoserEnd
  BY ZenonT(60) DEF Next, Recover, Use, FetchHit, FetchMiss, StealSync, StealWrite, StealDone,
         CommitLog, CommitMark, CommitSync, CommitApply, CheckpointSync, CheckpointTruncate,
         Abort, UndoStep, UndoSync, Close, ProcessCrash, PowerLoss, RedoScan, RedoApply, RedoEnd,
         LoserScan, RecoverTruncate, RecoverSync

\* The state of the write transaction keeps its types.
LEMMA TxnTypeStep == TypeOK /\ PcInv /\ Next => TxnType'
<1> SUFFICES ASSUME TypeOK, PcInv, Next PROVE TxnType'
  BY Zenon
<1> USE WalAssumption DEF TypeOK, TxnType
<1>1. CASE UNCHANGED <<np, txnVars>>
  BY <1>1, Zenon
<1>2. CASE BeginWrite \/ CommitStage \/ CommitDone
  <2>1. Len(log) \in Nat
    BY DEF LogType
  <2> QED
    BY <1>2, <2>1, Zenon DEF BeginWrite, CommitStage, CommitDone
<1>3. ASSUME NEW p \in PageId, NEW w \in BOOLEAN, StealBegin(p, w) PROVE TxnType'
  BY <1>3, Zenon DEF StealBegin
<1>4. CASE StealLog
  BY <1>4, Zenon DEF StealLog, PcInv, StealPcs, Cached
<1>5. CASE NewPage
  BY <1>5 DEF NewPage
<1>6. CASE VacuumTruncate
  BY <1>6, SMTT(30) DEF VacuumTruncate, pager_truncate
<1>7. CASE UndoTruncate \/ UndoLogTruncate \/ AbortFinish
  BY <1>7, Zenon DEF UndoTruncate, UndoLogTruncate, AbortFinish, pager_truncate
<1>8. CASE LoseMemory
  <2>1. writer' \in BOOLEAN /\ stole' \in BOOLEAN
    BY <1>8, Zenon DEF LoseMemory
  <2>2. np' = 0 /\ base' = 0 /\ spilled' = {} /\ start' = 0 /\ txnPages' = 0
    BY <1>8, Zenon DEF LoseMemory
  <2> QED
    BY <2>1, <2>2
<1>9. CASE Open
  BY <1>9, Zenon DEF Open, DiskType
<1>10. CASE LoserEnd
  <2>1. UNCHANGED txnVars
    BY <1>10, Zenon DEF LoserEnd
  <2>2. np' \in 0..MaxPages
    BY <1>10, SMTT(30) DEF LoserEnd, pager_truncate, CallType, None
  <2> QED
    BY <2>1, <2>2, Zenon
<1> QED
  BY <1>1, <1>2, <1>3, <1>4, <1>5, <1>6, <1>7, <1>8, <1>9, <1>10, TxnFrame, Zenon

\* The actions that touch the locals of the calls.
LEMMA CallFrame ==
    Next => \/ UNCHANGED <<commitVars, op, recVars>>
            \/ (\E p \in PageId, w \in BOOLEAN : StealBegin(p, w)) \/ StealDone
            \/ CommitStage \/ CommitLog \/ CommitSync \/ CommitApply \/ CommitDone
            \/ Abort \/ UndoStep \/ LoseMemory
            \/ RedoScan \/ RedoApply \/ RedoEnd \/ LoserScan \/ RecoverSync
  BY ZenonT(60) DEF Next, Recover, Use, BeginWrite, FetchHit, FetchMiss, StealLog, StealSync, StealWrite,
         NewPage, VacuumTruncate, CommitMark, CheckpointSync, CheckpointTruncate, UndoTruncate,
         UndoSync, UndoLogTruncate, AbortFinish, Close, ProcessCrash, PowerLoss, Open, LoserEnd,
         RecoverTruncate

\* Reading a record of the log.
LEMMA RecordAt ==
    ASSUME NEW s \in Seq(Rec), NEW i \in Nat \ {0}, i <= Len(s)
    PROVE  s[i].val \in Nat /\ i + 1 \in Nat \ {0}
<1>1. s[i] \in Rec
  OBVIOUS
<1> QED
  BY <1>1 DEF Rec

\* The fields of a before-image.
LEMMA UndoRecIs ==
    \A p, v : UndoRec(p, v).type = "UNDO" /\ UndoRec(p, v).page = p /\ UndoRec(p, v).val = v
BY DEF UndoRec

\* So do the positions of the running call.
LEMMA CallTypeStep == TypeOK /\ Next => CallType'
<1> SUFFICES ASSUME TypeOK, Next PROVE CallType'
  BY Zenon
<1> USE DEF TypeOK, CallType
<1>1. CASE UNCHANGED <<commitVars, op, recVars>>
  BY <1>1, Zenon
<1>2. ASSUME NEW p \in PageId, NEW w \in BOOLEAN, StealBegin(p, w) PROVE CallType'
  BY <1>2, SMTT(30) DEF StealBegin, PoolType
<1>3. CASE StealDone
  BY <1>3, Zenon DEF StealDone, Use, NoOp
<1>4. CASE CommitStage
  BY <1>4, Zenon DEF CommitStage, PoolType
<1>5. CASE CommitLog \/ CommitApply
  BY <1>5, Zenon DEF CommitLog, CommitApply
<1>6. CASE CommitSync \/ CommitDone
  BY <1>6, Zenon DEF CommitSync, CommitDone
<1>7. CASE Abort \/ UndoStep
  BY <1>7, SMTT(30) DEF Abort, UndoStep, TxnType
<1>8. CASE LoseMemory
  BY <1>8, SMTT(30) DEF LoseMemory, NoOp
<1>9. CASE RedoScan
  <2>1. log[rpos] \in Rec
    BY <1>9 DEF RedoScan, LogType
  <2>2. redo' \in Seq(Rec) /\ rpos' \in Nat \ {0} /\ loserStart' \in Nat \ {0}
    <3>1. CASE log[rpos].type = "PAGE"
      <4>1. redo' = Append(redo, log[rpos]) /\ rpos' = rpos + 1 /\ loserStart' = loserStart
        BY <1>9, <3>1, Zenon DEF RedoScan
      <4> QED
        BY <4>1, <2>1
    <3>2. CASE log[rpos].type # "PAGE"
      BY <1>9, <3>2 DEF RedoScan
    <3> QED
      BY <3>1, <3>2, Zenon
  <2>3. UNCHANGED <<commitVars, op, rbase>>
    BY <1>9, Zenon DEF RedoScan
  <2> QED
    BY <2>2, <2>3, Zenon
<1>10. CASE RedoApply \/ RedoEnd
  <2>1. redo # <<>> => Tail(redo) \in Seq(Rec)
    OBVIOUS
  <2>2. redo' \in Seq(Rec)
    <3>1. CASE RedoApply
      BY <2>1, <3>1, Zenon DEF RedoApply
    <3>2. CASE RedoEnd
      BY <3>2 DEF RedoEnd
    <3> QED
      BY <1>10, <3>1, <3>2, Zenon
  <2>3. rpos' \in Nat \ {0} /\ UNCHANGED <<commitVars, op, loserStart, rbase>>
    BY <1>10, Zenon DEF RedoApply, RedoEnd
  <2> QED
    BY <2>2, <2>3, Zenon
<1>11. CASE LoserScan
  <2>1. log[rpos].val \in Nat /\ rpos + 1 \in Nat \ {0}
    BY <1>11, RecordAt, Zenon DEF LoserScan, LoserMore, LogType
  <2>2. /\ rpos' = rpos + 1 /\ rbase' \in {log[rpos].val, rbase}
        /\ UNCHANGED <<commitVars, op, redo, loserStart>>
    BY <1>11, Zenon DEF LoserScan
  <2> QED
    BY <2>1, <2>2, Zenon
<1>12. CASE RecoverSync
  BY <1>12, SMTT(60) DEF RecoverSync
<1> QED
  BY <1>1, <1>2, <1>3, <1>4, <1>5, <1>6, <1>7, <1>8, <1>9, <1>10, <1>11, <1>12, CallFrame, Zenon

\* The actions that touch the counters and the history variables.
LEMMA HistoryFrame ==
    Next => \/ UNCHANGED <<clock, crashes, ghostVars>>
            \/ BeginWrite \/ (\E p \in PageId, w \in BOOLEAN : FetchHit(p, w) \/ FetchMiss(p, w))
            \/ StealDone \/ VacuumTruncate \/ CommitStage \/ CommitSync
            \/ Close \/ ProcessCrash \/ PowerLoss \/ Open \/ RecoverSync
  BY ZenonT(60) DEF Next, Recover, StealBegin, StealLog, StealSync, StealWrite, NewPage,
         CommitLog, CommitMark, CommitApply, CheckpointSync, CheckpointTruncate, CommitDone, Abort,
         UndoStep, UndoTruncate, UndoSync, UndoLogTruncate, AbortFinish, RedoScan, RedoApply,
         RedoEnd, LoserScan, LoserEnd, RecoverTruncate

\* The table a reader sees is a file.
LEMMA ImageType == ASSUME TypeOK PROVE Image \in [PageId -> Val] /\ Snapshot \in FileState
<1>1. Image \in [PageId -> Val]
  BY Zenon DEF Image, TypeOK, PoolType, DiskType, Val, Zero
<1> QED
  BY <1>1, Zenon DEF Snapshot, FileState, TypeOK, TxnType

\* A stop of the process, of either kind, counts as a crash or not and leaves the
\* remembered states.
LEMMA StopFrame ==
    ASSUME Close \/ ProcessCrash \/ PowerLoss
    PROVE  /\ UNCHANGED <<clock, committed, pending, begun, mine, history>>
           /\ crashes' \in {crashes, crashes + 1}
<1>1. CASE Close
  BY <1>1 DEF Close, LoseMemory
<1>2. CASE ProcessCrash
  BY <1>2, Zenon DEF ProcessCrash, LoseMemory
<1>3. CASE PowerLoss
  BY <1>3, Zenon DEF PowerLoss, LoseMemory
<1> QED
  BY <1>1, <1>2, <1>3, Zenon

\* So do the states the properties remember.
LEMMA HistoryTypeStep == TypeOK /\ Next => HistoryType'
<1> SUFFICES ASSUME TypeOK, Next PROVE HistoryType'
  BY Zenon
<1> USE DEF TypeOK, HistoryType, Val
<1>1. CASE UNCHANGED <<clock, crashes, ghostVars>>
  BY <1>1, Zenon
<1>2. CASE BeginWrite
  BY <1>2, ImageType, Zenon DEF BeginWrite
<1>3. ASSUME NEW w, Use(w), UNCHANGED crashes PROVE HistoryType'
  BY <1>3 DEF Use
<1>4. ASSUME NEW p \in PageId, NEW w \in BOOLEAN, FetchHit(p, w) \/ FetchMiss(p, w)
      PROVE  HistoryType'
  BY <1>4, <1>3, Zenon DEF FetchHit, FetchMiss, Use
<1>5. CASE StealDone
  BY <1>5, <1>3, Zenon DEF StealDone, Use
<1>6. CASE VacuumTruncate
  BY <1>6, WalAssumption DEF VacuumTruncate, FileState, TxnType
<1>7. CASE CommitStage
  <2>1. committed' \in FileState /\ history' \subseteq Val
    BY <1>7, ImageType, Zenon DEF CommitStage
  <2>2. pending' \in [id : Nat, np : 0..MaxPages, img : [PageId -> Val], won : BOOLEAN]
    <3>1. CASE dirty = {}
      BY <1>7, <3>1, Zenon DEF CommitStage
    <3>2. CASE dirty # {}
      <4>1. pending' = [id |-> clock, np |-> np, img |-> Image, won |-> FALSE]
        BY <1>7, <3>2, Zenon DEF CommitStage
      <4>2. Image \in [PageId -> Nat] /\ np \in 0..MaxPages /\ clock \in Nat
        BY ImageType, Zenon DEF TxnType
      <4> QED
        BY <4>1, <4>2, Zenon
    <3> QED
      BY <3>1, <3>2, Zenon
  <2>3. UNCHANGED <<clock, crashes, begun, mine>>
    BY <1>7, Zenon DEF CommitStage
  <2> QED
    BY <2>1, <2>2, <2>3, Zenon
<1>8. NoCommit \in [id : Nat, np : 0..MaxPages, img : [PageId -> Val], won : BOOLEAN]
  BY WalAssumption DEF NoCommit, NoPage, Zero
<1>9. [np |-> pending.np, img |-> pending.img] \in FileState
  BY Zenon DEF FileState
<1>10. CASE CommitSync
  BY <1>8, <1>9, <1>10, Zenon DEF CommitSync
<1>11. CASE Close \/ ProcessCrash \/ PowerLoss
  <2>1. /\ UNCHANGED <<clock, committed, pending, begun, mine, history>>
        /\ crashes' \in {crashes, crashes + 1}
    BY <1>11, StopFrame, Zenon
  <2> QED
    BY <2>1
<1>12. CASE Open
  BY <1>12, Zenon DEF Open
<1>13. CASE RecoverSync
  BY <1>8, <1>9, <1>13, Zenon DEF RecoverSync
<1> QED
  BY <1>1, <1>2, <1>4, <1>5, <1>6, <1>7, <1>10, <1>11, <1>12, <1>13, HistoryFrame, Zenon

\* The model starts with an empty pool and a synced file.
LEMMA TypeInit == Init => TypeOK
<1> SUFFICES ASSUME Init PROVE TypeOK
  BY Zenon
<1> USE WalAssumption DEF Init, InitImg, NoPage, Zero, Val, PageId
<1>1. DiskType /\ LogType /\ PoolType
  BY SMTT(30) DEF DiskType, LogType, PoolType
<1>2. TxnType
  <2>1. writer \in BOOLEAN /\ stole \in BOOLEAN
    BY ZenonT(30)
  <2>2. np \in 0..MaxPages /\ base \in 0..MaxPages /\ txnPages \in 0..MaxPages
    BY SMTT(30)
  <2> QED
    BY <2>1, <2>2, Zenon DEF TxnType
<1>4. CallType
  BY SMTT(30) DEF NoOp, CallType
<1>3. HistoryType
  BY SMTT(30) DEF FileState, NoCommit, HistoryType
<1> QED
  BY <1>1, <1>2, <1>3, <1>4, Zenon DEF TypeOK

--------------------------------------------------------------------------------
(* The write-ahead rule.                                                        *)

\* While the file is being opened there is no transaction and no cached page.
LEMMA StaysDown ==
    ASSUME PcInv, pc \in DownPcs, pc' \in DownPcs, UNCHANGED <<writer, used>>
    PROVE  PcInv'
<1>1. Cached' = Cached /\ Cached = {} /\ ~writer'
  BY Zenon DEF PcInv, Cached
<1>2. pc' \notin {"new", "vacuum", "abort"} \cup StealPcs \cup UndoPcs \cup CommitPcs
  BY Zenon DEF DownPcs, StealPcs, UndoPcs, CommitPcs
<1> QED
  BY <1>1, <1>2, Zenon DEF PcInv

\* A page just before the end of the file is inside it.
LEMMA BelowNext == \A n \in 0..MaxPages : \A p : p = n - 1 => p < n
OBVIOUS

\* Every action that the control flow and the transaction's state depend on.
LEMMA PcStep == IInv /\ Next => PcInv'
<1> SUFFICES ASSUME IInv, Next PROVE PcInv'
  BY Zenon
<1> USE DEF IInv, PcInv, RunPcs, StealPcs, CommitPcs, UndoPcs, DownPcs
<1>1. CASE BeginWrite
  BY <1>1, Zenon DEF BeginWrite, Cached
<1>2. ASSUME NEW p \in PageId, NEW w \in BOOLEAN, FetchHit(p, w) \/ FetchMiss(p, w)
      PROVE  PcInv'
  BY <1>2, Zenon DEF FetchHit, FetchMiss, Use
<1>3. ASSUME NEW p \in PageId, NEW w \in BOOLEAN, StealBegin(p, w)
      PROVE  PcInv'
  <2>1. PICK v \in dirty : Victim(v, w) /\ op' = [page |-> p, write |-> w, victim |-> v]
    BY <1>3, Zenon DEF StealBegin
  <2>2. op'.page = p /\ op'.victim = v
    BY <2>1, Zenon
  <2>3. p < np
    <3>1. np \in 0..MaxPages /\ (p < np \/ p = np - 1)
      BY <1>3, Zenon DEF StealBegin, MayAccess, TypeOK, TxnType
    <3> QED
      BY <3>1, BelowNext, Zenon
  <2>4. pc' = "steal_log" /\ writer' /\ UNCHANGED <<used, np>>
    BY <1>3, Zenon DEF StealBegin
  <2>5. v \in Cached /\ Cached' = Cached
    BY <2>1, <2>4, Zenon DEF Victim, Cached
  <2> QED
    BY <2>2, <2>3, <2>4, <2>5, Zenon
<1>4. CASE StealLog \/ StealSync \/ StealWrite
  BY <1>4, Zenon DEF StealLog, StealSync, StealWrite, Cached
<1>5. CASE StealDone
  BY <1>5, Zenon DEF StealDone, Use
<1>6. CASE NewPage \/ VacuumTruncate
  BY <1>6, Zenon DEF NewPage, VacuumTruncate
<1>7. CASE CommitStage
  BY <1>7, Zenon DEF CommitStage
<1>8. CASE CommitLog \/ CommitMark \/ CommitSync \/ CommitApply
  BY <1>8, Zenon DEF CommitLog, CommitMark, CommitSync, CommitApply
<1>9. CASE CheckpointSync \/ CheckpointTruncate \/ CommitDone
  BY <1>9, Zenon DEF CheckpointSync, CheckpointTruncate, CommitDone
<1>10. CASE Abort \/ UndoStep \/ UndoTruncate \/ UndoSync \/ UndoLogTruncate
  BY <1>10, Zenon DEF Abort, UndoStep, UndoTruncate, UndoSync, UndoLogTruncate
<1>11. CASE AbortFinish
  BY <1>11, Zenon DEF AbortFinish
<1>12. CASE Close \/ ProcessCrash \/ PowerLoss
  BY <1>12, PoolAfterDrop, Zenon DEF Close, ProcessCrash, PowerLoss, LoseMemory
<1>13. CASE Open \/ RedoScan \/ RedoApply \/ RedoEnd
  <2>1. pc \in DownPcs /\ pc' \in DownPcs /\ UNCHANGED <<writer, used>>
    BY <1>13, Zenon DEF Open, RedoScan, RedoApply, RedoEnd
  <2> QED
    BY <2>1, StaysDown, Zenon
<1>14. CASE LoserScan \/ LoserEnd \/ RecoverTruncate
  <2>1. pc \in DownPcs /\ pc' \in DownPcs /\ UNCHANGED <<writer, used>>
    BY <1>14, Zenon DEF LoserScan, LoserEnd, RecoverTruncate
  <2> QED
    BY <2>1, StaysDown, Zenon
<1>15. CASE RecoverSync
  BY <1>15, Zenon DEF RecoverSync
<1> QED
  BY <1>1, <1>2, <1>3, <1>4, <1>5, <1>6, <1>7, <1>8, <1>9, <1>10, <1>11, <1>12, <1>13, <1>14,
     <1>15, Zenon DEF Next, Recover

\* The pages of the pool and the file.
LEMMA PoolStep == IInv /\ Next => PoolInv'
<1> SUFFICES ASSUME IInv, Next PROVE PoolInv'
  BY Zenon
<1> USE DEF IInv, PoolInv, PcInv, RunPcs, StealPcs, CommitPcs, UndoPcs, DownPcs, Unapplied
<1>1. CASE BeginWrite
  BY <1>1, Zenon DEF BeginWrite, Cached
<1>2. ASSUME NEW p \in PageId, NEW w \in BOOLEAN, FetchHit(p, w)
      PROVE  PoolInv'
  <2>1. Cached' = Cached
    BY <1>2, PoolAfterHit, Zenon
  <2>2. pc \in {"idle", "new"} /\ pc' = "idle" /\ (w => writer) /\ writer' = writer
    BY <1>2, Zenon DEF FetchHit, MayAccess, Use
  <2>3. p \in Cached /\ dirty' = (IF w THEN dirty \cup {p} ELSE dirty) /\ np' = np /\ file' = file
    BY <1>2, Zenon DEF FetchHit, Use
  <2>4. \A q \in PageId : cval'[q] = cval[q] \/ (q = p /\ w)
    BY <1>2, Zenon DEF FetchHit, Filled, TypeOK, PoolType
  <2> QED
    BY <2>1, <2>2, <2>3, <2>4, Zenon DEF Cached
<1>3. ASSUME NEW p \in PageId, NEW w \in BOOLEAN, FetchMiss(p, w)
      PROVE  PoolInv'
  <2>1. p \in Cached' /\ Cached' \subseteq Cached \cup {p} /\ dirty \subseteq Cached'
    BY <1>3, PoolAfterMiss, Zenon
  <2>2. pc \in {"idle", "new"} /\ pc' = "idle" /\ (w => writer) /\ writer' = writer
    BY <1>3, Zenon DEF FetchMiss, MayAccess, Use
  <2>3. dirty' = (IF w THEN dirty \cup {p} ELSE dirty) /\ np' = np /\ file' = file /\ p < np
    BY <1>3 DEF FetchMiss, Use, MayAccess, TypeOK, TxnType
  <2>4. \A q \in Cached' : (q # p /\ cval'[q] = cval[q]) \/ (q = p /\ (w \/ cval'[q] = file[q]))
    <3>1. CASE cval' = Filled(cval, p, w, file[p])
      BY <3>1, Zenon DEF Filled, TypeOK, PoolType, Cached
    <3>2. ASSUME NEW v \in Cached \ dirty, used' = Touched((Cached \ {v}) \cup {p}, p),
                 cval' = Filled([cval EXCEPT ![v] = Zero], p, w, file[p])
          PROVE  \A q \in Cached' : (q # p /\ cval'[q] = cval[q]) \/ (q = p /\ (w \/ cval'[q] = file[q]))
      BY <3>2, TouchedPages DEF Cached, TypeOK, PoolType, Filled
    <3> QED
      BY <1>3, <3>1, <3>2, Zenon DEF FetchMiss
  <2>5. \A q \in Cached' : q \in PageId /\ q < np' /\ (q \in dirty' \/ cval'[q] = file'[q])
    BY <2>1, <2>2, <2>3, <2>4, Zenon DEF Cached
  <2>6. dirty' \subseteq Cached' /\ (~writer' => dirty' = {})
    BY <2>1, <2>2, <2>3, Zenon
  <2> QED
    BY <2>2, <2>5, <2>6, Zenon
<1>4. ASSUME NEW p \in PageId, NEW w \in BOOLEAN, StealBegin(p, w)
      PROVE  PoolInv'
  BY <1>4, Zenon DEF StealBegin, MayAccess, Cached
<1>5. CASE StealLog \/ StealSync
  BY <1>5, Zenon DEF StealLog, StealSync, Cached
<1>6. CASE StealWrite
  BY <1>6, Zenon DEF StealWrite, pager_write, TypeOK, DiskType, Cached
<1>7. CASE StealDone
  <2>1. Cached' = (Cached \ {op.victim}) \cup {op.page}
    BY <1>7, PoolAfterSteal, Zenon
  <2>2. pc = "steal_done" /\ pc' = "idle" /\ np' = np /\ file' = file /\ writer' = writer
        /\ dirty' = (dirty \ {op.victim}) \cup (IF op.write THEN {op.page} ELSE {})
    BY <1>7, Zenon DEF StealDone, Use, fsync_data
  <2>3. \A q \in Cached' : \/ q # op.victim /\ q # op.page /\ cval'[q] = cval[q]
                           \/ q = op.page /\ (q \in dirty' \/ cval'[q] = file[q])
    BY <1>7, <2>1, <2>2, Zenon DEF StealDone, Filled, TypeOK, PoolType, Cached
  <2>4. \A q \in Cached' : q < np' /\ (q \in dirty' \/ cval'[q] = file'[q])
    BY <2>1, <2>2, <2>3, Zenon DEF Cached
  <2>5. dirty' \subseteq Cached' /\ writer'
    BY <2>1, <2>2, Zenon
  <2> QED
    BY <2>2, <2>4, <2>5, Zenon
<1>8. CASE NewPage
  <2>1. \A q \in PageId : q # np => file'[q] = file[q]
    BY <1>8, Zenon DEF NewPage, pager_write, TypeOK, DiskType
  <2> QED
    BY <1>8, <2>1 DEF NewPage, Cached, TypeOK, TxnType, PageId
<1>9. CASE VacuumTruncate
  <2>1. PICK n \in 0..(np - 1) :
              /\ pager_truncate(n)
              /\ used' = Ordered({p \in Cached : p < n})
              /\ cval' = [p \in PageId |-> IF p < n THEN cval[p] ELSE Zero]
              /\ dirty' = {p \in dirty : p < n}
    BY <1>9, Zenon DEF VacuumTruncate
  <2>2. Cached' = {p \in Cached : p < n}
    BY <2>1, PoolAfterVacuum, Zenon
  <2>3. \A q \in PageId : q < n => file'[q] = file[q] /\ cval'[q] = cval[q]
    BY <2>1, Zenon DEF pager_truncate
  <2>4. np' = n
    BY <2>1, Zenon DEF pager_truncate
  <2> QED
    BY <1>9, <2>1, <2>2, <2>3, <2>4, Zenon DEF VacuumTruncate, Cached, TypeOK, TxnType
<1>10. CASE CommitStage
  BY <1>10, Zenon DEF CommitStage, Cached
<1>11. CASE CommitLog \/ CommitMark \/ CommitSync
  BY <1>11, Zenon DEF CommitLog, CommitMark, CommitSync, Cached
<1>12. CASE CommitApply
  BY <1>12 DEF CommitApply, pager_write, TypeOK, DiskType, Cached
<1>13. CASE CheckpointSync \/ CheckpointTruncate \/ CommitDone
  BY <1>13, Zenon DEF CheckpointSync, CheckpointTruncate, CommitDone, Cached, fsync_data
<1>14. CASE Abort \/ UndoStep \/ UndoTruncate \/ UndoSync \/ UndoLogTruncate
  BY <1>14, Zenon DEF Abort, UndoStep, UndoTruncate, UndoSync, UndoLogTruncate, Cached
<1>15. CASE bufpool_invalidate_all
  BY <1>15, PoolAfterDrop, Zenon
<1>16. CASE AbortFinish \/ Close \/ ProcessCrash \/ PowerLoss
  BY <1>15, <1>16, Zenon DEF AbortFinish, Close, ProcessCrash, PowerLoss, LoseMemory
<1>17. CASE Recover
  <2>1. Cached = {} /\ dirty = {} /\ UNCHANGED <<poolVars, writer>>
    BY <1>17, Zenon DEF Recover, Open, RedoScan, RedoApply, RedoEnd, LoserScan, LoserEnd,
       RecoverTruncate, RecoverSync
  <2> QED
    BY <2>1, Zenon DEF Cached
<1> QED
  BY <1>1, <1>2, <1>3, <1>4, <1>5, <1>6, <1>7, <1>8, <1>9, <1>10, <1>11, <1>12, <1>13, <1>14,
     <1>16, <1>17, Zenon DEF Next

\* Outside of these actions no transaction can be rolled back afterwards.
LEMMA InactiveStep ==
    ASSUME IInv, \/ VacuumTruncate \/ CommitStage \/ CommitLog \/ CommitMark \/ CommitSync
                 \/ CommitApply \/ CheckpointSync \/ CheckpointTruncate \/ CommitDone
                 \/ AbortFinish \/ Close \/ ProcessCrash \/ PowerLoss \/ Recover
    PROVE  TxnInv' /\ UndoInv' /\ RestoreInv' /\ UndoBeforeSteal'
<1> USE DEF IInv, PcInv, RunPcs, StealPcs, CommitPcs, UndoPcs, DownPcs
<1>1. CASE \/ VacuumTruncate \/ CommitStage \/ CommitLog \/ CommitMark \/ CommitSync
           \/ CommitApply \/ CheckpointSync \/ CheckpointTruncate \/ CommitDone
  <2>1. (~writer' /\ pc' = "idle") \/ pc' \in CommitPcs \cup {"vacuum"}
    BY <1>1, Zenon DEF VacuumTruncate, CommitStage, CommitLog, CommitMark, CommitSync, CommitApply,
       CheckpointSync, CheckpointTruncate, CommitDone
  <2> QED
    BY <2>1, Zenon DEF TxnInv, UndoInv, RestoreInv, UndoBeforeSteal
<1>2. CASE AbortFinish \/ Close \/ ProcessCrash \/ PowerLoss \/ Recover
  <2>1. ~writer' /\ pc' \in DownPcs \cup {"idle"}
    <3>1. CASE AbortFinish \/ Close \/ ProcessCrash \/ PowerLoss
      BY <3>1, Zenon DEF AbortFinish, Close, ProcessCrash, PowerLoss, LoseMemory
    <3>2. CASE Recover
      <4>1. pc \in DownPcs /\ writer' = writer /\ pc' \in DownPcs \cup {"idle"}
        BY <3>2, Zenon DEF Recover, Open, RedoScan, RedoApply, RedoEnd, LoserScan, LoserEnd,
           RecoverTruncate, RecoverSync
      <4> QED
        BY <4>1, Zenon
    <3> QED
      BY <1>2, <3>1, <3>2, Zenon
  <2> QED
    BY <2>1, Zenon DEF TxnInv, UndoInv, RestoreInv, UndoBeforeSteal
<1> QED
  BY <1>1, <1>2, Zenon

\* One record more in the log, and the logs a crash could leave.
LEMMA AppendKeeps ==
    ASSUME LogType, NEW r \in Rec, log_append(r)
    PROVE  /\ Len(log') = Len(log) + 1 /\ Len(log) \in Nat
           /\ \A i \in 1..Len(log) : log'[i] = log[i]
           /\ log'[Len(log) + 1] = r
           /\ \A l \in logmay' : l \in logmay \/ l = log'
  BY DEF LogType, log_append, May

\* A page that has changed on disk has its before-image in the current log, hence
\* in every log that extends it.
LEMMA LogHasUndo ==
    ASSUME IInv, writer, pc \in RunPcs \cup UndoPcs,
           NEW p \in PageId, p < base, file[p] # begun.img[p]
    PROVE  \E i \in 1..Len(log) : log[i] = UndoRec(p, begun.img[p])
<1>1. p \in spilled
  BY Zenon DEF IInv, UndoInv
<1>2. PICK i \in (start + 1)..Len(log) : log[i] = UndoRec(p, begun.img[p])
  BY <1>1, Zenon DEF IInv, UndoInv
<1>3. start \in Nat
  BY Zenon DEF IInv, TypeOK, TxnType
<1>4. i \in 1..Len(log)
  BY <1>3
<1> QED
  BY <1>2, <1>4, Zenon

\* BEGIN remembers the table its ROLLBACK must give back.
LEMMA BeginStep ==
    ASSUME IInv, BeginWrite
    PROVE  TxnInv' /\ UndoInv' /\ RestoreInv' /\ UndoBeforeSteal'
<1> USE DEF IInv, PcInv, RunPcs, StealPcs, CommitPcs, UndoPcs, DownPcs
<1>1. \A p \in PageId : p < np => file[p] = Image[p]
  BY DEF BeginWrite, PoolInv, Unapplied, Image, TypeOK, TxnType, PageId
<1>2. begun' = [np |-> np, img |-> Image] /\ base' = np /\ txnPages' = np /\ start' = Len(log)
      /\ spilled' = {} /\ ~stole' /\ pc' = "idle" /\ UNCHANGED <<file, log, logmay, np>>
  BY Zenon DEF BeginWrite, Snapshot
<1>3. \A p \in PageId : p >= np => Image[p] = Zero
  BY Zenon DEF Image
<1>4. Len(log) \in Nat /\ np \in Nat
  BY DEF TypeOK, LogType, TxnType
<1>5. start' <= Len(log') /\ \A i : i \notin (start' + 1)..Len(log')
  BY <1>2, <1>4
<1>6. TxnInv'
  <2>1. base' <= np'
    BY <1>2, <1>4
  <2> QED
    BY <1>2, <1>3, <1>5, <2>1, Zenon DEF TxnInv
<1>7. UndoInv'
  BY <1>1, <1>2, <1>5, Zenon DEF UndoInv
<1>8. RestoreInv' /\ UndoBeforeSteal'
  BY <1>1, <1>2, Zenon DEF RestoreInv, UndoBeforeSteal
<1> QED
  BY <1>6, <1>7, <1>8, Zenon

\* An access changes neither the files nor the transaction.
LEMMA AccessStep ==
    ASSUME IInv,
           \/ \E p \in PageId, w \in BOOLEAN : FetchHit(p, w) \/ FetchMiss(p, w)
           \/ StealDone
    PROVE  TxnInv' /\ UndoInv' /\ RestoreInv' /\ UndoBeforeSteal'
<1>1. /\ UNCHANGED <<file, log, logmay, np, writer, stole, base, spilled, start, txnPages, begun>>
      /\ pc \in RunPcs /\ pc' = "idle"
  BY ZenonT(60) DEF FetchHit, FetchMiss, StealDone, Use, MayAccess, fsync_data, RunPcs, StealPcs
<1> QED
  BY <1>1, Zenon DEF IInv, TxnInv, UndoInv, RestoreInv, UndoBeforeSteal, RunPcs, StealPcs, UndoPcs

\* wal_steal writes a record: nothing is lost from the logs a crash could leave.
LEMMA AppendStep ==
    ASSUME IInv, writer, pc \in RunPcs, pc' \in StealPcs, pc' # "steal_write",
           NEW r \in Rec, log_append(r), UNCHANGED <<file, np, writer, base, start, txnPages, begun>>
    PROVE  TxnInv' /\ RestoreInv' /\ UndoBeforeSteal'
<1> USE DEF RunPcs, StealPcs, UndoPcs
<1>1. /\ Len(log') = Len(log) + 1 /\ Len(log) \in Nat
      /\ \A i \in 1..Len(log) : log'[i] = log[i]
      /\ \A l \in logmay' : l \in logmay \/ l = log'
  BY AppendKeeps, Zenon DEF IInv, TypeOK
<1>2. TxnInv'
  BY <1>1 DEF IInv, TxnInv, TypeOK, TxnType
<1>3. RestoreInv'
  BY Zenon DEF RestoreInv
<1>4. ASSUME NEW p \in PageId, p < base, file[p] # begun.img[p], NEW l \in logmay'
      PROVE  \E i \in DOMAIN l : l[i] = UndoRec(p, begun.img[p])
  <2>1. CASE l \in logmay
    BY <1>4, <2>1, Zenon DEF IInv, UndoBeforeSteal
  <2>2. CASE l = log'
    <3>1. PICK i \in 1..Len(log) : log[i] = UndoRec(p, begun.img[p])
      BY <1>4, LogHasUndo, Zenon
    <3>2. log \in Seq(Rec) /\ log' = Append(log, r)
      BY Zenon DEF IInv, TypeOK, LogType, log_append
    <3>3. i \in DOMAIN log'
      BY <3>2
    <3> QED
      BY <1>1, <2>2, <3>1, <3>3, Zenon
  <2> QED
    BY <1>1, <1>4, <2>1, <2>2, Zenon
<1> QED
  BY <1>2, <1>3, <1>4, Zenon DEF UndoBeforeSteal

\* A steal begins: the victim is chosen, nothing is written.
LEMMA StealBeginStep ==
    ASSUME IInv, NEW p \in PageId, NEW w \in BOOLEAN, StealBegin(p, w)
    PROVE  TxnInv' /\ UndoInv' /\ RestoreInv' /\ UndoBeforeSteal'
<1> USE DEF RunPcs, StealPcs, UndoPcs
<1>1. /\ UNCHANGED <<file, np, writer, base, start, txnPages, begun, spilled>>
      /\ pc \in RunPcs /\ pc' = "steal_log" /\ writer /\ stole'
  BY Zenon DEF StealBegin, MayAccess
<1>2. CASE UNCHANGED logVars
  <2>1. TxnInv' /\ RestoreInv'
    BY <1>1, <1>2, Zenon DEF IInv, TxnInv, RestoreInv
  <2>2. UndoInv'
    BY <1>1, <1>2, Zenon DEF IInv, UndoInv
  <2>3. UndoBeforeSteal'
    BY <1>1, <1>2, Zenon DEF IInv, UndoBeforeSteal
  <2> QED
    BY <2>1, <2>2, <2>3, Zenon
<1>3. CASE log_append(BeginRec(base))
  <2>1. BeginRec(base) \in Rec /\ BeginRec(base).type = "BEGIN"
    BY DEF BeginRec, Rec, IInv, TypeOK, TxnType
  <2>2. /\ Len(log') = Len(log) + 1 /\ Len(log) \in Nat
        /\ \A i \in 1..Len(log) : log'[i] = log[i]
        /\ log'[Len(log) + 1] = BeginRec(base)
    BY <1>3, <2>1, AppendKeeps, Zenon DEF IInv, TypeOK
  <2>3. TxnInv' /\ RestoreInv' /\ UndoBeforeSteal'
    BY <1>1, <1>3, <2>1, AppendStep, Zenon
  <2>4. UndoInv'
    <3>1. start \in Nat
      BY Zenon DEF IInv, TypeOK, TxnType
    <3>2. ASSUME NEW i \in (start + 1)..Len(log)
          PROVE  i \in 1..Len(log) /\ i \in (start + 1)..Len(log')
      BY <2>2, <3>1
    <3>3. \A q \in spilled : q < base =>
              \E i \in (start + 1)..Len(log') : log'[i] = UndoRec(q, begun.img[q])
      BY <1>1, <2>2, <3>2, Zenon DEF IInv, UndoInv
    <3>4. ASSUME NEW i \in (start + 1)..Len(log'), i # Len(log) + 1
          PROVE  i \in (start + 1)..Len(log)
      BY <2>2, <3>1, <3>4
    <3>5. ASSUME NEW i \in (start + 1)..Len(log')
          PROVE  /\ log'[i].type \in {"BEGIN", "UNDO"}
                 /\ log'[i].type = "UNDO" =>
                       log'[i].page \in PageId /\ log'[i].val = begun.img[log'[i].page]
      <4>1. CASE i = Len(log) + 1
        BY <2>1, <2>2, <4>1, Zenon
      <4>2. CASE i # Len(log) + 1
        <5>1. i \in (start + 1)..Len(log) /\ log'[i] = log[i]
          BY <2>2, <3>2, <3>4, <3>5, <4>2, Zenon
        <5> QED
          BY <1>1, <5>1, Zenon DEF IInv, UndoInv
      <4> QED
        BY <4>1, <4>2, Zenon
    <3> QED
      BY <1>1, <3>3, <3>5, Zenon DEF IInv, UndoInv
  <2> QED
    BY <2>3, <2>4, Zenon
<1> QED
  BY <1>2, <1>3, Zenon DEF StealBegin

\* A steal logs the before-image, unless the page is new or has one already.
LEMMA StealLogStep ==
    ASSUME IInv, StealLog
    PROVE  TxnInv' /\ UndoInv' /\ RestoreInv' /\ UndoBeforeSteal'
<1> USE DEF RunPcs, StealPcs, UndoPcs
<1>1. /\ UNCHANGED <<file, np, writer, base, start, txnPages, begun, stole, op>>
      /\ pc = "steal_log" /\ pc' = "steal_sync" /\ writer /\ spilled' = spilled \cup {op.victim}
      /\ op.victim \in PageId
  BY Zenon DEF StealLog, IInv, PcInv, Cached
<1>2. CASE UNCHANGED logVars /\ (op.victim \in spilled \/ op.victim >= base)
  <2>1. \A q \in spilled' : q < base => q \in spilled
    BY <1>1, <1>2 DEF IInv, TypeOK, TxnType, PageId
  <2> QED
    BY <1>1, <1>2, <2>1, Zenon DEF IInv, TxnInv, UndoInv, RestoreInv, UndoBeforeSteal
<1>3. CASE /\ log_append(UndoRec(op.victim, file[op.victim]))
           /\ op.victim \notin spilled /\ ~(op.victim >= base)
  <2>1. file[op.victim] = begun.img[op.victim] /\ file[op.victim] \in Nat
    <3>1. base \in 0..MaxPages /\ op.victim \in 0..(MaxPages - 1)
      BY <1>1, Zenon DEF IInv, TypeOK, TxnType, PageId
    <3>2. op.victim < base
      BY <1>3, <3>1
    <3>3. file[op.victim] \in Nat
      BY <1>1, Zenon DEF IInv, TypeOK, DiskType, Val
    <3> QED
      BY <1>1, <1>3, <3>2, <3>3, Zenon DEF IInv, UndoInv
  <2>2. UndoRec(op.victim, file[op.victim]) \in Rec
    BY <1>1, <2>1, Zenon DEF UndoRec, Rec
  <2>3. /\ Len(log') = Len(log) + 1 /\ Len(log) \in Nat
        /\ \A i \in 1..Len(log) : log'[i] = log[i]
        /\ log'[Len(log) + 1] = UndoRec(op.victim, begun.img[op.victim])
    BY <1>3, <2>1, <2>2, AppendKeeps, Zenon DEF IInv, TypeOK
  <2>4. TxnInv' /\ RestoreInv' /\ UndoBeforeSteal'
    BY <1>1, <1>3, <2>2, AppendStep, Zenon
  <2>5. start \in Nat /\ start <= Len(log)
    BY <1>1, Zenon DEF IInv, TypeOK, TxnType, TxnInv
  <2>6. \A q \in spilled' : q < base =>
            \E i \in (start + 1)..Len(log') : log'[i] = UndoRec(q, begun.img[q])
    <3> SUFFICES ASSUME NEW q \in spilled', q < base
                 PROVE  \E i \in (start + 1)..Len(log') : log'[i] = UndoRec(q, begun.img[q])
      BY Zenon
    <3>1. CASE q = op.victim
      <4>1. Len(log) + 1 \in (start + 1)..Len(log')
        BY <2>3, <2>5
      <4> QED
        BY <2>3, <3>1, <4>1, Zenon
    <3>2. CASE q \in spilled
      <4>1. PICK i \in (start + 1)..Len(log) : log[i] = UndoRec(q, begun.img[q])
        BY <1>1, <3>2, Zenon DEF IInv, UndoInv
      <4>2. i \in 1..Len(log) /\ i \in (start + 1)..Len(log')
        BY <2>3, <2>5
      <4> QED
        BY <2>3, <4>1, <4>2, Zenon
    <3> QED
      BY <1>1, <3>1, <3>2, Zenon
  <2>7. \A i \in (start + 1)..Len(log') :
            /\ log'[i].type \in {"BEGIN", "UNDO"}
            /\ log'[i].type = "UNDO" =>
                  log'[i].page \in PageId /\ log'[i].val = begun.img[log'[i].page]
    <3> SUFFICES ASSUME NEW i \in (start + 1)..Len(log')
                 PROVE  /\ log'[i].type \in {"BEGIN", "UNDO"}
                        /\ log'[i].type = "UNDO" =>
                              log'[i].page \in PageId /\ log'[i].val = begun.img[log'[i].page]
      BY Zenon
    <3>1. CASE i = Len(log) + 1
      <4>1. log'[i] = UndoRec(op.victim, begun.img[op.victim])
        BY <2>3, <3>1, Zenon
      <4>2. /\ UndoRec(op.victim, begun.img[op.victim]).type = "UNDO"
            /\ UndoRec(op.victim, begun.img[op.victim]).page = op.victim
            /\ UndoRec(op.victim, begun.img[op.victim]).val = begun.img[op.victim]
        BY UndoRecIs
      <4> QED
        BY <1>1, <4>1, <4>2, Zenon
    <3>2. CASE i # Len(log) + 1
      <4>1. i \in 1..Len(log) /\ i \in (start + 1)..Len(log)
        BY <2>3, <2>5, <3>2
      <4> QED
        BY <1>1, <2>3, <4>1, Zenon DEF IInv, UndoInv
    <3> QED
      BY <3>1, <3>2, Zenon
  <2>8. UndoInv'
    BY <1>1, <2>6, <2>7, Zenon DEF IInv, UndoInv
  <2> QED
    BY <2>4, <2>8, Zenon
<1> QED
  BY <1>2, <1>3, Zenon DEF StealLog

\* After the fsync of the log, the one log a crash can leave has the before-image.
LEMMA StealSyncStep ==
    ASSUME IInv, StealSync
    PROVE  TxnInv' /\ UndoInv' /\ RestoreInv' /\ UndoBeforeSteal'
<1> USE DEF RunPcs, StealPcs, UndoPcs
<1>1. /\ UNCHANGED <<file, log, np, writer, base, start, txnPages, begun, stole, spilled, op>>
      /\ pc = "steal_sync" /\ pc' = "steal_write" /\ writer /\ logmay' = {log}
  BY Zenon DEF StealSync, fsync_log, IInv, PcInv
<1>2. TxnInv' /\ UndoInv' /\ RestoreInv'
  BY <1>1, Zenon DEF IInv, TxnInv, UndoInv, RestoreInv
<1>3. ASSUME NEW p \in PageId, p < base, file[p] # begun.img[p]
      PROVE  \E i \in DOMAIN log : log[i] = UndoRec(p, begun.img[p])
  <2>1. \E i \in 1..Len(log) : log[i] = UndoRec(p, begun.img[p])
    BY <1>1, <1>3, LogHasUndo, Zenon
  <2>2. log \in Seq(Rec)
    BY Zenon DEF IInv, TypeOK, LogType
  <2>3. DOMAIN log = 1..Len(log)
    BY <2>2
  <2> QED
    BY <2>1, <2>3, Zenon
<1> QED
  BY <1>1, <1>2, <1>3, Zenon DEF UndoBeforeSteal

\* The page that is written has its before-image in the log that was synced.
LEMMA StealWriteStep ==
    ASSUME IInv, StealWrite
    PROVE  TxnInv' /\ UndoInv' /\ RestoreInv' /\ UndoBeforeSteal'
<1> USE DEF RunPcs, StealPcs, UndoPcs
<1>1. /\ UNCHANGED <<log, logmay, np, writer, base, start, txnPages, begun, stole, spilled, op>>
      /\ pc = "steal_write" /\ pc' = "steal_done" /\ writer
      /\ file' = [file EXCEPT ![op.victim] = cval[op.victim]]
  BY Zenon DEF StealWrite, pager_write, IInv, PcInv
<1>2. op.victim \in spilled /\ logmay = {log} /\ file \in [PageId -> Val]
  BY <1>1, Zenon DEF IInv, UndoInv, TypeOK, DiskType
<1>3. TxnInv' /\ UndoInv' /\ RestoreInv'
  BY <1>1, <1>2, Zenon DEF IInv, TxnInv, UndoInv, RestoreInv
<1>4. ASSUME NEW p \in PageId, p < base, p \in spilled
      PROVE  \E i \in DOMAIN log : log[i] = UndoRec(p, begun.img[p])
  <2>1. PICK i \in (start + 1)..Len(log) : log[i] = UndoRec(p, begun.img[p])
    BY <1>1, <1>4, Zenon DEF IInv, UndoInv
  <2>2. log \in Seq(Rec) /\ start \in Nat
    BY Zenon DEF IInv, TypeOK, LogType, TxnType
  <2>3. i \in DOMAIN log
    BY <2>2
  <2> QED
    BY <2>1, <2>3, Zenon
<1>5. \A p \in PageId : p < base /\ file'[p] # begun.img[p] => p \in spilled
  BY <1>1, <1>3, Zenon DEF UndoInv
<1>6. ASSUME NEW p \in PageId, p < base', file'[p] # begun'.img[p], NEW l \in logmay'
      PROVE  \E i \in DOMAIN l : l[i] = UndoRec(p, begun'.img[p])
  BY <1>1, <1>2, <1>4, <1>5, <1>6, Zenon
<1> QED
  BY <1>3, <1>6, Zenon DEF UndoBeforeSteal, UndoRec

\* A page of zeros at the end of the file is a page the transaction added.
LEMMA NewPageStep ==
    ASSUME IInv, NewPage
    PROVE  TxnInv' /\ UndoInv' /\ RestoreInv' /\ UndoBeforeSteal'
<1> USE DEF RunPcs, StealPcs, UndoPcs
<1>1. /\ UNCHANGED <<log, logmay, writer, base, start, txnPages, begun, stole, spilled, op>>
      /\ pc = "idle" /\ pc' = "new" /\ writer /\ np' = np + 1
      /\ file' = [file EXCEPT ![np] = Zero]
  BY Zenon DEF NewPage, pager_write
<1>2. base <= np /\ base \in Nat /\ np \in Nat /\ file \in [PageId -> Val] /\ PageId \subseteq Int
  <2>1. /\ base <= np /\ base \in 0..MaxPages /\ np \in 0..MaxPages
        /\ file \in [PageId -> Val] /\ PageId = 0..(MaxPages - 1)
    BY <1>1, Zenon DEF IInv, TxnInv, TypeOK, TxnType, DiskType, PageId
  <2>2. base \in Nat /\ np \in Nat /\ 0..(MaxPages - 1) \subseteq Int
    BY <2>1
  <2> QED
    BY <2>1, <2>2, Zenon
<1>3. \A p \in PageId : p < base => file'[p] = file[p]
  BY <1>1, <1>2
<1>4. base' <= np'
  BY <1>1, <1>2
<1>5. TxnInv'
  BY <1>1, <1>4, Zenon DEF IInv, TxnInv
<1>6. UndoInv' /\ RestoreInv'
  BY <1>1, <1>3, Zenon DEF IInv, UndoInv, RestoreInv
<1>7. ASSUME NEW p \in PageId, p < base, file'[p] # begun.img[p], NEW l \in logmay
      PROVE  \E i \in DOMAIN l : l[i] = UndoRec(p, begun.img[p])
  BY <1>1, <1>3, <1>7, SMTT(30) DEF IInv, UndoBeforeSteal
<1>8. UndoBeforeSteal'
  BY <1>1, <1>7, Zenon DEF UndoBeforeSteal
<1> QED
  BY <1>5, <1>6, <1>8, Zenon

\* ROLLBACK begins its walk at the transaction's first record.
LEMMA AbortStep ==
    ASSUME IInv, Abort
    PROVE  TxnInv' /\ UndoInv' /\ RestoreInv' /\ UndoBeforeSteal'
<1> USE DEF RunPcs, StealPcs, UndoPcs
<1>1. /\ UNCHANGED <<file, log, logmay, np, writer, base, start, txnPages, begun, stole, spilled, op>>
      /\ pc = "idle" /\ pc' = (IF stole THEN "undo" ELSE "abort") /\ writer /\ rpos' = start + 1
  BY Zenon DEF Abort
<1>2. TxnInv' /\ UndoInv' /\ UndoBeforeSteal'
  BY <1>1, Zenon DEF IInv, TxnInv, UndoInv, UndoBeforeSteal
<1>3. start \in Nat
  BY Zenon DEF IInv, TypeOK, TxnType
<1>4. RestoreInv'
  <2>1. /\ ~stole => spilled = {}
        /\ \A p \in PageId : p < base /\ p \notin spilled => file[p] = begun.img[p]
        /\ \A p \in spilled : p < base =>
              \E i \in (start + 1)..Len(log) : log[i] = UndoRec(p, begun.img[p])
    BY <1>1, Zenon DEF IInv, UndoInv
  <2>2. CASE stole
    <3>1. pc' = "undo" /\ rpos' > start
      BY <1>1, <1>3, <2>2
    <3>2. ASSUME NEW p \in PageId, p < base
          PROVE  \/ file[p] = begun.img[p]
                 \/ \E i \in (start + 1)..Len(log) : log[i] = UndoRec(p, begun.img[p])
      BY <2>1, <3>2, Zenon
    <3> QED
      BY <1>1, <3>1, <3>2, Zenon DEF RestoreInv
  <2>3. CASE ~stole
    BY <1>1, <2>1, <2>3, Zenon DEF RestoreInv
  <2> QED
    BY <2>2, <2>3, Zenon
<1> QED
  BY <1>2, <1>4, Zenon

\* Putting a before-image back changes a page to what it was, if it changes it.
LEMMA UndoStepStep ==
    ASSUME IInv, UndoStep
    PROVE  TxnInv' /\ UndoInv' /\ RestoreInv' /\ UndoBeforeSteal'
<1> USE DEF RunPcs, StealPcs, UndoPcs
<1>1. /\ UNCHANGED <<log, logmay, np, writer, base, start, txnPages, begun, stole, spilled, op, pc>>
      /\ pc = "undo" /\ writer /\ rpos' = rpos + 1 /\ rpos <= Len(log)
  BY Zenon DEF UndoStep, UndoMore, IInv, PcInv
<1>2. rpos \in Nat /\ start \in Nat /\ Len(log) \in Nat /\ rpos \in (start + 1)..Len(log)
  BY <1>1 DEF IInv, TypeOK, CallType, TxnType, LogType, RestoreInv
<1>3. ASSUME NEW p \in PageId
      PROVE  /\ file'[p] = file[p] \/ file'[p] = begun.img[p]
             /\ log[rpos] = UndoRec(p, begun.img[p]) => file'[p] = begun.img[p]
  <2>1. CASE log[rpos].type = "UNDO"
    <3>1. log[rpos].page \in PageId /\ log[rpos].val = begun.img[log[rpos].page]
      BY <1>1, <1>2, <2>1, Zenon DEF IInv, UndoInv
    <3>2. file' = [file EXCEPT ![log[rpos].page] = log[rpos].val]
      BY <2>1, Zenon DEF UndoStep, pager_write
    <3> QED
      <4>1. file'[p] = IF p = log[rpos].page THEN log[rpos].val ELSE file[p]
        BY <3>1, <3>2, Zenon DEF IInv, TypeOK, DiskType
      <4>2. log[rpos] = UndoRec(p, begun.img[p]) => p = log[rpos].page
        BY UndoRecIs, Zenon
      <4> QED
        BY <3>1, <4>1, <4>2, Zenon
  <2>2. CASE log[rpos].type # "UNDO"
    <3>1. file' = file
      BY <2>2, Zenon DEF UndoStep
    <3>2. log[rpos] # UndoRec(p, begun.img[p])
      <4>1. UndoRec(p, begun.img[p]).type = "UNDO"
        BY UndoRecIs, Zenon
      <4> QED
        BY <2>2, <4>1, Zenon
    <3> QED
      BY <3>1, <3>2, Zenon
  <2> QED
    BY <2>1, <2>2, Zenon
<1>4. TxnInv' /\ UndoInv'
  BY <1>1, <1>3, Zenon DEF IInv, TxnInv, UndoInv
<1>5. UndoBeforeSteal'
  BY <1>1, <1>3, Zenon DEF IInv, UndoBeforeSteal
<1>6. ASSUME NEW p \in PageId, p < base, file'[p] # begun.img[p]
      PROVE  \E i \in rpos'..Len(log) : log[i] = UndoRec(p, begun.img[p])
  <2>1. file[p] # begun.img[p] /\ log[rpos] # UndoRec(p, begun.img[p])
    BY <1>3, <1>6, Zenon
  <2>2. PICK i \in rpos..Len(log) : log[i] = UndoRec(p, begun.img[p])
    BY <1>1, <1>6, <2>1, Zenon DEF IInv, RestoreInv
  <2>3. i # rpos
    BY <2>1, <2>2, Zenon
  <2>4. i \in rpos'..Len(log)
    BY <1>1, <1>2, <2>3
  <2> QED
    BY <2>2, <2>4, Zenon
<1>7. rpos' > start'
  BY <1>1, <1>2
<1>8. RestoreInv'
  BY <1>1, <1>6, <1>7, Zenon DEF RestoreInv
<1> QED
  BY <1>4, <1>5, <1>8, Zenon

\* wal_undo cuts off the pages that the transaction added.
LEMMA UndoTruncateStep ==
    ASSUME IInv, UndoTruncate
    PROVE  TxnInv' /\ UndoInv' /\ RestoreInv' /\ UndoBeforeSteal'
<1> USE DEF RunPcs, StealPcs, UndoPcs
<1>1. /\ UNCHANGED <<log, logmay, writer, base, start, txnPages, begun, stole, spilled, op>>
      /\ pc = "undo" /\ pc' = "undo_sync" /\ writer /\ ~UndoMore
  BY Zenon DEF UndoTruncate, IInv, PcInv
<1>2. /\ rpos \in Nat /\ Len(log) \in Nat /\ base \in Nat /\ PageId \subseteq Int
      /\ start \in Nat /\ rpos > start
  BY <1>1 DEF IInv, TypeOK, CallType, TxnType, LogType, PageId, RestoreInv
<1>3. rpos > Len(log)
  <2>1. \A i \in (start + 1)..Len(log) : log[i].type \in {"BEGIN", "UNDO"}
    BY <1>1, Zenon DEF IInv, UndoInv
  <2>2. rpos \notin (start + 1)..Len(log) \/ ~(rpos <= Len(log))
    BY <1>1, <2>1, Zenon DEF UndoMore
  <2> QED
    BY <1>2, <2>2
<1>4. \A p \in PageId : p < base => file[p] = begun.img[p]
  BY <1>1, <1>2, <1>3 DEF IInv, RestoreInv
<1>5. \A p \in PageId : p < base => file'[p] = file[p]
  BY <1>2, Zenon DEF UndoTruncate, pager_truncate
<1> QED
  BY <1>1, <1>4, <1>5, Zenon DEF IInv, TxnInv, UndoInv, RestoreInv, UndoBeforeSteal

\* wal_undo ends: the file is synced, the log cut back.
LEMMA UndoEndStep ==
    ASSUME IInv, UndoSync \/ UndoLogTruncate
    PROVE  TxnInv' /\ UndoInv' /\ RestoreInv' /\ UndoBeforeSteal'
<1> USE DEF RunPcs, StealPcs, UndoPcs
<1>1. CASE UndoSync
  <2>1. /\ UNCHANGED <<file, log, logmay, np, writer, base, start, txnPages, begun, stole, spilled, op>>
        /\ pc = "undo_sync" /\ pc' = "undo_log"
    BY <1>1, Zenon DEF UndoSync, fsync_data
  <2> QED
    BY <2>1, Zenon DEF IInv, TxnInv, UndoInv, RestoreInv, UndoBeforeSteal
<1>2. CASE UndoLogTruncate
  <2>1. /\ UNCHANGED <<file, np, writer, base, start, txnPages, begun, op>>
        /\ pc = "undo_log" /\ pc' = "abort" /\ log' = SubSeq(log, 1, start)
    BY <1>2, Zenon DEF UndoLogTruncate, log_truncate
  <2>2. writer /\ start <= Len(log) /\ start \in Nat /\ log \in Seq(Rec)
    BY <2>1, Zenon DEF IInv, PcInv, TxnInv, TypeOK, TxnType, LogType
  <2>3. Len(log') = start
    BY <2>1, <2>2
  <2>4. TxnInv'
    BY <2>1, <2>2, <2>3 DEF IInv, TxnInv
  <2>6. UndoInv' /\ RestoreInv'
    BY <2>1, Zenon DEF IInv, UndoInv, RestoreInv
  <2>5. UndoBeforeSteal'
    BY <2>1, ZenonT(30) DEF IInv, RestoreInv, UndoBeforeSteal
  <2> QED
    BY <2>4, <2>5, <2>6, Zenon
<1> QED
  BY <1>1, <1>2, Zenon

--------------------------------------------------------------------------------
(* The theorems.                                                                *)

\* The invariant holds at the start,
LEMMA IInvInit == Init => IInv
<1> SUFFICES ASSUME Init PROVE IInv
  BY Zenon
<1>1. TypeOK
  BY TypeInit, Zenon
<1>2. writer = FALSE /\ pc = "idle" /\ dirty = {} /\ Cached = {}
  BY Zenon DEF Init, Cached
<1> QED
  BY <1>1, <1>2, Zenon DEF IInv, PcInv, PoolInv, TxnInv, UndoInv, RestoreInv, UndoBeforeSteal,
     RunPcs, UndoPcs, StealPcs, CommitPcs, DownPcs

\* and every step keeps it.
LEMMA IInvStep == IInv /\ [Next]_vars => IInv'
<1> SUFFICES ASSUME IInv, [Next]_vars PROVE IInv'
  BY Zenon
<1>1. CASE UNCHANGED vars
  <2> USE <1>1 DEF vars
  <2>1. DiskType' /\ LogType' /\ PoolType'
    BY Zenon DEF IInv, TypeOK, DiskType, LogType, PoolType
  <2>2. TxnType' /\ CallType'
    BY Zenon DEF IInv, TypeOK, TxnType, CallType
  <2>3. HistoryType'
    BY Zenon DEF IInv, TypeOK, HistoryType
  <2>4. PcInv' /\ PoolInv'
    BY Zenon DEF IInv, PcInv, PoolInv, Unapplied, Cached
  <2>5. TxnInv' /\ UndoInv' /\ RestoreInv'
    BY Zenon DEF IInv, TxnInv, UndoInv, RestoreInv
  <2>6. UndoBeforeSteal'
    BY Zenon DEF IInv, UndoBeforeSteal
  <2> QED
    BY <2>1, <2>2, <2>3, <2>4, <2>5, <2>6, Zenon DEF IInv, TypeOK
<1>2. CASE Next
  <2>1. TypeOK'
    BY <1>2, DiskTypeStep, LogTypeStep, PoolTypeStep, TxnTypeStep, CallTypeStep, HistoryTypeStep, Zenon
       DEF IInv, TypeOK
  <2>2. PcInv' /\ PoolInv'
    BY <1>2, PcStep, PoolStep, Zenon
  <2>3. TxnInv' /\ UndoInv' /\ RestoreInv' /\ UndoBeforeSteal'
    BY <1>2, InactiveStep, BeginStep, AccessStep, StealBeginStep, StealLogStep, StealSyncStep,
       StealWriteStep, NewPageStep, AbortStep, UndoStepStep, UndoTruncateStep, UndoEndStep, Zenon DEF Next
  <2> QED
    BY <2>1, <2>2, <2>3, Zenon DEF IInv
<1> QED
  BY <1>1, <1>2, Zenon

\* IInv holds in every reachable state, whatever the sizes and the crash model.
THEOREM Invariance == Spec => []IInv
  BY IInvInit, IInvStep, PTL DEF Spec

\* Every variable of the write path keeps its type; in particular no truncation in
\* wal_undo, wal_recover or VACUUM leaves num_pages outside the file's bounds.
THEOREM TypeCorrect == Spec => []TypeOK
<1>1. IInv => TypeOK
  BY Zenon DEF IInv
<1> QED
  BY <1>1, Invariance, PTL

\* The write-ahead rule of wal_steal, for every pool size, workload and crash model.
THEOREM WriteAheadRule == Spec => []UndoBeforeSteal
<1>1. IInv => UndoBeforeSteal
  BY Zenon DEF IInv
<1> QED
  BY <1>1, Invariance, PTL

\* The last step of ROLLBACK leaves the table as it was at BEGIN.
LEMMA RollbackStep == IInv /\ AbortFinish => Snapshot' = begun
<1> SUFFICES ASSUME IInv, AbortFinish PROVE Snapshot' = begun
  BY Zenon
<1>1. writer /\ pc = "abort"
  BY Zenon DEF AbortFinish, IInv, PcInv
<1>2. /\ txnPages = begun.np
      /\ \A p \in PageId : p < begun.np => file[p] = begun.img[p]
      /\ \A p \in PageId : p >= begun.np => begun.img[p] = Zero
  BY <1>1, Zenon DEF IInv, TxnInv, RestoreInv
<1>3. begun.np \in Nat /\ PageId \subseteq Int /\ begun \in FileState
  BY DEF IInv, TypeOK, HistoryType, FileState, PageId
<1>4. np' = begun.np /\ \A p \in PageId : file'[p] = begun.img[p]
  <2>1. /\ np' = txnPages
        /\ file' = [p \in PageId |-> IF p < txnPages THEN file[p] ELSE Zero]
    BY Zenon DEF AbortFinish, pager_truncate
  <2>2. \A p \in PageId : p < begun.np \/ p >= begun.np
    BY <1>3
  <2>3. ASSUME NEW p \in PageId PROVE file'[p] = begun.img[p]
    <3>1. file'[p] = IF p < begun.np THEN file[p] ELSE Zero
      BY <1>2, <2>1, Zenon
    <3> QED
      BY <1>2, <2>2, <3>1
  <2> QED
    BY <1>2, <2>1, <2>3, Zenon
<1>5. Cached' = {}
  BY Zenon DEF AbortFinish, bufpool_invalidate_all, Cached
<1>6. Image' = [p \in PageId |-> begun.img[p]]
  BY <1>2, <1>3, <1>4, <1>5, Zenon DEF Image
<1>7. begun.img = [p \in PageId |-> begun.img[p]] /\ begun = [np |-> begun.np, img |-> begun.img]
  BY <1>3, Zenon DEF FileState
<1> QED
  BY <1>4, <1>6, <1>7, Zenon DEF Snapshot

\* ROLLBACK is exact: wal_undo and txn_abort_tables give back the table as it was,
\* whichever pages had been stolen.
THEOREM RollbackExact == Spec => RollbackRestores
<1>1. IInv /\ [Next]_vars => [AbortFinish => Snapshot' = begun]_vars
  BY RollbackStep, Zenon
<1> QED
  BY <1>1, Invariance, PTL DEF Spec, RollbackRestores

================================================================================
