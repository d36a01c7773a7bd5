----------------------------------- MODULE Lsm ---------------------------------
(* The LSM engine (src/lsm.c): memtable, sorted runs, flush, full compaction,    *)
(* the read path, and what reopening the directory finds after a crash at any    *)
(* point of a flush, a compaction or a clear.                                    *)
(*                                                                               *)
(* The sorted arrays of the memtable and of a run are functions from what they   *)
(* are searched for to values; binary search and the key range of a run find     *)
(* exactly what is in them.  A file is written with stdio, so a process that     *)
(* dies while writing leaves a part of it.                                       *)
EXTENDS Integers, Sequences, FiniteSets, FiniteSetsExt, Functions

CONSTANTS
    Keys, Vals,     \* keys and values: numbers above 0
    Pairs,          \* per mode, the (key, value) pairs that are written
    Threshold,      \* memtable_threshold
    MaxSeq,         \* bound on run numbers
    Faults          \* subset of {"write", "open"}: calls of the C library that may fail

ASSUME LsmAssumption ==
    /\ Keys \subseteq Nat \ {0} /\ Vals \subseteq Nat \ {0}
    /\ IsFiniteSet(Keys) /\ IsFiniteSet(Vals)
    /\ Pairs \in [BOOLEAN -> SUBSET (Keys \X Vals)]
    /\ Threshold \in Nat \ {0} /\ MaxSeq \in Nat

Tomb == 0
Absent == -1

VARIABLES
    multi,      \* LSM.multi: an entry is replaced per (key, value) pair
    up,         \* the engine is open
    mem,        \* the memtable: group -> value or Tomb
    ssts,       \* the open runs, in list order: Seq([seq, ents])
    next_seq,   \* number of the next run
    disk,       \* the files of the directory: [seq, count, ents]
    pc,         \* where the running call is
    run         \* the file being written: [seq, ents]

vars == <<multi, up, mem, ssts, next_seq, disk, pc, run>>

\* Entries with the same group shadow each other (same_group).
Group == (Keys \X {0}) \cup Pairs[TRUE]
group(k, v) == <<k, IF multi THEN v ELSE 0>>

NoEnts == [g \in {} |-> Tomb]
NoRun == [seq |-> 0, ents |-> NoEnts]
Upsert(m, g, v) == [h \in DOMAIN m \cup {g} |-> IF h = g THEN v ELSE m[h]]

--------------------------------------------------------------------------------
(* Reading.                                                                      *)

\* lsm_get: the memtable, then the runs from the last of the list to the first.
lsm_get(g) ==
    LET hits == {i \in DOMAIN ssts : g \in DOMAIN ssts[i].ents}
        v == IF g \in DOMAIN mem THEN mem[g]
             ELSE IF hits = {} THEN Absent ELSE ssts[Max(hits)].ents[g]
    IN  IF v = Tomb THEN Absent ELSE v

\* Of the runs R, the entry of g with the highest priority (its run's number) leads its
\* group after the sort, and decides: collect_all, mentry_cmp.
Merged(R, g) ==
    LET hits == {r \in R : g \in DOMAIN r.ents}
    IN  IF hits = {} THEN Absent
        ELSE (CHOOSE r \in hits : \A s \in hits : s.seq <= r.seq).ents[g]

\* lsm_scan and lsm_find_all: the memtable has the highest priority of all.
lsm_scan ==
    LET R == Range(ssts) \cup {[seq |-> MaxSeq + 1, ents |-> mem]}
        live == {g \in Group : Merged(R, g) \notin {Absent, Tomb}}
    IN  [g \in live |-> Merged(R, g)]

--------------------------------------------------------------------------------
(* Files.                                                                        *)

\* The header and, where there are records, the last of them can be read.
sst_open(f) == f.count # Absent /\ Cardinality(DOMAIN f.ents) = f.count
Run(f) == [seq |-> f.seq, ents |-> f.ents]

\* Order of the records in a file.
Before(g, h) == g[1] < h[1] \/ (g[1] = h[1] /\ g[2] < h[2])

\* sst_write_file: fopen(path, "wb") and a part of the file, from its beginning ...
Create(n, G) ==
    disk' = {f \in disk : f.seq # run.seq}
               \cup {[seq |-> run.seq, count |-> n, ents |-> [g \in G |-> run.ents[g]]]}
WriteBegin ==
    /\ pc \in {"flush", "compact"}
    /\ \/ Create(Absent, {})
       \/ \E h \in DOMAIN run.ents :
             Create(Cardinality(DOMAIN run.ents), {g \in DOMAIN run.ents : Before(g, h)})
    /\ pc' = IF pc = "flush" THEN "flush_write" ELSE "compact_write"
    /\ UNCHANGED <<multi, up, mem, ssts, next_seq, run>>

\* ... and the rest of it.
WriteEnd ==
    /\ pc \in {"flush_write", "compact_write"}
    /\ Create(Cardinality(DOMAIN run.ents), DOMAIN run.ents)
    /\ pc' = IF pc = "flush_write" THEN "flush_open" ELSE "compact_open"
    /\ UNCHANGED <<multi, up, mem, ssts, next_seq, run>>

\* A write fails, or the run cannot be opened: the call returns -1 and keeps its inputs.
CallFails ==
    /\ \/ "write" \in Faults /\ pc \in {"flush_write", "compact_write"}
       \/ "open" \in Faults /\ pc \in {"flush_open", "compact_open"}
    /\ pc' = "idle" /\ run' = NoRun
    /\ UNCHANGED <<multi, up, mem, ssts, next_seq, disk>>

--------------------------------------------------------------------------------
(* Writing.                                                                      *)

Init ==
    /\ multi \in BOOLEAN
    /\ up = TRUE /\ mem = NoEnts /\ ssts = <<>> /\ next_seq = 1
    /\ disk = {} /\ pc = "idle" /\ run = NoRun

\* lsm_flush begins to write memtable m.
StartFlush(m) ==
    /\ pc' = "flush"
    /\ run' = [seq |-> next_seq, ents |-> m]
    /\ next_seq' = next_seq + 1

\* mem_upsert or mem_upsert_dup, then maybe_flush.
Put(g, v) ==
    /\ up /\ pc = "idle" /\ next_seq <= MaxSeq
    /\ mem' = Upsert(mem, g, v)
    /\ IF Cardinality(DOMAIN mem') >= Threshold THEN StartFlush(mem')
                                               ELSE UNCHANGED <<pc, run, next_seq>>
    /\ UNCHANGED <<multi, up, ssts, disk>>

\* lsm_put and lsm_delete, or lsm_put_dup and lsm_delete_val.
lsm_put(k, v) == Put(group(k, v), v)
lsm_delete(k, v) == Put(group(k, v), Tomb)

lsm_flush ==
    /\ up /\ pc = "idle" /\ next_seq <= MaxSeq
    /\ DOMAIN mem # {}
    /\ StartFlush(mem)
    /\ UNCHANGED <<multi, up, mem, ssts, disk>>

FlushEnd ==
    /\ pc = "flush_open" /\ pc' = "idle"
    /\ ssts' = Append(ssts, run) /\ run' = NoRun
    /\ mem' = NoEnts
    /\ UNCHANGED <<multi, up, next_seq, disk>>

\* All runs become one: the newest entry of each group, without the tombstones.
lsm_compact ==
    /\ up /\ pc = "idle" /\ next_seq <= MaxSeq
    /\ \E i \in DOMAIN ssts : DOMAIN ssts[i].ents # {}
    /\ LET live == {g \in Group : Merged(Range(ssts), g) \notin {Absent, Tomb}}
       IN  run' = [seq |-> next_seq, ents |-> [g \in live |-> Merged(Range(ssts), g)]]
    /\ next_seq' = next_seq + 1
    /\ pc' = "compact"
    /\ UNCHANGED <<multi, up, mem, ssts, disk>>

OnDisk(i) == \E f \in disk : f.seq = ssts[i].seq

\* Faulty variant of UnlinkNext: the newest run's file goes first.
UnlinkNewest ==
    \E i \in DOMAIN ssts :
        /\ OnDisk(i) /\ \A j \in DOMAIN ssts : j > i => ~OnDisk(j)
        /\ disk' = {f \in disk : f.seq # ssts[i].seq}

\* The file of the first run in list order that still has one.
UnlinkNext ==
    \E i \in DOMAIN ssts :
        /\ OnDisk(i) /\ \A j \in DOMAIN ssts : j < i => ~OnDisk(j)
        /\ disk' = {f \in disk : f.seq # ssts[i].seq}

\* The old files go one by one ...
CompactUnlink ==
    /\ pc \in {"compact_open", "compact_unlink"} /\ pc' = "compact_unlink"
    /\ UnlinkNext
    /\ UNCHANGED <<multi, up, mem, ssts, next_seq, run>>

\* ... and the merged run takes their place in the list.
CompactEnd ==
    /\ pc = "compact_unlink" /\ pc' = "idle"
    /\ \A i \in DOMAIN ssts : ~OnDisk(i)
    /\ ssts' = <<run>> /\ run' = NoRun
    /\ UNCHANGED <<multi, up, mem, next_seq, disk>>

lsm_clear ==
    /\ up /\ pc \in {"idle", "clear"}
    /\ \/ UnlinkNext /\ pc' = "clear" /\ UNCHANGED <<mem, ssts>>
       \/ /\ \A i \in DOMAIN ssts : ~OnDisk(i)
          /\ pc' = "idle" /\ ssts' = <<>> /\ mem' = NoEnts /\ UNCHANGED disk
    /\ UNCHANGED <<multi, up, next_seq, run>>

--------------------------------------------------------------------------------
(* Closing, crashing and opening.                                                *)

\* lsm_close between two calls, or the death of the process at any time: the memtable
\* is not written.
lsm_close ==
    /\ up /\ up' = FALSE
    /\ mem' = NoEnts /\ ssts' = <<>> /\ next_seq' = 1 /\ pc' = "idle" /\ run' = NoRun
    /\ UNCHANGED <<multi, disk>>

\* The files that open.
Found == {Run(f) : f \in {d \in disk : sst_open(d)}}

\* The lists of the runs R, in any order.
Lists(R) == {s \in [1..Cardinality(R) -> R] : \A r \in R : \E i \in DOMAIN s : s[i] = r}

\* Faulty variant of lsm_open_multi: the list keeps readdir's order.
lsm_open_unsorted ==
    /\ ~up /\ up' = TRUE
    /\ ssts' \in Lists(Found)
    /\ next_seq' = 1 + Max({0} \cup {r.seq : r \in Found})
    /\ UNCHANGED <<multi, mem, disk, pc, run>>

\* Faulty variant of lsm_open_multi: the highest run number is given out again.
lsm_open_reuse ==
    /\ ~up /\ up' = TRUE
    /\ ssts' \in {s \in Lists(Found) : \A i, j \in DOMAIN s : i < j => s[i].seq < s[j].seq}
    /\ next_seq' = Max({1} \cup {r.seq : r \in Found})
    /\ UNCHANGED <<multi, mem, disk, pc, run>>

\* Every one becomes a run; the list is sorted, as readdir's order is not.
lsm_open_multi ==
    /\ ~up /\ up' = TRUE
    /\ ssts' \in {s \in Lists(Found) : \A i, j \in DOMAIN s : i < j => s[i].seq < s[j].seq}
    /\ next_seq' = 1 + Max({0} \cup {r.seq : r \in Found})
    /\ UNCHANGED <<multi, mem, disk, pc, run>>

Next ==
    \/ \E p \in Pairs[multi] : lsm_put(p[1], p[2]) \/ lsm_delete(p[1], p[2])
    \/ lsm_flush \/ WriteBegin \/ WriteEnd \/ CallFails \/ FlushEnd
    \/ lsm_compact \/ CompactUnlink \/ CompactEnd \/ lsm_clear
    \/ lsm_close \/ lsm_open_multi

Spec == Init /\ [][Next]_vars

--------------------------------------------------------------------------------
(* Properties.                                                                   *)

Ents == UNION {[G -> Vals \cup {Tomb}] : G \in SUBSET Group}

\* Variables keep their types; an open run's number is below the next one to be given
\* out, and it has its file until the call that replaces it removes it.
TypeOK ==
    /\ multi \in BOOLEAN /\ up \in BOOLEAN
    /\ mem \in Ents /\ run.ents \in Ents
    /\ next_seq \in 1..(MaxSeq + 1)
    /\ \A i \in DOMAIN ssts : /\ ssts[i].seq \in 1..(next_seq - 1) /\ ssts[i].ents \in Ents
                              /\ pc \notin {"compact_unlink", "clear"} => OnDisk(i)
    /\ \A f \in disk : f.seq \in 1..MaxSeq /\ f.ents \in Ents

\* lsm_get walks the list from its end, lsm_scan sorts all entries by the runs' numbers:
\* a key has the same value through both, also after the directory was read again.
ReadsAgree ==
    up /\ pc = "idle" /\ ~multi =>
        \A g \in Group : lsm_get(g) = (IF g \in DOMAIN lsm_scan THEN lsm_scan[g] ELSE Absent)

\* What reopening the directory would find.
Reopened == [g \in Group |-> LET v == Merged(Found, g) IN IF v = Tomb THEN Absent ELSE v]
Shown == IF up THEN [g \in Group |-> IF g \in DOMAIN lsm_scan THEN lsm_scan[g] ELSE Absent]
               ELSE Reopened
Call == IF pc \in {"flush", "flush_write", "flush_open"} THEN "flush"
        ELSE IF pc \in {"compact", "compact_write", "compact_open", "compact_unlink"} THEN "compact"
        ELSE pc
Promise == INSTANCE LsmMap WITH Value <- Vals, map <- Shown, durable <- Reopened, open <- up, call <- Call

\* The engine is a map with an explicit flush.  While it is open only a write changes what
\* it answers, and only a flush, at one step of it, what it would answer after a crash: a
\* compaction changes neither at any of its system calls, a flush or a compaction that is
\* cut off anywhere loses nothing durable and brings back no old value or deleted key, and
\* a clear that is cut off has only given entries up.
ImplementsMap == Promise!Spec
================================================================================
