------------------------------- MODULE LsmProofs -------------------------------
(* Proofs about the LSM engine, for any keys, values, thresholds and numbers of  *)
(* runs: both read paths agree, and the engine implements the map of LsmMap,     *)
(* wherever a flush, a compaction or a clear is cut off.                         *)
EXTENDS Lsm, FiniteSetTheorems, TLAPS

--------------------------------------------------------------------------------
(* The inductive invariants.                                                     *)

Runs == [seq : 1..MaxSeq, ents : Ents]
Files == [seq : 1..MaxSeq, count : Nat \cup {Absent}, ents : Ents]
Flushing == {"flush", "flush_write", "flush_open"}
Compacting == {"compact", "compact_write", "compact_open", "compact_unlink"}
Whole == {"flush_open", "compact_open", "compact_unlink"}

Types ==
    /\ multi \in BOOLEAN /\ up \in BOOLEAN
    /\ mem \in Ents /\ ssts \in Seq(Runs) /\ next_seq \in 1..(MaxSeq + 1)
    /\ disk \subseteq Files
    /\ pc \in {"idle", "clear"} \cup Flushing \cup Compacting
    /\ run.ents \in Ents

\* The runs of the list.
Listed == Range(ssts)

\* A number names one file; the list is in the order of numbers given out.
Numbered ==
    /\ \A f, h \in disk : f.seq = h.seq => f = h
    /\ \A i \in DOMAIN ssts : ssts[i].seq < next_seq
    /\ \A i, j \in DOMAIN ssts : i < j => ssts[i].seq < ssts[j].seq

\* An engine that is closed has nothing in memory.
Closed == ~up => pc = "idle" /\ mem = NoEnts /\ ssts = <<>>

\* The file with the number of a listed run is that run's, and there is one unless the
\* running call removes them.
Filed ==
    /\ \A f \in disk : \A i \in DOMAIN ssts : f.seq = ssts[i].seq => sst_open(f) /\ Run(f) = ssts[i]
    /\ pc \notin {"compact_unlink", "clear"} => \A i \in DOMAIN ssts : OnDisk(i)

\* The run being written has the newest number, and is on disk once it is whole.
Writing ==
    pc \notin {"idle", "clear"} =>
        /\ run \in Runs /\ run.seq = next_seq - 1
        /\ \A i \in DOMAIN ssts : ssts[i].seq < run.seq
        /\ pc \in Whole => run \in Found

SInv == Types /\ Numbered /\ Closed /\ Filed /\ Writing

\* The value a reader is given when v is the entry that decides.
Live(v) == IF v = Tomb THEN Absent ELSE v
Val(R, g) == Live(Merged(R, g))

\* The directory holds the listed runs, the new one once it is whole, and nothing else that
\* can be opened.
Directory == up => Found \subseteq Listed \cup (IF pc \in Whole THEN {run} ELSE {})

\* Files are removed in the order of their numbers.
OldestFirst == \A i, j \in DOMAIN ssts : i < j /\ OnDisk(i) => OnDisk(j)

\* A flush writes the memtable, a compaction what the listed runs say together.
Content ==
    /\ pc \in Flushing => run.ents = mem
    /\ pc \in Compacting =>
          \A g \in Group :
              (IF g \in DOMAIN run.ents THEN Live(run.ents[g]) ELSE Absent) = Val(Listed, g)

IInv == SInv /\ Directory /\ OldestFirst /\ Content

--------------------------------------------------------------------------------
(* Merging runs.                                                                 *)

\* A nonempty set of naturals up to n has a greatest element, and Max returns it.
LEMMA MaxIs ==
    ASSUME NEW S \in SUBSET Nat, S # {}, NEW n \in Nat, \A x \in S : x <= n
    PROVE  Max(S) \in S /\ \A y \in S : y <= Max(S)
<1> DEFINE T == {n - x : x \in S}
<1>1. T \in SUBSET Nat /\ T # {}
  <2>1. \A x \in S : x \in Nat /\ n - x \in Nat
    OBVIOUS
  <2>2. PICK x : x \in S
    BY Zenon
  <2>3. n - x \in T
    BY <2>2, Zenon
  <2> QED
    BY <2>1, <2>3, Zenon
<1>2. PICK m \in T : \A y \in T : ~(<<y, m>> \in OpToRel(<, Nat))
  BY <1>1, NatLessThanWellFounded, WFMin, Zenon
<1>3. PICK x \in S : m = n - x
  BY <1>2, Zenon
<1>4. \A y \in S : n - y \in Nat /\ ~(n - y < n - x)
  BY <1>1, <1>2, <1>3, Zenon DEF OpToRel
<1>5. \A y \in S : x >= y
  BY <1>4
<1>6. Max(S) \in S /\ \A y \in S : Max(S) >= y
  BY <1>5, Zenon DEF Max
<1> QED
  BY <1>6, Zenon

\* Runs with numbers of their own.
RunSet(R) ==
    /\ \A r \in R : r.seq \in 0..(MaxSeq + 1)
    /\ \A r, s \in R : r.seq = s.seq => r = s

\* Run r has the newest entry of g in R.
Top(R, g, r) == r \in R /\ g \in DOMAIN r.ents /\ \A s \in R : g \in DOMAIN s.ents => s.seq <= r.seq

\* Where a run has an entry of g, one of them has the newest.
LEMMA TopExists ==
    ASSUME NEW R, RunSet(R), NEW g, NEW q \in R, g \in DOMAIN q.ents
    PROVE  \E r : Top(R, g, r)
<1> DEFINE H == {r \in R : g \in DOMAIN r.ents}
           S == {r.seq : r \in H}
<1>1. S \in SUBSET Nat /\ S # {} /\ MaxSeq + 1 \in Nat /\ \A x \in S : x <= MaxSeq + 1
  BY LsmAssumption DEF RunSet
<1>2. Max(S) \in S /\ \A y \in S : y <= Max(S)
  BY <1>1, MaxIs, Zenon
<1>3. PICK r \in H : r.seq = Max(S)
  BY <1>2, Zenon
<1> QED
  BY <1>2, <1>3, Zenon DEF Top

\* The newest entry is the one that decides.
LEMMA MergedTop ==
    ASSUME NEW R, RunSet(R), NEW g, NEW r, Top(R, g, r)
    PROVE  Merged(R, g) = r.ents[g]
<1> DEFINE H == {q \in R : g \in DOMAIN q.ents}
           c == CHOOSE q \in H : \A s \in H : s.seq <= q.seq
<1>1. r \in H /\ \A s \in H : s.seq <= r.seq
  BY Zenon DEF Top
<1>2. c \in H /\ \A s \in H : s.seq <= c.seq
  BY <1>1, Zenon
<1>3. c.seq = r.seq
  <2>1. c.seq <= r.seq /\ r.seq <= c.seq
    BY <1>1, <1>2, Zenon
  <2>2. c.seq \in 0..(MaxSeq + 1) /\ r.seq \in 0..(MaxSeq + 1)
    BY <1>1, <1>2, Zenon DEF RunSet
  <2> HIDE DEF c
  <2> QED
    BY <2>1, <2>2
<1>4. c = r
  BY <1>1, <1>2, <1>3, Zenon DEF RunSet
<1> QED
  BY <1>1, <1>4, Zenon DEF Merged

\* Without an entry there is no value.
LEMMA MergedNone ==
    ASSUME NEW R, NEW g, \A r \in R : g \notin DOMAIN r.ents
    PROVE  Merged(R, g) = Absent
<1>1. {r \in R : g \in DOMAIN r.ents} = {}
  BY Zenon
<1> QED
  BY <1>1, Zenon DEF Merged

\* A run with a newer number than all others decides where it has an entry, and changes
\* nothing where it has none.
LEMMA AddTop ==
    ASSUME NEW R, NEW t, RunSet(R \cup {t}), \A r \in R : r.seq < t.seq, NEW g
    PROVE  Merged(R \cup {t}, g) = IF g \in DOMAIN t.ents THEN t.ents[g] ELSE Merged(R, g)
<1>1. CASE g \in DOMAIN t.ents
  <2>1. \A r \in R \cup {t} : r.seq <= t.seq
    BY DEF RunSet
  <2>2. Top(R \cup {t}, g, t)
    BY <1>1, <2>1, Zenon DEF Top
  <2> QED
    BY <1>1, <2>2, MergedTop, Zenon
<1>2. CASE g \notin DOMAIN t.ents
  <2>0. RunSet(R)
    BY Zenon DEF RunSet
  <2>1. CASE \E q \in R : g \in DOMAIN q.ents
    <3>1. PICK r : Top(R, g, r)
      BY <2>0, <2>1, TopExists, Zenon
    <3>2. Top(R \cup {t}, g, r)
      BY <1>2, <3>1, Zenon DEF Top
    <3>3. Merged(R \cup {t}, g) = r.ents[g]
      BY <3>2, MergedTop, Zenon
    <3>4. Merged(R, g) = r.ents[g]
      BY <2>0, <3>1, MergedTop, Zenon
    <3> QED
      BY <1>2, <3>3, <3>4, Zenon
  <2>2. CASE ~\E q \in R : g \in DOMAIN q.ents
    <3>1. \A q \in R \cup {t} : g \notin DOMAIN q.ents
      BY <1>2, <2>2, Zenon
    <3> QED
      BY <1>2, <2>2, <3>1, MergedNone, Zenon
  <2> QED
    BY <2>1, <2>2, Zenon
<1> QED
  BY <1>1, <1>2, Zenon

\* Dropping the oldest runs brings no older entry back.
LEMMA DropOldest ==
    ASSUME NEW R, RunSet(R), NEW U \in SUBSET R,
           \A r \in U : \A s \in R : r.seq < s.seq => s \in U, NEW g
    PROVE  Merged(U, g) \in {Merged(R, g), Absent}
<1>0. RunSet(U)
  BY Zenon DEF RunSet
<1>1. CASE \E q \in U : g \in DOMAIN q.ents
  <2>1. PICK r : Top(U, g, r)
    BY <1>0, <1>1, TopExists, Zenon
  <2>2. \A s \in R : g \in DOMAIN s.ents => s.seq <= r.seq
    <3> SUFFICES ASSUME NEW s \in R, g \in DOMAIN s.ents PROVE s.seq <= r.seq
      BY Zenon
    <3>1. r \in U /\ s.seq \in 0..(MaxSeq + 1) /\ r.seq \in 0..(MaxSeq + 1)
      BY <2>1, Zenon DEF Top, RunSet
    <3>2. CASE r.seq < s.seq
      BY <2>1, <3>1, <3>2, Zenon DEF Top
    <3>3. CASE ~(r.seq < s.seq)
      BY <3>1, <3>3
    <3> QED
      BY <3>2, <3>3, Zenon
  <2>3. Top(R, g, r)
    BY <2>1, <2>2, Zenon DEF Top
  <2>4. Merged(U, g) = r.ents[g]
    BY <1>0, <2>1, MergedTop, Zenon
  <2>5. Merged(R, g) = r.ents[g]
    BY <2>3, MergedTop, Zenon
  <2> QED
    BY <2>4, <2>5, Zenon
<1>2. CASE ~\E q \in U : g \in DOMAIN q.ents
  BY <1>2, MergedNone, Zenon
<1> QED
  BY <1>1, <1>2, Zenon

--------------------------------------------------------------------------------
(* Reading.                                                                      *)

\* The memtable takes part in the merge as the newest of all runs.
MemRun == [seq |-> MaxSeq + 1, ents |-> mem]

\* What a reader of the open engine is given.
Read(g) == IF g \in DOMAIN mem THEN Live(mem[g]) ELSE Val(Listed, g)

\* The list, the memtable and the directory have runs with numbers of their own.
LEMMA ListRuns ==
    ASSUME SInv
    PROVE  /\ RunSet(Listed) /\ RunSet(Listed \cup {MemRun})
           /\ \A r \in Listed : r \in Runs /\ r.seq < MemRun.seq
           /\ MemRun.ents = mem
<1>1. \A i \in DOMAIN ssts : ssts[i] \in Runs
  BY DEF SInv, Types
<1>2. \A r \in Listed : r \in Runs
  BY <1>1, Zenon DEF Listed, Range
<1>3. \A r \in Listed : r.seq \in 1..MaxSeq
  BY <1>2, Zenon DEF Runs
<1>4. MemRun.seq = MaxSeq + 1 /\ MemRun.ents = mem
  BY Zenon DEF MemRun
<1>5. \A r \in Listed : r.seq \in 0..(MaxSeq + 1) /\ r.seq < MemRun.seq /\ r.seq # MemRun.seq
  BY <1>3, <1>4, LsmAssumption
<1>6. MemRun.seq \in 0..(MaxSeq + 1)
  BY <1>4, LsmAssumption
<1>7. ASSUME NEW r \in Listed, NEW s \in Listed, r.seq = s.seq PROVE r = s
  <2>1. PICK i \in DOMAIN ssts : r = ssts[i]
    BY Zenon DEF Listed, Range
  <2>2. PICK j \in DOMAIN ssts : s = ssts[j]
    BY Zenon DEF Listed, Range
  <2>3. i \in Nat /\ j \in Nat
    BY DEF SInv, Types
  <2>4. /\ i < j => ssts[i].seq < ssts[j].seq
        /\ j < i => ssts[j].seq < ssts[i].seq
    BY Zenon DEF SInv, Numbered
  <2>5. ~(i < j) /\ ~(j < i)
    BY <1>3, <1>7, <2>1, <2>2, <2>4
  <2> QED
    BY <2>1, <2>2, <2>3, <2>5
<1>8. RunSet(Listed)
  BY <1>5, <1>7, Zenon DEF RunSet
<1>9. RunSet(Listed \cup {MemRun})
  BY <1>5, <1>6, <1>7, Zenon DEF RunSet
<1> QED
  BY <1>2, <1>4, <1>5, <1>8, <1>9, Zenon

\* lsm_scan returns what the memtable says, or else the newest run.
LEMMA ScanReads ==
    ASSUME SInv, NEW g \in Group
    PROVE  (IF g \in DOMAIN lsm_scan THEN lsm_scan[g] ELSE Absent) = Read(g)
<1> DEFINE R == Listed \cup {MemRun}
           live == {h \in Group : Merged(R, h) \notin {Absent, Tomb}}
<1>1. Merged(R, g) = IF g \in DOMAIN mem THEN mem[g] ELSE Merged(Listed, g)
  <2>1. RunSet(R) /\ (\A r \in Listed : r.seq < MemRun.seq) /\ MemRun.ents = mem
    BY ListRuns, Zenon
  <2>2. Merged(R, g) = IF g \in DOMAIN MemRun.ents THEN MemRun.ents[g] ELSE Merged(Listed, g)
    BY <2>1, AddTop, Zenon
  <2> QED
    BY <2>1, <2>2, Zenon
<1>2. lsm_scan = [h \in live |-> Merged(R, h)]
  BY Zenon DEF lsm_scan, MemRun, Listed
<1>3. (IF g \in DOMAIN lsm_scan THEN lsm_scan[g] ELSE Absent) = Live(Merged(R, g))
  BY <1>2, Zenon DEF Live
<1> QED
  BY <1>1, <1>3, Zenon DEF Read, Val

\* lsm_get, which goes through the list from its end, returns the same.
LEMMA GetReads ==
    ASSUME SInv, NEW g
    PROVE  lsm_get(g) = Read(g)
<1> DEFINE H == {i \in DOMAIN ssts : g \in DOMAIN ssts[i].ents}
<1>1. lsm_get(g) = Live(IF g \in DOMAIN mem THEN mem[g]
                        ELSE IF H = {} THEN Absent ELSE ssts[Max(H)].ents[g])
  BY Zenon DEF lsm_get, Live
<1>2. (IF H = {} THEN Absent ELSE ssts[Max(H)].ents[g]) = Merged(Listed, g)
  <2>1. CASE H = {}
    <3>1. \A r \in Listed : g \notin DOMAIN r.ents
      BY <2>1, Zenon DEF Listed, Range
    <3> QED
      BY <2>1, <3>1, MergedNone, Zenon
  <2>2. CASE H # {}
    <3>1. ssts \in Seq(Runs) /\ Len(ssts) \in Nat /\ DOMAIN ssts = 1..Len(ssts)
      BY DEF SInv, Types
    <3>2. H \in SUBSET Nat /\ \A i \in H : i <= Len(ssts)
      BY <3>1
    <3>3. Max(H) \in H /\ \A i \in H : i <= Max(H)
      BY <2>2, <3>1, <3>2, MaxIs, Zenon
    <3> DEFINE m == Max(H)
    <3> HIDE DEF m
    <3>4. \A i \in DOMAIN ssts : ssts[i].seq \in 1..MaxSeq
      <4>1. \A i \in DOMAIN ssts : ssts[i] \in Runs
        BY <3>1
      <4> QED
        BY <4>1, Zenon DEF Runs
    <3>5. \A i \in H : ssts[i].seq <= ssts[m].seq
      <4> SUFFICES ASSUME NEW i \in H PROVE ssts[i].seq <= ssts[m].seq
        BY Zenon
      <4>1. i < m => ssts[i].seq < ssts[m].seq
        BY <3>3, Zenon DEF SInv, Numbered, m
      <4>2. i < m \/ i = m
        <5>1. i \in Nat /\ m \in Nat /\ i <= m
          BY <3>2, <3>3, Zenon DEF m
        <5> QED
          BY <5>1
      <4>3. ssts[i].seq \in 1..MaxSeq /\ ssts[m].seq \in 1..MaxSeq
        BY <3>3, <3>4, Zenon DEF m
      <4> QED
        BY <4>1, <4>2, <4>3
    <3>6. ssts[m] \in Listed /\ g \in DOMAIN ssts[m].ents
      BY <3>3, Zenon DEF m, Listed, Range
    <3>7. \A s \in Listed : g \in DOMAIN s.ents => s.seq <= ssts[m].seq
      BY <3>5, Zenon DEF Listed, Range
    <3>8. Top(Listed, g, ssts[m])
      BY <3>6, <3>7, Zenon DEF Top
    <3> QED
      BY <2>2, <3>8, ListRuns, MergedTop, Zenon DEF m
  <2> QED
    BY <2>1, <2>2, Zenon
<1> QED
  BY <1>1, <1>2, Zenon DEF Read, Val

--------------------------------------------------------------------------------
(* Entries and files.                                                            *)

\* Entries are finitely many; a part of them, and one more of them, are entries.
LEMMA EntsFacts ==
    /\ NoEnts \in Ents /\ DOMAIN NoEnts = {}
    /\ \A e \in Ents : /\ IsFiniteSet(DOMAIN e) /\ DOMAIN e \subseteq Group
                       /\ e = [g \in DOMAIN e |-> e[g]]
                       /\ \A g \in DOMAIN e : e[g] \in Vals \cup {Tomb}
                       /\ \A G \in SUBSET DOMAIN e : [g \in G |-> e[g]] \in Ents
                       /\ \A g \in Group, v \in Vals \cup {Tomb} : Upsert(e, g, v) \in Ents
<1>1. IsFiniteSet(Group)
  <2>1. IsFiniteSet(Keys \X {0})
    BY FS_Product, FS_Singleton, LsmAssumption, Zenon
  <2>2. IsFiniteSet(Keys \X Vals)
    BY FS_Product, LsmAssumption, Zenon
  <2>3. Pairs[TRUE] \in SUBSET (Keys \X Vals)
    BY LsmAssumption, Zenon
  <2>4. IsFiniteSet(Pairs[TRUE])
    BY <2>2, <2>3, FS_Subset, Zenon
  <2> QED
    BY <2>1, <2>4, FS_Union, Zenon DEF Group
<1>2. NoEnts \in [{} -> Vals \cup {Tomb}] /\ DOMAIN NoEnts = {}
  BY Zenon DEF NoEnts
<1>3. NoEnts \in Ents
  BY <1>2, Zenon DEF Ents
<1>4. ASSUME NEW e \in Ents
      PROVE  /\ IsFiniteSet(DOMAIN e) /\ DOMAIN e \subseteq Group
             /\ e = [g \in DOMAIN e |-> e[g]]
             /\ \A g \in DOMAIN e : e[g] \in Vals \cup {Tomb}
             /\ \A G \in SUBSET DOMAIN e : [g \in G |-> e[g]] \in Ents
             /\ \A g \in Group, v \in Vals \cup {Tomb} : Upsert(e, g, v) \in Ents
  <2>1. PICK D \in SUBSET Group : e \in [D -> Vals \cup {Tomb}]
    BY Zenon DEF Ents
  <2>2. /\ DOMAIN e = D /\ e = [g \in DOMAIN e |-> e[g]]
        /\ \A g \in DOMAIN e : e[g] \in Vals \cup {Tomb}
    BY <2>1, Zenon
  <2>3. IsFiniteSet(DOMAIN e)
    BY <1>1, <2>1, <2>2, FS_Subset, Zenon
  <2>4. ASSUME NEW G \in SUBSET DOMAIN e PROVE [g \in G |-> e[g]] \in Ents
    <3>1. [g \in G |-> e[g]] \in [G -> Vals \cup {Tomb}]
      BY <2>2, Zenon
    <3>2. G \in SUBSET Group
      BY <2>1, <2>2, Zenon
    <3> QED
      BY <3>1, <3>2, Zenon DEF Ents
  <2>5. ASSUME NEW g \in Group, NEW v \in Vals \cup {Tomb} PROVE Upsert(e, g, v) \in Ents
    <3>1. Upsert(e, g, v) \in [DOMAIN e \cup {g} -> Vals \cup {Tomb}]
      BY <2>2, Zenon DEF Upsert
    <3>2. DOMAIN e \cup {g} \in SUBSET Group
      BY <2>1, <2>2, Zenon
    <3> QED
      BY <3>1, <3>2, Zenon DEF Ents
  <2> QED
    BY <2>1, <2>2, <2>3, <2>4, <2>5, Zenon
<1> QED
  BY <1>2, <1>3, <1>4, Zenon

\* A file that is removed or replaced is no longer found; the others are.
LEMMA FoundStep ==
    ASSUME NEW n, NEW N, disk' = {f \in disk : f.seq # n} \cup N, \A h \in N : h.seq = n
    PROVE  Found' = {r \in Found : r.seq # n} \cup {Run(h) : h \in {d \in N : sst_open(d)}}
<1>1. \A f : Run(f).seq = f.seq
  BY Zenon DEF Run
<1>2. \A r : r \in Found' <=> \E f \in disk' : sst_open(f) /\ r = Run(f)
  BY Zenon DEF Found, Run, sst_open
<1>3. \A r : r \in Found <=> \E f \in disk : sst_open(f) /\ r = Run(f)
  BY Zenon DEF Found
<1>4. ASSUME NEW r
      PROVE  r \in Found' <=> (r \in Found /\ r.seq # n) \/ \E h \in N : sst_open(h) /\ r = Run(h)
  <2>1. ASSUME r \in Found'
        PROVE  (r \in Found /\ r.seq # n) \/ \E h \in N : sst_open(h) /\ r = Run(h)
    <3>1. PICK f \in disk' : sst_open(f) /\ r = Run(f)
      BY <1>2, <2>1, Zenon
    <3>2. CASE f \in N
      BY <3>1, <3>2, Zenon
    <3>3. CASE f \in disk /\ f.seq # n
      <4>1. r \in Found
        BY <1>3, <3>1, <3>3, Zenon
      <4>2. r.seq = f.seq
        BY <1>1, <3>1, Zenon
      <4> QED
        BY <3>3, <4>1, <4>2, Zenon
    <3> QED
      BY <3>2, <3>3, Zenon
  <2>2. ASSUME r \in Found, r.seq # n PROVE r \in Found'
    <3>1. PICK f \in disk : sst_open(f) /\ r = Run(f)
      BY <1>3, <2>2, Zenon
    <3>2. f.seq # n
      BY <1>1, <2>2, <3>1, Zenon
    <3>3. f \in disk'
      BY <3>1, <3>2, Zenon
    <3> QED
      BY <1>2, <3>1, <3>3, Zenon
  <2>3. ASSUME NEW h \in N, sst_open(h), r = Run(h) PROVE r \in Found'
    <3>1. h \in disk'
      BY Zenon
    <3> QED
      BY <1>2, <2>3, <3>1, Zenon
  <2> QED
    BY <2>1, <2>2, <2>3, Zenon
<1> QED
  BY <1>4, Zenon

\* Found runs are runs with numbers of their own.
LEMMA FoundRuns ==
    ASSUME disk \subseteq Files, \A f, h \in disk : f.seq = h.seq => f = h
    PROVE  /\ \A r \in Found : r \in Runs /\ r.seq \in 1..MaxSeq
           /\ RunSet(Found)
<1>1. \A f \in disk : f.seq \in 1..MaxSeq /\ f.ents \in Ents
  BY Zenon DEF Files
<1>2. \A f \in disk : Run(f) \in Runs /\ Run(f).seq = f.seq
  BY <1>1, Zenon DEF Run, Runs
<1>3. \A r \in Found : \E f \in disk : r = Run(f)
  BY Zenon DEF Found
<1>4. ASSUME NEW r \in Found PROVE r \in Runs /\ r.seq \in 1..MaxSeq
  <2>1. PICK f \in disk : r = Run(f)
    BY <1>3, Zenon
  <2> QED
    BY <1>1, <1>2, <2>1, Zenon
<1>5. \A r \in Found : r.seq \in 0..(MaxSeq + 1)
  BY <1>4, LsmAssumption
<1>6. ASSUME NEW r \in Found, NEW q \in Found, r.seq = q.seq PROVE r = q
  <2>1. PICK f \in disk : r = Run(f)
    BY <1>3, Zenon
  <2>2. PICK h \in disk : q = Run(h)
    BY <1>3, Zenon
  <2>3. f.seq = h.seq
    BY <1>2, <1>6, <2>1, <2>2, Zenon
  <2> QED
    BY <2>1, <2>2, <2>3, Zenon
<1> QED
  BY <1>4, <1>5, <1>6, Zenon DEF RunSet

\* A part of a file does not open: its header is missing, or its last record.
LEMMA PartOfFile ==
    ASSUME SInv, pc \notin {"idle", "clear"}, WriteBegin
    PROVE  \E h : /\ disk' = {f \in disk : f.seq # run.seq} \cup {h}
                  /\ h \in Files /\ h.seq = run.seq /\ ~sst_open(h)
<1> DEFINE e == run.ents
           part(n, G) == [seq |-> run.seq, count |-> n, ents |-> [g \in G |-> e[g]]]
<1>1. e \in Ents /\ run.seq \in 1..MaxSeq
  BY Zenon DEF SInv, Types, Writing, Runs
<1>2. \A n, G : part(n, G).seq = run.seq /\ part(n, G).count = n /\ DOMAIN part(n, G).ents = G
  BY Zenon
<1>3. ASSUME NEW n \in Nat \cup {Absent}, NEW G \in SUBSET DOMAIN e PROVE part(n, G) \in Files
  <2>1. [g \in G |-> e[g]] \in Ents
    BY <1>1, EntsFacts, Zenon
  <2> QED
    BY <1>1, <2>1, Zenon DEF Files
<1>4. CASE Create(Absent, {})
  <2>1. disk' = {f \in disk : f.seq # run.seq} \cup {part(Absent, {})}
    BY <1>4, Zenon DEF Create
  <2>2. ~sst_open(part(Absent, {}))
    BY <1>2, Zenon DEF sst_open
  <2> QED
    BY <1>2, <1>3, <2>1, <2>2, Zenon
<1>5. ASSUME NEW x \in DOMAIN e, Create(Cardinality(DOMAIN e), {g \in DOMAIN e : Before(g, x)})
      PROVE  \E h : /\ disk' = {f \in disk : f.seq # run.seq} \cup {h}
                    /\ h \in Files /\ h.seq = run.seq /\ ~sst_open(h)
  <2> DEFINE G == {g \in DOMAIN e : Before(g, x)}
             n == Cardinality(DOMAIN e)
  <2>1. disk' = {f \in disk : f.seq # run.seq} \cup {part(n, G)}
    BY <1>5, Zenon DEF Create
  <2>2. x[1] \in Nat /\ x[2] \in Nat
    <3>1. x \in Group
      BY <1>1, EntsFacts, Zenon
    <3>2. x \in Keys \X {0} \/ x \in Keys \X Vals
      BY <3>1, LsmAssumption, Zenon DEF Group
    <3>3. x[1] \in Keys /\ x[2] \in {0} \cup Vals
      BY <3>2, Zenon
    <3>4. Keys \subseteq Nat /\ Vals \subseteq Nat /\ 0 \in Nat
      BY LsmAssumption, Zenon
    <3> QED
      BY <3>3, <3>4, Zenon
  <2>3. ~Before(x, x)
    BY <2>2 DEF Before
  <2>4. G # DOMAIN e
    BY <2>3, Zenon
  <2>5. Cardinality(G) # n /\ n \in Nat
    BY <1>1, <2>4, EntsFacts, FS_Subset, FS_CardinalityType, Zenon
  <2>6. ~sst_open(part(n, G))
    BY <1>2, <2>5, Zenon DEF sst_open
  <2> HIDE DEF G, n
  <2>7. G \in SUBSET DOMAIN e
    BY Zenon DEF G
  <2> QED
    BY <1>2, <1>3, <2>1, <2>5, <2>6, <2>7, Zenon
<1> QED
  BY <1>4, <1>5, Zenon DEF WriteBegin

\* The whole file opens as the run.
LEMMA WholeFile ==
    ASSUME SInv, pc \notin {"idle", "clear"}, WriteEnd
    PROVE  \E h : /\ disk' = {f \in disk : f.seq # run.seq} \cup {h}
                  /\ h \in Files /\ h.seq = run.seq /\ sst_open(h) /\ Run(h) = run
<1> DEFINE e == run.ents
           h == [seq |-> run.seq, count |-> Cardinality(DOMAIN e),
                 ents |-> [g \in DOMAIN e |-> e[g]]]
<1>1. e \in Ents /\ run \in Runs /\ run.seq \in 1..MaxSeq
  BY Zenon DEF SInv, Types, Writing, Runs
<1>2. e = [g \in DOMAIN e |-> e[g]] /\ Cardinality(DOMAIN e) \in Nat
  BY <1>1, EntsFacts, FS_CardinalityType, Zenon
<1>3. disk' = {f \in disk : f.seq # run.seq} \cup {h}
  BY Zenon DEF WriteEnd, Create
<1>4. h = [seq |-> run.seq, count |-> Cardinality(DOMAIN e), ents |-> e]
  BY <1>2, Zenon
<1> HIDE DEF h
<1>5. h.seq = run.seq /\ h.ents = e /\ h.count = Cardinality(DOMAIN e)
  BY <1>4, Zenon
<1>6. h \in Files
  BY <1>1, <1>2, <1>4, Zenon DEF Files
<1>7. Run(h) = run
  BY <1>1, <1>5, Zenon DEF Run, Runs
<1>8. sst_open(h)
  BY <1>2, <1>5 DEF sst_open, Absent
<1> QED
  BY <1>3, <1>5, <1>6, <1>7, <1>8, Zenon

--------------------------------------------------------------------------------
(* The files and the list.                                                       *)

\* The conjuncts of the invariant, for citing.
LEMMA Parts ==
    ASSUME SInv
    PROVE  /\ multi \in BOOLEAN /\ up \in BOOLEAN
           /\ mem \in Ents /\ ssts \in Seq(Runs) /\ next_seq \in 1..(MaxSeq + 1)
           /\ disk \subseteq Files /\ run.ents \in Ents
           /\ pc \in {"idle", "clear"} \cup Flushing \cup Compacting
           /\ \A i \in DOMAIN ssts :
                 ssts[i] \in Runs /\ ssts[i].seq \in 1..MaxSeq /\ ssts[i].ents \in Ents
           /\ \A f \in disk : f.seq \in 1..MaxSeq /\ f.ents \in Ents
<1>1. \A i \in DOMAIN ssts : ssts[i] \in Runs
  BY DEF SInv, Types
<1>2. \A r \in Runs : r.seq \in 1..MaxSeq /\ r.ents \in Ents
  BY Zenon DEF Runs
<1>3. \A f \in Files : f.seq \in 1..MaxSeq /\ f.ents \in Ents
  BY Zenon DEF Files
<1> QED
  BY <1>1, <1>2, <1>3, Zenon DEF SInv, Types

\* What is found depends on the files alone.
LEMMA SameFound == ASSUME disk' = disk PROVE Found' = Found
BY Zenon DEF Found, Run, sst_open

\* A flush or a compaction begins: the list and the files stay, and the run gets a number.
LEMMA BeginStep ==
    ASSUME SInv, up, pc = "idle", next_seq <= MaxSeq, NEW e \in Ents, mem' \in Ents,
           pc' \in {"flush", "compact"}, run' = [seq |-> next_seq, ents |-> e],
           next_seq' = next_seq + 1,
           UNCHANGED <<multi, up, ssts, disk>>
    PROVE  SInv'
<1>0. multi' = multi /\ up' = up /\ ssts' = ssts /\ disk' = disk
  BY Zenon
<1>1. next_seq \in Nat \ {0} /\ MaxSeq \in Nat /\ next_seq \in 1..MaxSeq
  BY Parts, LsmAssumption
<1>2. run'.seq = next_seq /\ run'.ents = e
  BY Zenon
<1>3. run' \in Runs
  BY <1>1, Zenon DEF Runs
<1>4. next_seq' \in 1..(MaxSeq + 1) /\ run'.seq = next_seq' - 1 /\ next_seq < next_seq'
  BY <1>1, <1>2
<1>5. pc' \in {"idle", "clear"} \cup Flushing \cup Compacting
  BY Zenon DEF Flushing, Compacting
<1>6. Types'
  BY <1>0, <1>2, <1>4, <1>5, Parts, Zenon DEF Types
<1>7. \A i \in DOMAIN ssts : ssts[i].seq < next_seq /\ ssts[i].seq < next_seq'
  BY <1>1, <1>4, Parts DEF SInv, Numbered
<1>8. Numbered'
  BY <1>0, <1>7, Zenon DEF SInv, Numbered
<1>9. Closed'
  BY <1>0 DEF Closed
<1>10. Filed'
  BY <1>0, Zenon DEF SInv, Filed, OnDisk, sst_open, Run
<1>11. pc' \notin Whole
  BY Zenon DEF Whole
<1>12. Writing'
  BY <1>0, <1>2, <1>3, <1>4, <1>7, <1>11, Zenon DEF Writing
<1> QED
  BY <1>6, <1>8, <1>9, <1>10, <1>12, Zenon DEF SInv

\* A file with the number of the run is written, in part or whole.
LEMMA CreateStep ==
    ASSUME SInv, pc \in {"flush", "compact", "flush_write", "compact_write"},
           NEW h \in Files, h.seq = run.seq, disk' = {f \in disk : f.seq # run.seq} \cup {h},
           pc' \in Flushing \cup Compacting, pc' # "compact_unlink",
           pc' \in Whole => sst_open(h) /\ Run(h) = run,
           UNCHANGED <<multi, up, mem, ssts, next_seq, run>>
    PROVE  /\ SInv'
           /\ Found' = {r \in Found : r.seq # run.seq} \cup (IF sst_open(h) THEN {Run(h)} ELSE {})
<1>0. multi' = multi /\ up' = up /\ mem' = mem /\ ssts' = ssts /\ next_seq' = next_seq /\ run' = run
  BY Zenon
<1>1. pc \notin {"idle", "clear"} /\ pc \notin {"compact_unlink", "clear"}
  BY Zenon
<1>2. Found' = {r \in Found : r.seq # run.seq} \cup (IF sst_open(h) THEN {Run(h)} ELSE {})
  <2>1. Found' = {r \in Found : r.seq # run.seq} \cup {Run(f) : f \in {d \in {h} : sst_open(d)}}
    BY FoundStep, Zenon
  <2> QED
    BY <2>1, Zenon
<1>3. /\ run \in Runs /\ run.seq = next_seq - 1
      /\ \A i \in DOMAIN ssts : ssts[i].seq < run.seq /\ ssts[i].seq # run.seq
  BY <1>1, Parts DEF SInv, Writing, Runs
<1>4. disk' \subseteq Files
  BY Parts, Zenon
<1>5. Types'
  BY <1>0, <1>4, Parts, Zenon DEF Types
<1>6. \A f, d \in disk' : f.seq = d.seq => f = d
  BY Zenon DEF SInv, Numbered
<1>7. Numbered'
  BY <1>0, <1>6 DEF SInv, Numbered
<1>8. Closed'
  <2>1. up
    BY <1>1, Zenon DEF SInv, Closed
  <2> QED
    BY <1>0, <2>1, Zenon DEF Closed
<1>9. \A f \in disk' : \A i \in DOMAIN ssts : f.seq = ssts[i].seq => sst_open(f) /\ Run(f) = ssts[i]
  BY <1>3, Zenon DEF SInv, Filed
<1>10. \A i \in DOMAIN ssts : \E f \in disk' : f.seq = ssts[i].seq
  <2>1. \A i \in DOMAIN ssts : \E f \in disk : f.seq = ssts[i].seq
    BY <1>1, Zenon DEF SInv, Filed, OnDisk
  <2> QED
    BY <1>3, <2>1, Zenon
<1>11. Filed'
  BY <1>0, <1>9, <1>10 DEF Filed, OnDisk, sst_open, Run
<1>12. pc' \in Whole => run' \in Found'
  BY <1>0, <1>2, Zenon
<1>13. Writing'
  BY <1>0, <1>3, <1>12, Zenon DEF Writing
<1> QED
  BY <1>2, <1>5, <1>7, <1>8, <1>11, <1>13, Zenon DEF SInv

\* sst_write_file as far as a crash lets it come: the file does not open.
LEMMA WriteBeginStep ==
    ASSUME SInv, WriteBegin
    PROVE  SInv' /\ Found' = {r \in Found : r.seq # run.seq}
<1>1. /\ pc \in {"flush", "compact"} /\ pc' \in {"flush_write", "compact_write"}
      /\ UNCHANGED <<multi, up, mem, ssts, next_seq, run>>
  BY Zenon DEF WriteBegin
<1>2. pc \notin {"idle", "clear"} /\ pc \in {"flush", "compact", "flush_write", "compact_write"}
  BY <1>1, Zenon
<1>3. pc' \in Flushing \cup Compacting /\ pc' # "compact_unlink" /\ pc' \notin Whole
  BY <1>1, Zenon DEF Flushing, Compacting, Whole
<1>4. PICK h : /\ disk' = {f \in disk : f.seq # run.seq} \cup {h}
               /\ h \in Files /\ h.seq = run.seq /\ ~sst_open(h)
  BY <1>2, PartOfFile, Zenon
<1>5. SInv' /\ Found' = {r \in Found : r.seq # run.seq} \cup (IF sst_open(h) THEN {Run(h)} ELSE {})
  BY <1>1, <1>2, <1>3, <1>4, CreateStep, Zenon
<1> QED
  BY <1>4, <1>5, Zenon

\* The rest of the file: it opens as the run.
LEMMA WriteEndStep ==
    ASSUME SInv, WriteEnd
    PROVE  SInv' /\ Found' = {r \in Found : r.seq # run.seq} \cup {run}
<1>1. /\ pc \in {"flush_write", "compact_write"} /\ pc' \in {"flush_open", "compact_open"}
      /\ UNCHANGED <<multi, up, mem, ssts, next_seq, run>>
  BY Zenon DEF WriteEnd
<1>2. pc \notin {"idle", "clear"} /\ pc \in {"flush", "compact", "flush_write", "compact_write"}
  BY <1>1, Zenon
<1>3. pc' \in Flushing \cup Compacting /\ pc' # "compact_unlink"
  BY <1>1, Zenon DEF Flushing, Compacting
<1>4. PICK h : /\ disk' = {f \in disk : f.seq # run.seq} \cup {h}
               /\ h \in Files /\ h.seq = run.seq /\ sst_open(h) /\ Run(h) = run
  BY <1>2, WholeFile, Zenon
<1>5. SInv' /\ Found' = {r \in Found : r.seq # run.seq} \cup (IF sst_open(h) THEN {Run(h)} ELSE {})
  BY <1>1, <1>2, <1>3, <1>4, CreateStep, Zenon
<1> QED
  BY <1>4, <1>5, Zenon

\* A call gives up: what it has written stays, unread.
LEMMA FailStep ==
    ASSUME SInv, CallFails
    PROVE  SInv'
<1>0. /\ multi' = multi /\ up' = up /\ mem' = mem /\ ssts' = ssts /\ next_seq' = next_seq
      /\ disk' = disk /\ pc' = "idle" /\ run' = NoRun
      /\ pc \notin {"compact_unlink", "clear"}
  BY Zenon DEF CallFails
<1>1. run'.ents \in Ents
  BY <1>0, EntsFacts, Zenon DEF NoRun
<1>2. Types'
  BY <1>0, <1>1, Parts, Zenon DEF Types
<1>3. Numbered' /\ Filed'
  BY <1>0, Zenon DEF SInv, Numbered, Filed, OnDisk, sst_open, Run
<1>4. Closed'
  BY <1>0, Zenon DEF SInv, Closed
<1>5. Writing'
  BY <1>0, Zenon DEF Writing
<1> QED
  BY <1>2, <1>3, <1>4, <1>5, Zenon DEF SInv

\* A whole run has its file, and no other file has its number.
LEMMA RunFile ==
    ASSUME SInv, pc \in Whole
    PROVE  /\ up /\ run \in Runs /\ run.seq = next_seq - 1
           /\ \A i \in DOMAIN ssts : ssts[i].seq < run.seq /\ ssts[i].seq # run.seq
           /\ run \in Found /\ \E f \in disk : f.seq = run.seq
           /\ \A f \in disk : f.seq = run.seq => sst_open(f) /\ Run(f) = run
<1>1. pc \notin {"idle", "clear"}
  BY Zenon DEF Whole
<1>2. /\ run \in Runs /\ run.seq = next_seq - 1 /\ run \in Found
      /\ \A i \in DOMAIN ssts : ssts[i].seq < run.seq
  BY <1>1, Zenon DEF SInv, Writing
<1>3. \A i \in DOMAIN ssts : ssts[i].seq # run.seq
  BY <1>2, Parts DEF Runs
<1>4. PICK h \in disk : sst_open(h) /\ run = Run(h)
  BY <1>2, Zenon DEF Found
<1>5. h.seq = run.seq
  BY <1>4, Zenon DEF Run
<1>6. \A f \in disk : f.seq = run.seq => f = h
  BY <1>5, Zenon DEF SInv, Numbered
<1>7. up
  BY <1>1, Zenon DEF SInv, Closed
<1> QED
  BY <1>2, <1>3, <1>4, <1>5, <1>6, <1>7, Zenon

\* The flushed run is put at the end of the list.
LEMMA FlushEndStep ==
    ASSUME SInv, FlushEnd
    PROVE  SInv' /\ Listed' = Listed \cup {run}
<1>0. /\ multi' = multi /\ up' = up /\ next_seq' = next_seq /\ disk' = disk /\ mem' = NoEnts
      /\ pc = "flush_open" /\ pc' = "idle" /\ run' = NoRun /\ ssts' = Append(ssts, run)
  BY Zenon DEF FlushEnd
<1>1. pc \in Whole
  BY <1>0, Zenon DEF Whole
<1> DEFINE n == Len(ssts)
<1>2. n \in Nat /\ DOMAIN ssts = 1..n
  BY Parts
<1>3. /\ DOMAIN ssts' = DOMAIN ssts \cup {n + 1} /\ ssts' \in Seq(Runs)
      /\ \A i \in DOMAIN ssts : ssts'[i] = ssts[i] /\ i < n + 1 /\ ~(n + 1 < i) /\ i # n + 1
      /\ ssts'[n + 1] = run /\ ~(n + 1 < n + 1)
  <2>1. ssts \in Seq(Runs) /\ run \in Runs
    BY <1>1, Parts, RunFile, Zenon
  <2> QED
    BY <1>0, <1>2, <2>1
<1> HIDE DEF n
<1>4. Listed' = Listed \cup {run}
  <2>1. \A r : r \in Listed' <=> \E i \in DOMAIN ssts' : r = ssts'[i]
    BY Zenon DEF Listed, Range
  <2>2. \A r : r \in Listed <=> \E i \in DOMAIN ssts : r = ssts[i]
    BY Zenon DEF Listed, Range
  <2>3. \A r : r \in Listed' <=> r \in Listed \/ r = run
    BY <1>3, <2>1, <2>2, Zenon
  <2> QED
    BY <2>3, Zenon
<1>5. run'.ents \in Ents
  BY <1>0, EntsFacts, Zenon DEF NoRun
<1>6. Types'
  BY <1>0, <1>3, <1>5, EntsFacts, Parts, Zenon DEF Types
<1>7. run.seq < next_seq
  BY <1>1, RunFile, Parts
<1>8. /\ \A i \in DOMAIN ssts' : ssts'[i].seq < next_seq
      /\ \A i, j \in DOMAIN ssts' : i < j => ssts'[i].seq < ssts'[j].seq
  BY <1>1, <1>3, <1>7, RunFile, Zenon DEF SInv, Numbered
<1>9. Numbered'
  BY <1>0, <1>8, Zenon DEF SInv, Numbered
<1>10. up'
  BY <1>0, <1>1, RunFile, Zenon
<1>11. \A f \in disk : \A i \in DOMAIN ssts' :
            f.seq = ssts'[i].seq => sst_open(f) /\ Run(f) = ssts'[i]
  BY <1>1, <1>3, RunFile, Zenon DEF SInv, Filed
<1>12. \A i \in DOMAIN ssts' : \E f \in disk : f.seq = ssts'[i].seq
  <2>1. \A i \in DOMAIN ssts : \E f \in disk : f.seq = ssts[i].seq
    BY <1>0, Zenon DEF SInv, Filed, OnDisk
  <2> QED
    BY <1>1, <1>3, <2>1, RunFile, Zenon
<1>13. Filed'
  BY <1>0, <1>11, <1>12, Zenon DEF Filed, OnDisk, sst_open, Run
<1>14. Closed' /\ Writing'
  BY <1>0, <1>10, Zenon DEF Closed, Writing
<1> QED
  BY <1>4, <1>6, <1>9, <1>13, <1>14, Zenon DEF SInv

\* One of the files of the list is removed.
LEMMA UnlinkStep ==
    ASSUME SInv, up, NEW i \in DOMAIN ssts, disk' = {f \in disk : f.seq # ssts[i].seq},
           \/ pc \in {"compact_open", "compact_unlink"} /\ pc' = "compact_unlink"
           \/ pc \in {"idle", "clear"} /\ pc' = "clear",
           UNCHANGED <<multi, up, mem, ssts, next_seq, run>>
    PROVE  SInv' /\ Found' = {r \in Found : r.seq # ssts[i].seq}
<1>0. multi' = multi /\ up' = up /\ mem' = mem /\ ssts' = ssts /\ next_seq' = next_seq /\ run' = run
  BY Zenon
<1>1. pc' \in {"compact_unlink", "clear"} /\ pc' \in {"idle", "clear"} \cup Flushing \cup Compacting
  BY Zenon DEF Compacting
<1>2. Found' = {r \in Found : r.seq # ssts[i].seq}
  <2>1. Found' = {r \in Found : r.seq # ssts[i].seq} \cup {Run(f) : f \in {d \in {} : sst_open(d)}}
    BY FoundStep, Zenon
  <2> QED
    BY <2>1, Zenon
<1>3. disk' \in SUBSET disk
  BY Zenon
<1>4. disk' \subseteq Files
  BY <1>3, Parts, Zenon
<1>5. Types'
  BY <1>0, <1>1, <1>4, Parts, Zenon DEF Types
<1>6. Numbered'
  BY <1>0, <1>3, Zenon DEF SInv, Numbered
<1>7. Closed'
  BY <1>0 DEF Closed
<1>8. Filed'
  BY <1>0, <1>1, <1>3 DEF SInv, Filed, sst_open, Run
<1>9. Writing'
  <2>1. CASE pc' = "clear"
    BY <2>1, Zenon DEF Writing
  <2>2. CASE pc \in {"compact_open", "compact_unlink"}
    <3>1. pc \in Whole
      BY <2>2, Zenon DEF Whole
    <3>2. run \in Found'
      BY <1>2, <3>1, RunFile, Zenon
    <3> QED
      BY <1>0, <3>1, <3>2, RunFile, Zenon DEF Writing
  <2> QED
    BY <2>1, <2>2, Zenon
<1> QED
  BY <1>2, <1>5, <1>6, <1>7, <1>8, <1>9, Zenon DEF SInv

\* The compacted run takes the place of the list.
LEMMA CompactEndStep ==
    ASSUME SInv, CompactEnd
    PROVE  SInv' /\ Listed' = {run}
<1>0. /\ multi' = multi /\ up' = up /\ mem' = mem /\ next_seq' = next_seq /\ disk' = disk
      /\ pc = "compact_unlink" /\ pc' = "idle" /\ run' = NoRun /\ ssts' = <<run>>
  BY Zenon DEF CompactEnd
<1>1. pc \in Whole
  BY <1>0, Zenon DEF Whole
<1>2. DOMAIN ssts' = {1} /\ ssts'[1] = run /\ ssts' \in Seq(Runs) /\ ~(1 < 1)
  BY <1>0, <1>1, RunFile
<1>3. Listed' = {run}
  <2>1. \A r : r \in Listed' <=> \E i \in DOMAIN ssts' : r = ssts'[i]
    BY Zenon DEF Listed, Range
  <2> QED
    BY <1>2, <2>1, Zenon
<1>4. run'.ents \in Ents
  BY <1>0, EntsFacts, Zenon DEF NoRun
<1>5. Types'
  BY <1>0, <1>2, <1>4, Parts, Zenon DEF Types
<1>6. run.seq < next_seq
  BY <1>1, RunFile, Parts
<1>7. Numbered'
  BY <1>0, <1>2, <1>6, Zenon DEF SInv, Numbered
<1>8. up'
  BY <1>0, <1>1, RunFile, Zenon
<1>9. Filed'
  <2>1. \A f \in disk : \A i \in DOMAIN ssts' :
            f.seq = ssts'[i].seq => sst_open(f) /\ Run(f) = ssts'[i]
    BY <1>1, <1>2, RunFile, Zenon
  <2>2. \A i \in DOMAIN ssts' : \E f \in disk : f.seq = ssts'[i].seq
    BY <1>1, <1>2, RunFile, Zenon
  <2> QED
    BY <1>0, <2>1, <2>2, Zenon DEF Filed, OnDisk, sst_open, Run
<1>10. Closed' /\ Writing'
  BY <1>0, <1>8, Zenon DEF Closed, Writing
<1> QED
  BY <1>3, <1>5, <1>7, <1>9, <1>10, Zenon DEF SInv

\* lsm_clear and lsm_close leave no list; a clear ends with the engine open.
LEMMA EmptyStep ==
    ASSUME SInv, multi' = multi, disk' = disk, up' \in BOOLEAN, next_seq' \in 1..(MaxSeq + 1),
           mem' = NoEnts, ssts' = <<>>, pc' = "idle", run'.ents \in Ents
    PROVE  SInv' /\ Listed' = {}
<1>1. DOMAIN ssts' = {} /\ ssts' \in Seq(Runs)
  OBVIOUS
<1>2. Listed' = {}
  BY <1>1, Zenon DEF Listed, Range
<1>3. pc' \in {"idle", "clear"} \cup Flushing \cup Compacting
  BY Zenon
<1>4. Types'
  BY <1>1, <1>3, EntsFacts, Parts, Zenon DEF Types
<1>5. Numbered' /\ Filed'
  BY <1>1, Zenon DEF SInv, Numbered, Filed
<1>6. Closed' /\ Writing'
  BY Zenon DEF Closed, Writing
<1> QED
  BY <1>2, <1>4, <1>5, <1>6, Zenon DEF SInv

\* lsm_open_multi lists what it finds and continues the numbers.
LEMMA OpenStep ==
    ASSUME SInv, lsm_open_multi
    PROVE  SInv' /\ Listed' = Found
<1>0. /\ multi' = multi /\ disk' = disk /\ mem' = mem /\ pc' = pc /\ run' = run
      /\ ~up /\ up' = TRUE
      /\ next_seq' = 1 + Max({0} \cup {r.seq : r \in Found})
      /\ ssts' \in [1..Cardinality(Found) -> Found]
      /\ \A r \in Found : \E i \in DOMAIN ssts' : ssts'[i] = r
      /\ \A i, j \in DOMAIN ssts' : i < j => ssts'[i].seq < ssts'[j].seq
  BY Zenon DEF lsm_open_multi, Lists
<1>1. pc = "idle"
  BY <1>0, Zenon DEF SInv, Closed
<1>2. /\ \A r \in Found : r \in Runs /\ r.seq \in 1..MaxSeq
      /\ RunSet(Found)
  BY FoundRuns, Zenon DEF SInv, Types, Numbered
<1>3. IsFiniteSet(Found)
  <2> DEFINE num == [r \in Found |-> r.seq]
  <2>1. num \in [Found -> 1..MaxSeq] /\ \A r, q \in Found : num[r] = num[q] => r = q
    BY <1>2, Zenon DEF RunSet
  <2>2. num \in Injection(Found, 1..MaxSeq)
    BY <2>1, Zenon DEF Injection, IsInjective
  <2>3. IsFiniteSet(1..MaxSeq)
    BY FS_Interval, LsmAssumption
  <2> QED
    BY <2>2, <2>3, FS_Injection, Zenon
<1>4. ssts' \in Seq(Runs)
  <2>1. Cardinality(Found) \in Nat
    BY <1>3, FS_CardinalityType, Zenon
  <2>2. ssts' \in [1..Cardinality(Found) -> Runs]
    BY <1>0, <1>2, Zenon
  <2> QED
    BY <2>1, <2>2
<1>5. \A i \in DOMAIN ssts' : ssts'[i] \in Found
  BY <1>0, Zenon
<1>6. Listed' = Found
  <2>1. \A r : r \in Listed' <=> \E i \in DOMAIN ssts' : r = ssts'[i]
    BY Zenon DEF Listed, Range
  <2>2. Listed' \subseteq Found
    BY <1>5, <2>1, Zenon
  <2>3. \A r \in Found : \E i \in DOMAIN ssts' : ssts'[i] = r
    BY <1>0, Zenon
  <2>4. Found \subseteq Listed'
    BY <2>1, <2>3, Zenon
  <2> QED
    BY <2>2, <2>4, Zenon
<1>7. next_seq' \in 1..(MaxSeq + 1) /\ \A r \in Found : r.seq < next_seq'
  <2> DEFINE S == {0} \cup {r.seq : r \in Found}
             m == Max(S)
  <2>1. S \in SUBSET Nat /\ S # {} /\ \A x \in S : x <= MaxSeq
    BY <1>2, LsmAssumption
  <2>2. m \in S /\ \A y \in S : y <= m
    BY <2>1, MaxIs, LsmAssumption, Zenon
  <2>3. \A r \in Found : r.seq \in S
    BY Zenon
  <2>4. next_seq' = 1 + m
    BY <1>0, Zenon
  <2> HIDE DEF S, m
  <2>5. m \in Nat /\ m <= MaxSeq
    BY <2>1, <2>2, Zenon
  <2>6. \A r \in Found : r.seq <= m /\ r.seq \in Nat
    BY <2>1, <2>2, <2>3, Zenon
  <2> QED
    BY <2>4, <2>5, <2>6, LsmAssumption
<1>8. Types'
  BY <1>0, <1>4, <1>7, Parts, Zenon DEF Types
<1>9. Numbered'
  BY <1>0, <1>5, <1>7, Zenon DEF SInv, Numbered
<1>10. \A r \in Found : \E h \in disk : sst_open(h) /\ Run(h) = r /\ h.seq = r.seq
  <2>1. \A h : Run(h).seq = h.seq
    BY Zenon DEF Run
  <2> QED
    BY <2>1, Zenon DEF Found
<1>11. \A f \in disk : \A r \in Found : f.seq = r.seq => sst_open(f) /\ Run(f) = r
  BY <1>10, Zenon DEF SInv, Numbered
<1>12. Filed'
  BY <1>0, <1>5, <1>10, <1>11, Zenon DEF Filed, OnDisk, sst_open, Run
<1>13. Closed' /\ Writing'
  BY <1>0, <1>1, Zenon DEF Closed, Writing
<1> QED
  BY <1>6, <1>8, <1>9, <1>12, <1>13, Zenon DEF SInv

\* What the runs say of g is a value, a deletion or nothing.
LEMMA MergedType ==
    ASSUME NEW R, RunSet(R), \A r \in R : r \in Runs, NEW g
    PROVE  Merged(R, g) \in Vals \cup {Tomb, Absent}
<1>1. CASE \E q \in R : g \in DOMAIN q.ents
  <2>1. PICK r : Top(R, g, r)
    BY <1>1, TopExists, Zenon
  <2>2. r.ents \in Ents /\ g \in DOMAIN r.ents
    BY <2>1, Zenon DEF Top, Runs
  <2>3. r.ents[g] \in Vals \cup {Tomb}
    BY <2>2, EntsFacts, Zenon
  <2> QED
    BY <2>1, <2>3, MergedTop, Zenon
<1>2. CASE ~\E q \in R : g \in DOMAIN q.ents
  BY <1>2, MergedNone, Zenon
<1> QED
  BY <1>1, <1>2, Zenon

\* lsm_put and lsm_delete, with the flush they may begin.
LEMMA PutStep ==
    ASSUME SInv, NEW g \in Group, NEW v \in Vals \cup {Tomb}, Put(g, v)
    PROVE  SInv'
<1>0. /\ up /\ pc = "idle" /\ next_seq <= MaxSeq /\ mem' = Upsert(mem, g, v)
      /\ multi' = multi /\ up' = up /\ ssts' = ssts /\ disk' = disk
  BY Zenon DEF Put
<1>1. mem' \in Ents
  BY <1>0, EntsFacts, Parts, Zenon
<1>2. CASE StartFlush(mem')
  <2>1. pc' = "flush" /\ run' = [seq |-> next_seq, ents |-> mem'] /\ next_seq' = next_seq + 1
    BY <1>2, Zenon DEF StartFlush
  <2>2. UNCHANGED <<multi, up, ssts, disk>> /\ pc' \in {"flush", "compact"}
    BY <1>0, <2>1, Zenon
  <2> QED
    BY <1>0, <1>1, <2>1, <2>2, BeginStep, Zenon
<1>3. CASE UNCHANGED <<pc, run, next_seq>>
  <2>1. pc' = pc /\ run' = run /\ next_seq' = next_seq
    BY <1>3, Zenon
  <2>2. Types'
    BY <1>0, <1>1, <2>1, Parts, Zenon DEF Types
  <2>3. Numbered' /\ Filed'
    BY <1>0, <2>1, Zenon DEF SInv, Numbered, Filed, OnDisk, sst_open, Run
  <2>4. Closed' /\ Writing'
    BY <1>0, <2>1, Zenon DEF Closed, Writing
  <2> QED
    BY <2>2, <2>3, <2>4, Zenon DEF SInv
<1> QED
  BY <1>2, <1>3, Zenon DEF Put

\* The pairs that are written have groups.
LEMMA GroupOf ==
    ASSUME multi \in BOOLEAN, NEW p \in Pairs[multi]
    PROVE  group(p[1], p[2]) \in Group /\ p[2] \in Vals
<1>1. p \in Keys \X Vals
  BY LsmAssumption, Zenon
<1>2. p[1] \in Keys /\ p[2] \in Vals /\ p = <<p[1], p[2]>>
  BY <1>1
<1>3. CASE multi
  <2>1. multi = TRUE
    BY <1>3, Zenon
  <2> QED
    BY <1>2, <2>1, Zenon DEF group, Group
<1>4. CASE ~multi
  <2>1. <<p[1], 0>> \in Keys \X {0}
    BY <1>2, Zenon
  <2> QED
    BY <1>2, <1>4, <2>1, Zenon DEF group, Group
<1> QED
  BY <1>3, <1>4, Zenon

\* lsm_compact begins: the merged run has one live entry per group.
LEMMA CompactStep ==
    ASSUME SInv, lsm_compact
    PROVE  /\ SInv' /\ Listed' = Listed /\ mem' = mem /\ disk' = disk /\ pc' = "compact" /\ up'
           /\ \A g \in Group :
                 (IF g \in DOMAIN run'.ents THEN Live(run'.ents[g]) ELSE Absent) = Val(Listed, g)
<1> DEFINE live == {g \in Group : Merged(Listed, g) \notin {Absent, Tomb}}
           e == [g \in live |-> Merged(Listed, g)]
<1>0. /\ up /\ pc = "idle" /\ next_seq <= MaxSeq /\ next_seq' = next_seq + 1 /\ pc' = "compact"
      /\ multi' = multi /\ up' = up /\ mem' = mem /\ ssts' = ssts /\ disk' = disk
      /\ run' = [seq |-> next_seq, ents |-> e]
  BY Zenon DEF lsm_compact, Listed
<1>1. e \in Ents
  <2>1. \A g \in live : Merged(Listed, g) \in Vals \cup {Tomb}
    BY ListRuns, MergedType, Zenon
  <2>2. e \in [live -> Vals \cup {Tomb}]
    BY <2>1, Zenon
  <2>3. live \in SUBSET Group
    BY Zenon
  <2> QED
    BY <2>2, <2>3, Zenon DEF Ents
<1>2. run'.ents = e
  BY <1>0, Zenon
<1>3. \A g \in Group : (IF g \in live THEN Live(Merged(Listed, g)) ELSE Absent) = Val(Listed, g)
  BY Zenon DEF Val, Live
<1>4. DOMAIN e = live /\ \A g \in live : e[g] = Merged(Listed, g)
  BY Zenon
<1> HIDE DEF e
<1>5. mem' \in Ents /\ pc' \in {"flush", "compact"} /\ UNCHANGED <<multi, up, ssts, disk>>
  BY <1>0, Parts, Zenon
<1>6. SInv'
  BY <1>0, <1>1, <1>5, BeginStep, Zenon
<1>7. Listed' = Listed
  BY <1>0, Zenon DEF Listed, Range
<1> QED
  BY <1>0, <1>2, <1>3, <1>4, <1>6, <1>7, Zenon

\* UnlinkNext in a compaction or a clear.
LEMMA UnlinkNextStep ==
    ASSUME SInv, up, UnlinkNext,
           \/ pc \in {"compact_open", "compact_unlink"} /\ pc' = "compact_unlink"
           \/ pc \in {"idle", "clear"} /\ pc' = "clear",
           UNCHANGED <<multi, up, mem, ssts, next_seq, run>>
    PROVE  SInv'
<1>1. PICK i \in DOMAIN ssts : disk' = {f \in disk : f.seq # ssts[i].seq}
  BY Zenon DEF UnlinkNext
<1> QED
  BY <1>1, UnlinkStep, Zenon

\* Every step keeps the files and the list in order.
LEMMA SInvStep ==
    ASSUME SInv, [Next]_vars
    PROVE  SInv'
<1>1. ASSUME NEW p \in Pairs[multi], lsm_put(p[1], p[2]) \/ lsm_delete(p[1], p[2]) PROVE SInv'
  <2>1. group(p[1], p[2]) \in Group /\ p[2] \in Vals
    BY GroupOf, Parts, Zenon
  <2> QED
    BY <1>1, <2>1, PutStep, Zenon DEF lsm_put, lsm_delete
<1>2. CASE lsm_flush
  <2>1. /\ up /\ pc = "idle" /\ next_seq <= MaxSeq /\ pc' \in {"flush", "compact"}
        /\ run' = [seq |-> next_seq, ents |-> mem] /\ next_seq' = next_seq + 1
        /\ UNCHANGED <<multi, up, ssts, disk>> /\ mem' = mem
    BY <1>2, Zenon DEF lsm_flush, StartFlush
  <2> QED
    BY <2>1, Parts, BeginStep, Zenon
<1>3. CASE \/ WriteBegin \/ WriteEnd \/ CallFails \/ FlushEnd
           \/ lsm_compact \/ CompactEnd \/ lsm_open_multi
  BY <1>3, WriteBeginStep, WriteEndStep, FailStep, FlushEndStep, CompactStep, CompactEndStep,
     OpenStep, Zenon
<1>4. CASE CompactUnlink
  <2>1. /\ pc \in {"compact_open", "compact_unlink"} /\ pc' = "compact_unlink" /\ UnlinkNext
        /\ UNCHANGED <<multi, up, mem, ssts, next_seq, run>>
    BY <1>4, Zenon DEF CompactUnlink
  <2>2. pc \in Whole
    BY <2>1, Zenon DEF Whole
  <2> QED
    BY <2>1, <2>2, RunFile, UnlinkNextStep, Zenon
<1>5. CASE lsm_clear
  <2>1. CASE UnlinkNext /\ pc' = "clear" /\ UNCHANGED <<mem, ssts>>
    <3>1. up /\ pc \in {"idle", "clear"} /\ UNCHANGED <<multi, up, mem, ssts, next_seq, run>>
      BY <1>5, <2>1, Zenon DEF lsm_clear
    <3> QED
      BY <2>1, <3>1, UnlinkNextStep, Zenon
  <2>2. CASE pc' = "idle" /\ ssts' = <<>> /\ mem' = NoEnts /\ UNCHANGED disk
    <3>1. multi' = multi /\ up' = up /\ next_seq' = next_seq /\ run' = run
      BY <1>5, Zenon DEF lsm_clear
    <3>2. up' \in BOOLEAN /\ next_seq' \in 1..(MaxSeq + 1) /\ run'.ents \in Ents
      BY <3>1, Parts, Zenon
    <3> QED
      BY <2>2, <3>1, <3>2, EmptyStep, Zenon
  <2> QED
    BY <1>5, <2>1, <2>2, Zenon DEF lsm_clear
<1>6. CASE lsm_close
  <2>1. /\ multi' = multi /\ disk' = disk /\ up' = FALSE /\ mem' = NoEnts /\ ssts' = <<>>
        /\ next_seq' = 1 /\ pc' = "idle" /\ run' = NoRun
    BY <1>6, Zenon DEF lsm_close
  <2>2. up' \in BOOLEAN /\ next_seq' \in 1..(MaxSeq + 1) /\ run'.ents \in Ents
    <3>1. NoRun.ents = NoEnts
      BY Zenon DEF NoRun
    <3>2. 1 \in 1..(MaxSeq + 1)
      BY LsmAssumption
    <3> QED
      BY <2>1, <3>1, <3>2, EntsFacts, Zenon
  <2> QED
    BY <2>1, <2>2, EmptyStep, Zenon
<1>7. CASE UNCHANGED vars
  <2>1. /\ multi' = multi /\ up' = up /\ mem' = mem /\ ssts' = ssts /\ next_seq' = next_seq
        /\ disk' = disk /\ pc' = pc /\ run' = run
    BY <1>7, Zenon DEF vars
  <2>2. Found' = Found
    BY <2>1, SameFound, Zenon
  <2> QED
    BY <2>1, <2>2, Zenon DEF SInv, Types, Numbered, Closed, Filed, Writing, OnDisk, sst_open, Run
<1> QED
  BY <1>1, <1>2, <1>3, <1>4, <1>5, <1>6, <1>7, Zenon DEF Next

\* An engine that was just created satisfies the invariant.
LEMMA SInvInit == Init => SInv
<1> SUFFICES ASSUME Init PROVE SInv
  BY Zenon
<1>0. /\ multi \in BOOLEAN /\ up = TRUE /\ mem = NoEnts /\ ssts = <<>> /\ next_seq = 1
      /\ disk = {} /\ pc = "idle" /\ run = NoRun
  BY Zenon DEF Init
<1>1. DOMAIN ssts = {} /\ ssts \in Seq(Runs)
  BY <1>0
<1>2. run.ents \in Ents /\ next_seq \in 1..(MaxSeq + 1) /\ up \in BOOLEAN
  BY <1>0, EntsFacts, LsmAssumption DEF NoRun
<1>3. Types
  BY <1>0, <1>1, <1>2, EntsFacts, Zenon DEF Types
<1>4. Numbered /\ Filed
  BY <1>0, <1>1, Zenon DEF Numbered, Filed
<1>5. Closed /\ Writing
  BY <1>0, Zenon DEF Closed, Writing
<1> QED
  BY <1>3, <1>4, <1>5, Zenon DEF SInv

\* The files and the list are in order in every reachable state, whatever calls fail.
THEOREM FilesInvariance == Spec => []SInv
BY SInvInit, SInvStep, PTL DEF Spec

\* Variables keep their types, and a listed run has its file and a number below the next.
THEOREM TypeCorrect == Spec => []TypeOK
<1>1. SInv => TypeOK
  <2> SUFFICES ASSUME SInv PROVE TypeOK
    BY Zenon
  <2>1. \A i \in DOMAIN ssts : ssts[i].seq \in 1..(next_seq - 1)
    BY Parts DEF SInv, Numbered
  <2> QED
    BY <2>1, Parts, Zenon DEF TypeOK, SInv, Numbered, Filed
<1> QED
  BY <1>1, FilesInvariance, PTL

\* Point lookups (lsm_get) and scans (lsm_scan, lsm_find_all) return the same, in every
\* reachable state and whatever calls fail.
THEOREM LookupsAgree == Spec => []ReadsAgree
<1>1. SInv => ReadsAgree
  BY ScanReads, GetReads, Zenon DEF ReadsAgree
<1> QED
  BY <1>1, FilesInvariance, PTL

--------------------------------------------------------------------------------
(* What the directory holds.                                                     *)

\* A listed run is found exactly when it has its file.
LEMMA ListedFound ==
    ASSUME SInv
    PROVE  \A i \in DOMAIN ssts : OnDisk(i) <=> ssts[i] \in Found
<1> SUFFICES ASSUME NEW i \in DOMAIN ssts PROVE OnDisk(i) <=> ssts[i] \in Found
  BY Zenon
<1>1. ASSUME OnDisk(i) PROVE ssts[i] \in Found
  <2>1. PICK f \in disk : f.seq = ssts[i].seq
    BY <1>1, Zenon DEF OnDisk
  <2>2. sst_open(f) /\ Run(f) = ssts[i]
    BY <2>1, Zenon DEF SInv, Filed
  <2> QED
    BY <2>1, <2>2, Zenon DEF Found
<1>2. ASSUME ssts[i] \in Found PROVE OnDisk(i)
  <2>1. PICK f \in disk : Run(f) = ssts[i]
    BY <1>2, Zenon DEF Found
  <2>2. f.seq = ssts[i].seq
    BY <2>1 DEF Run
  <2> QED
    BY <2>1, <2>2, Zenon DEF OnDisk
<1> QED
  BY <1>1, <1>2, Zenon

\* Between calls the directory holds the list, and a whole run besides.
LEMMA FoundIs ==
    ASSUME SInv, Directory, up
    PROVE  /\ pc \notin Whole \cup {"clear"} => Found = Listed
           /\ pc \in {"flush_open", "compact_open"} => Found = Listed \cup {run}
<1>1. pc \notin {"compact_unlink", "clear"} => Listed \subseteq Found
  BY ListedFound, Zenon DEF SInv, Filed, Listed, Range
<1>2. CASE pc \notin Whole \cup {"clear"}
  BY <1>1, <1>2, Zenon DEF Directory, Whole
<1>3. CASE pc \in {"flush_open", "compact_open"}
  <2>1. pc \in Whole /\ pc \notin {"compact_unlink", "clear"}
    BY <1>3, Zenon DEF Whole
  <2>2. run \in Found
    BY <2>1, RunFile, Zenon
  <2> QED
    BY <1>1, <2>1, <2>2, Zenon DEF Directory
<1> QED
  BY <1>2, <1>3, Zenon

\* The new run decides for the listed ones and itself.
LEMMA WholeRun ==
    ASSUME SInv, pc \notin {"idle", "clear"}, NEW U \in SUBSET Listed, NEW g
    PROVE  Val(U \cup {run}, g) = IF g \in DOMAIN run.ents THEN Live(run.ents[g]) ELSE Val(U, g)
<1>1. run \in Runs /\ \A i \in DOMAIN ssts : ssts[i].seq < run.seq
  BY Zenon DEF SInv, Writing
<1>2. \A r \in U : r.seq < run.seq
  BY <1>1, Zenon DEF Listed, Range
<1>3. run.seq \in 0..(MaxSeq + 1)
  BY <1>1, LsmAssumption DEF Runs
<1>4. \A r \in U : r.seq \in 0..(MaxSeq + 1) /\ r.seq # run.seq
  BY <1>2, <1>3, ListRuns DEF RunSet
<1>5. RunSet(U \cup {run})
  BY <1>3, <1>4, ListRuns, Zenon DEF RunSet
<1>6. Merged(U \cup {run}, g) = IF g \in DOMAIN run.ents THEN run.ents[g] ELSE Merged(U, g)
  BY <1>2, <1>5, AddTop, Zenon
<1> QED
  BY <1>6, Zenon DEF Val

\* While a compaction removes its inputs, the directory still says what they said
\* together: the oldest go first, so that no deleted key comes back.
LEMMA CompactedFound ==
    ASSUME IInv, pc \in {"compact_open", "compact_unlink"}, NEW g \in Group
    PROVE  Val(Found, g) = Val(Listed, g)
<1>0. SInv /\ Directory /\ OldestFirst /\ Content
  BY Zenon DEF IInv
<1>1. pc \in Whole /\ pc \in Compacting /\ pc \notin {"idle", "clear"}
  BY Zenon DEF Whole, Compacting
<1>2. /\ up /\ run \in Found
      /\ \A i \in DOMAIN ssts : ssts[i].seq # run.seq
  BY <1>0, <1>1, RunFile, Zenon
<1> DEFINE U == Found \ {run}
<1>3. U \in SUBSET Listed /\ Found = U \cup {run}
  BY <1>0, <1>1, <1>2, Zenon DEF Directory
<1>4. ASSUME NEW r \in U, NEW q \in Listed, r.seq < q.seq PROVE q \in U
  <2>1. PICK i \in DOMAIN ssts : r = ssts[i]
    BY <1>3, Zenon DEF Listed, Range
  <2>2. PICK j \in DOMAIN ssts : q = ssts[j]
    BY Zenon DEF Listed, Range
  <2>3. i \in Nat /\ j \in Nat
    BY <1>0, Parts
  <2>4. r.seq \in Nat /\ q.seq \in Nat
    BY <1>0, <2>1, <2>2, Parts
  <2>5. j < i => q.seq < r.seq
    BY <1>0, <2>1, <2>2, Zenon DEF SInv, Numbered
  <2>6. i < j
    BY <1>4, <2>1, <2>2, <2>3, <2>4, <2>5
  <2>7. q \in Found
    BY <1>0, <2>1, <2>2, <2>6, ListedFound, Zenon DEF OldestFirst
  <2> QED
    BY <1>2, <2>2, <2>7, Zenon
<1>5. Merged(U, g) \in {Merged(Listed, g), Absent}
  BY <1>0, <1>3, <1>4, ListRuns, DropOldest, Zenon
<1>6. Val(Found, g) = IF g \in DOMAIN run.ents THEN Live(run.ents[g]) ELSE Val(U, g)
  BY <1>0, <1>1, <1>3, WholeRun, Zenon
<1>7. (IF g \in DOMAIN run.ents THEN Live(run.ents[g]) ELSE Absent) = Val(Listed, g)
  BY <1>0, <1>1, Zenon DEF Content
<1>8. Live(Absent) = Absent
  BY Zenon DEF Live
<1> QED
  BY <1>5, <1>6, <1>7, <1>8, Zenon DEF Val

--------------------------------------------------------------------------------
(* The map.                                                                      *)

\* The two maps of LsmMap in terms of the runs.
Readings ==
    /\ Shown = [g \in Group |-> IF up THEN Read(g) ELSE Val(Found, g)]
    /\ Reopened = [g \in Group |-> Val(Found, g)]
    /\ \A g \in Group : Val(Found, g) \in Vals \cup {Absent}
    /\ pc \in {"compact_open", "compact_unlink"} /\ IInv =>
          \A g \in Group : Val(Found, g) = Val(Listed, g)

\* Shown and Reopened, in terms of the newest entry of each group.
LEMMA ReadingsHold == SInv => Readings
<1> SUFFICES ASSUME SInv PROVE Readings
  BY Zenon
<1>1. Reopened = [g \in Group |-> Val(Found, g)]
  BY Zenon DEF Reopened, Val, Live
<1>2. Shown = [g \in Group |-> IF up THEN Read(g) ELSE Val(Found, g)]
  <2>1. CASE up
    <3>1. Shown = [g \in Group |-> IF g \in DOMAIN lsm_scan THEN lsm_scan[g] ELSE Absent]
      BY <2>1, Zenon DEF Shown
    <3>2. \A g \in Group : (IF g \in DOMAIN lsm_scan THEN lsm_scan[g] ELSE Absent) = Read(g)
      BY ScanReads, Zenon
    <3> QED
      BY <2>1, <3>1, <3>2, Zenon
  <2>2. CASE ~up
    <3>1. Shown = Reopened
      BY <2>2, Zenon DEF Shown
    <3> QED
      BY <1>1, <2>2, <3>1, Zenon
  <2> QED
    BY <2>1, <2>2, Zenon
<1>3. ASSUME NEW g \in Group PROVE Val(Found, g) \in Vals \cup {Absent}
  <2>1. Merged(Found, g) \in Vals \cup {Tomb, Absent}
    BY FoundRuns, MergedType, Zenon DEF SInv, Types, Numbered
  <2> QED
    BY <2>1, Zenon DEF Val, Live
<1> QED
  BY <1>1, <1>2, <1>3, CompactedFound, Zenon DEF Readings

\* The same after a step.
LEMMA ReadingsNext == SInv' => Readings'
BY ReadingsHold, PTL

\* A step that changes neither what is read nor what is found.
LEMMA Stutter ==
    ASSUME Readings, Readings', up' = up,
           \A g \in Group : (up => Read(g)' = Read(g)) /\ Val(Found', g) = Val(Found, g)
    PROVE  Shown' = Shown /\ Reopened' = Reopened
<1>1. /\ Shown = [g \in Group |-> IF up THEN Read(g) ELSE Val(Found, g)]
      /\ Reopened = [g \in Group |-> Val(Found, g)]
  BY Zenon DEF Readings
<1>2. /\ Shown' = [g \in Group |-> IF up' THEN Read(g)' ELSE Val(Found', g)]
      /\ Reopened' = [g \in Group |-> Val(Found', g)]
  BY Zenon DEF Readings, Val
<1> QED
  BY <1>1, <1>2, Zenon

\* What a step must keep, and the step of LsmMap that it is.
Mapped == Promise!Next \/ UNCHANGED <<Shown, Reopened, up, Call>>
Refines == Directory' /\ OldestFirst' /\ Content' /\ Mapped

\* The call goes on, or one begins or ends that need not change a map.
Quiet == \/ Call' = Call
         \/ Call = "idle" /\ Call' \in {"flush", "compact"}
         \/ Call \in {"flush", "compact"} /\ Call' = "idle"

\* A step of an open engine that changes no map is a step of LsmMap or none.
LEMMA QuietStep ==
    ASSUME up, up' = up, Shown' = Shown, Reopened' = Reopened, Quiet
    PROVE  Mapped
BY Zenon DEF Mapped, Quiet, Promise!Next, Promise!Begin, Promise!End

\* As long as every listed run has its file, none was removed too early.
LEMMA AllFiled ==
    ASSUME SInv', pc' \notin {"compact_unlink", "clear"}
    PROVE  OldestFirst'
BY Zenon DEF SInv, Filed, OldestFirst

\* A write changes the entry of its group, in the memtable only.
LEMMA PutMaps ==
    ASSUME IInv, SInv', Readings, Readings', NEW g \in Group, NEW v \in Vals \cup {Tomb}, Put(g, v)
    PROVE  Refines
<1>0. /\ SInv /\ up /\ pc = "idle" /\ mem' = Upsert(mem, g, v)
      /\ up' = up /\ ssts' = ssts /\ disk' = disk
  BY Zenon DEF Put, IInv
<1>1. \/ pc' = "flush" /\ run' = [seq |-> next_seq, ents |-> mem']
      \/ pc' = "idle"
  BY <1>0, Zenon DEF Put, StartFlush
<1>2. Listed' = Listed /\ Found' = Found
  BY <1>0, SameFound, Zenon DEF Listed, Range
<1>3. pc \notin Whole \cup {"clear"} /\ pc' \notin Whole /\ pc' \notin Compacting
      /\ pc' \notin {"compact_unlink", "clear"}
  BY <1>0, <1>1, Zenon DEF Whole, Compacting
<1>4. Found = Listed
  BY <1>0, <1>3, FoundIs, Zenon DEF IInv
<1>5. Directory' /\ OldestFirst'
  BY <1>2, <1>3, <1>4, AllFiled, Zenon DEF Directory
<1>6. Content'
  <2>1. pc' \in Flushing => run'.ents = mem'
    BY <1>1 DEF Flushing
  <2> QED
    BY <1>3, <2>1, Zenon DEF Content
<1>7. \A h \in Group : Read(h)' = IF h = g THEN Live(v) ELSE Read(h)
  <2>1. /\ DOMAIN mem' = DOMAIN mem \cup {g}
        /\ \A h \in DOMAIN mem' : mem'[h] = IF h = g THEN v ELSE mem[h]
    BY <1>0, Zenon DEF Upsert
  <2>2. \A h : Read(h)' = IF h \in DOMAIN mem' THEN Live(mem'[h]) ELSE Val(Listed', h)
    BY Zenon DEF Read, Live, Val
  <2> QED
    BY <1>2, <2>1, <2>2, Zenon DEF Read
<1>8. Shown' = [h \in Group |-> Read(h)'] /\ Shown = [h \in Group |-> Read(h)]
  BY <1>0, Zenon DEF Readings
<1>9. Shown' = [Shown EXCEPT ![g] = Live(v)]
  BY <1>7, <1>8, Zenon
<1>10. Reopened' = Reopened
  BY <1>2, Zenon DEF Readings, Val
<1>11. Live(v) \in Vals \cup {Absent}
  BY Zenon DEF Live
<1>12. Call = "idle" /\ Call' \in {"idle", "flush"}
  BY <1>0, <1>1, Zenon DEF Call
<1>13. Promise!Write
  BY <1>0, <1>9, <1>10, <1>11, <1>12, Zenon DEF Promise!Write
<1> QED
  BY <1>5, <1>6, <1>13, Zenon DEF Refines, Mapped, Promise!Next

\* Beginning a call, writing a part of a file and giving up change no map.
LEMMA QuietMaps ==
    ASSUME IInv, SInv', Readings, Readings', up, up' = up, mem' = mem, ssts' = ssts, Found' = Found,
           pc \notin Whole \cup {"clear"}, pc' \notin Whole \cup {"clear"}, Content', Quiet
    PROVE  Refines
<1>0. SInv
  BY Zenon DEF IInv
<1>1. Listed' = Listed
  BY Zenon DEF Listed, Range
<1>2. Found = Listed
  BY <1>0, FoundIs, Zenon DEF IInv
<1>3. pc' \notin {"compact_unlink", "clear"}
  BY Zenon DEF Whole
<1>4. Directory' /\ OldestFirst'
  BY <1>1, <1>2, <1>3, AllFiled, Zenon DEF Directory
<1>5. \A g \in Group : Read(g)' = Read(g) /\ Val(Found', g) = Val(Found, g)
  BY <1>1, Zenon DEF Read, Val, Live
<1>6. Shown' = Shown /\ Reopened' = Reopened
  BY <1>5, Stutter, Zenon
<1> QED
  BY <1>4, <1>6, QuietStep, Zenon DEF Refines

\* A file cut short cannot be opened, so creating one shows nothing.
LEMMA WriteBeginMaps ==
    ASSUME IInv, SInv', Readings, Readings', WriteBegin
    PROVE  Refines
<1>0. /\ up' = up /\ mem' = mem /\ ssts' = ssts /\ run' = run /\ SInv /\ Directory /\ Content
      /\ \/ pc = "flush" /\ pc' = "flush_write"
         \/ pc = "compact" /\ pc' = "compact_write"
  BY Zenon DEF WriteBegin, IInv
<1>1. /\ pc \notin Whole \cup {"clear"} /\ pc' \notin Whole \cup {"clear"}
      /\ pc \notin {"idle", "clear"}
      /\ pc' \in Flushing <=> pc \in Flushing
      /\ pc' \in Compacting <=> pc \in Compacting
  BY <1>0, Zenon DEF Whole, Flushing, Compacting
<1>2. up
  BY <1>0, <1>1, Zenon DEF SInv, Closed
<1>3. \A r \in Listed : r.seq # run.seq
  <2>1. run \in Runs /\ \A i \in DOMAIN ssts : ssts[i].seq < run.seq
    BY <1>0, <1>1, Zenon DEF SInv, Writing
  <2>2. \A i \in DOMAIN ssts : ssts[i].seq # run.seq
    BY <1>0, <2>1, Parts DEF Runs
  <2> QED
    BY <2>2, Zenon DEF Listed, Range
<1>4. Found = Listed
  BY <1>0, <1>1, <1>2, FoundIs, Zenon
<1>5. Found' = Found
  BY <1>0, <1>3, <1>4, WriteBeginStep, Zenon
<1>6. Listed' = Listed
  BY <1>0, Zenon DEF Listed, Range
<1>7. Content'
  BY <1>0, <1>1, <1>6, Zenon DEF Content, Val, Live
<1>8. Quiet
  BY <1>0, Zenon DEF Quiet, Call
<1> QED
  BY <1>0, <1>1, <1>2, <1>5, <1>7, <1>8, QuietMaps, Zenon

\* A flush becomes durable when its file is whole; a compaction changes nothing then.
LEMMA WriteEndMaps ==
    ASSUME IInv, SInv', Readings, Readings', WriteEnd
    PROVE  Refines
<1>0. /\ up' = up /\ mem' = mem /\ ssts' = ssts /\ run' = run /\ SInv /\ Directory /\ Content
      /\ \/ pc = "flush_write" /\ pc' = "flush_open"
         \/ pc = "compact_write" /\ pc' = "compact_open"
  BY Zenon DEF WriteEnd, IInv
<1>1. /\ pc \notin Whole \cup {"clear"} /\ pc' \in Whole /\ pc \notin {"idle", "clear"}
      /\ pc' \notin {"compact_unlink", "clear"}
      /\ pc' \in Flushing <=> pc \in Flushing
      /\ pc' \in Compacting <=> pc \in Compacting
      /\ pc \in Flushing \/ pc \in Compacting
  BY <1>0, Zenon DEF Whole, Flushing, Compacting
<1>2. up
  BY <1>0, <1>1, Zenon DEF SInv, Closed
<1>3. \A r \in Listed : r.seq # run.seq
  <2>1. run \in Runs /\ \A i \in DOMAIN ssts : ssts[i].seq < run.seq
    BY <1>0, <1>1, Zenon DEF SInv, Writing
  <2>2. \A i \in DOMAIN ssts : ssts[i].seq # run.seq
    BY <1>0, <2>1, Parts DEF Runs
  <2> QED
    BY <2>2, Zenon DEF Listed, Range
<1>4. Found = Listed
  BY <1>0, <1>1, <1>2, FoundIs, Zenon
<1>5. Found' = Listed \cup {run}
  BY <1>0, <1>3, <1>4, WriteEndStep, Zenon
<1>6. Listed' = Listed
  BY <1>0, Zenon DEF Listed, Range
<1>7. Content'
  BY <1>0, <1>1, <1>6, Zenon DEF Content, Val, Live
<1>8. Directory' /\ OldestFirst'
  BY <1>0, <1>1, <1>5, <1>6, AllFiled, Zenon DEF Directory
<1>9. \A g \in Group :
          Val(Found', g) = IF g \in DOMAIN run.ents THEN Live(run.ents[g]) ELSE Val(Listed, g)
  BY <1>0, <1>1, <1>5, WholeRun, Zenon
<1>10. \A g \in Group : Read(g)' = Read(g)
  BY <1>0, <1>6, Zenon DEF Read, Val, Live
<1>11. CASE pc \in Flushing
  <2>1. run.ents = mem
    BY <1>0, <1>11, Zenon DEF Content
  <2>2. \A g \in Group : Val(Found', g) = Read(g)
    BY <1>9, <2>1, Zenon DEF Read
  <2>3. Shown = [g \in Group |-> Read(g)] /\ Shown' = [g \in Group |-> Read(g)']
    BY <1>0, <1>2, Zenon DEF Readings
  <2>4. Reopened' = [g \in Group |-> Val(Found', g)]
    BY Zenon DEF Readings, Val
  <2>5. Reopened' = Shown /\ Shown' = Shown
    BY <1>10, <2>2, <2>3, <2>4, Zenon
  <2>6. Call = "flush" /\ Call' = "flush"
    BY <1>0, <1>11, Zenon DEF Flushing, Call
  <2> QED
    BY <1>0, <1>2, <1>7, <1>8, <2>5, <2>6, Zenon DEF Refines, Mapped, Promise!Next, Promise!Flush
<1>12. CASE pc \in Compacting
  <2>1. \A g \in Group :
            (IF g \in DOMAIN run.ents THEN Live(run.ents[g]) ELSE Absent) = Val(Listed, g)
    BY <1>0, <1>12, Zenon DEF Content
  <2>2. \A g \in Group : Val(Found', g) = Val(Found, g)
    BY <1>4, <1>9, <2>1, Zenon
  <2>3. Shown' = Shown /\ Reopened' = Reopened
    BY <1>0, <1>10, <2>2, Stutter, Zenon
  <2>4. Quiet
    BY <1>0, Zenon DEF Quiet, Call
  <2> QED
    BY <1>0, <1>2, <1>7, <1>8, <2>3, <2>4, QuietStep, Zenon DEF Refines
<1> QED
  BY <1>1, <1>11, <1>12, Zenon

\* The flushed run says what the memtable said.
LEMMA FlushEndMaps ==
    ASSUME IInv, SInv', Readings, Readings', FlushEnd
    PROVE  Refines
<1>0. /\ up' = up /\ mem' = NoEnts /\ disk' = disk /\ SInv /\ Directory /\ Content
      /\ pc = "flush_open" /\ pc' = "idle"
  BY Zenon DEF FlushEnd, IInv
<1>1. /\ pc \in Whole /\ pc \in Flushing /\ pc \notin {"idle", "clear"} /\ pc' \notin Whole
      /\ pc' \notin Flushing /\ pc' \notin Compacting /\ pc' \notin {"compact_unlink", "clear"}
  BY <1>0, Zenon DEF Whole, Flushing, Compacting
<1>2. up
  BY <1>0, <1>1, RunFile, Zenon
<1>3. Listed' = Listed \cup {run} /\ Found' = Found /\ Found = Listed \cup {run}
  BY <1>0, <1>2, FlushEndStep, FoundIs, SameFound, Zenon
<1>4. Directory' /\ OldestFirst' /\ Content'
  BY <1>1, <1>3, AllFiled, Zenon DEF Directory, Content
<1>5. \A g \in Group : Val(Listed', g) = Read(g)
  <2>1. run.ents = mem
    BY <1>0, <1>1, Zenon DEF Content
  <2> QED
    BY <1>0, <1>1, <1>3, <2>1, WholeRun, Zenon DEF Read
<1>6. \A g \in Group : Read(g)' = Val(Listed', g)
  <2>1. \A g : g \notin DOMAIN mem'
    BY <1>0, EntsFacts, Zenon
  <2> QED
    BY <2>1, Zenon DEF Read, Val
<1>7. Shown' = Shown /\ Reopened' = Reopened
  BY <1>0, <1>3, <1>5, <1>6, Stutter, Zenon
<1>8. Quiet
  BY <1>0, Zenon DEF Quiet, Call
<1> QED
  BY <1>0, <1>2, <1>4, <1>7, <1>8, QuietStep, Zenon DEF Refines

\* Removing a file in the order of the list leaves no newer one out.
LEMMA UnlinkOrder ==
    ASSUME SInv, SInv', OldestFirst, UnlinkNext, ssts' = ssts
    PROVE  /\ OldestFirst' /\ Found' \subseteq Found
           /\ \A r \in Found' : \A q \in Found \cap Listed :
                 r \in Listed /\ r.seq < q.seq => q \in Found'
<1>1. PICK i \in DOMAIN ssts : /\ OnDisk(i) /\ \A j \in DOMAIN ssts : j < i => ~OnDisk(j)
                               /\ disk' = {f \in disk : f.seq # ssts[i].seq}
  BY Zenon DEF UnlinkNext
<1>2. Found' = {r \in Found : r.seq # ssts[i].seq}
  <2>1. Found' = {r \in Found : r.seq # ssts[i].seq} \cup {Run(f) : f \in {d \in {} : sst_open(d)}}
    BY <1>1, FoundStep, Zenon
  <2> QED
    BY <2>1, Zenon
<1>3. \A k \in DOMAIN ssts : k \in Nat /\ ssts[k].seq \in Nat
  BY Parts
<1>4. \A j, k \in DOMAIN ssts : /\ j < k => ssts[j].seq < ssts[k].seq
                                /\ ssts[j].seq = ssts[k].seq => j = k
                                /\ ssts[j].seq < ssts[k].seq => j < k
  <2> SUFFICES ASSUME NEW j \in DOMAIN ssts, NEW k \in DOMAIN ssts
               PROVE  /\ j < k => ssts[j].seq < ssts[k].seq
                      /\ ssts[j].seq = ssts[k].seq => j = k
                      /\ ssts[j].seq < ssts[k].seq => j < k
    BY Zenon
  <2>1. (j < k => ssts[j].seq < ssts[k].seq) /\ (k < j => ssts[k].seq < ssts[j].seq)
    BY Zenon DEF SInv, Numbered
  <2>2. j \in Nat /\ k \in Nat /\ ssts[j].seq \in Nat /\ ssts[k].seq \in Nat
    BY <1>3, Zenon
  <2> QED
    BY <2>1, <2>2
<1>5. \A k \in DOMAIN ssts : OnDisk(k)' <=> OnDisk(k) /\ k # i
  BY <1>1, <1>4, Zenon DEF OnDisk
<1>6. OldestFirst'
  <2> SUFFICES ASSUME NEW j \in DOMAIN ssts, NEW k \in DOMAIN ssts, j < k, OnDisk(j)'
               PROVE  OnDisk(k)'
    BY Zenon DEF OldestFirst
  <2>1. OnDisk(j) /\ OnDisk(k) /\ k # i
    BY <1>1, <1>5, Zenon DEF OldestFirst
  <2> QED
    BY <1>5, <2>1, Zenon
<1>7. ASSUME NEW r \in Found', NEW q \in Found \cap Listed, r \in Listed, r.seq < q.seq
      PROVE  q \in Found'
  <2>1. PICK j \in DOMAIN ssts : r = ssts[j]
    BY <1>7, Zenon DEF Listed, Range
  <2>2. PICK k \in DOMAIN ssts : q = ssts[k]
    BY Zenon DEF Listed, Range
  <2>3. j < k /\ OnDisk(j)
    BY <1>2, <1>4, <1>7, <2>1, <2>2, ListedFound, Zenon
  <2>4. k # i
    BY <1>1, <2>3, Zenon
  <2>5. q.seq # ssts[i].seq
    BY <1>4, <2>2, <2>4, Zenon
  <2> QED
    BY <1>2, <2>5, Zenon
<1> QED
  BY <1>2, <1>6, <1>7, Zenon

\* Removing an input of a compaction changes no answer: the merged run is newer and whole.
LEMMA CompactUnlinkMaps ==
    ASSUME IInv, SInv', Readings, Readings', CompactUnlink
    PROVE  Refines
<1>0. /\ up' = up /\ mem' = mem /\ ssts' = ssts /\ run' = run
      /\ SInv /\ Directory /\ OldestFirst /\ Content /\ UnlinkNext
      /\ pc \in {"compact_open", "compact_unlink"} /\ pc' = "compact_unlink"
  BY Zenon DEF CompactUnlink, IInv
<1>1. /\ pc \in Whole /\ pc \in Compacting
      /\ pc' \in Whole /\ pc' \in Compacting /\ pc' \notin Flushing
  BY <1>0, Zenon DEF Whole, Flushing, Compacting
<1>2. Listed' = Listed
  BY <1>0, Zenon DEF Listed, Range
<1>3. OldestFirst' /\ Found' \subseteq Found
  BY <1>0, UnlinkOrder, Zenon
<1>4. Directory' /\ Content'
  <2>1. Directory'
    BY <1>0, <1>1, <1>2, <1>3, Zenon DEF Directory
  <2>2. Content'
    BY <1>0, <1>1, <1>2, Zenon DEF Content, Val, Live
  <2> QED
    BY <2>1, <2>2, Zenon
<1>5. IInv'
  BY <1>3, <1>4, Zenon DEF IInv
<1>6. \A g \in Group : Val(Found', g) = Val(Found, g)
  <2>1. \A g \in Group : Val(Found, g) = Val(Listed, g)
    BY <1>0, Zenon DEF Readings
  <2>2. \A g \in Group : Val(Found', g) = Val(Listed', g)
    BY <1>0, <1>5, Zenon DEF Readings, Val
  <2> QED
    BY <1>2, <2>1, <2>2, Zenon
<1>7. \A g \in Group : Read(g)' = Read(g)
  BY <1>0, <1>2, Zenon DEF Read, Val, Live
<1>8. Shown' = Shown /\ Reopened' = Reopened
  BY <1>0, <1>6, <1>7, Stutter, Zenon
<1>9. Quiet
  BY <1>0, Zenon DEF Quiet, Call
<1>10. up
  BY <1>0, Zenon DEF SInv, Closed
<1> QED
  BY <1>0, <1>3, <1>4, <1>8, <1>9, <1>10, QuietStep, Zenon DEF Refines

\* The compacted run says what the list said.
LEMMA CompactEndMaps ==
    ASSUME IInv, SInv', Readings, Readings', CompactEnd
    PROVE  Refines
<1>0. /\ up' = up /\ mem' = mem /\ disk' = disk /\ SInv /\ Directory /\ Content
      /\ pc = "compact_unlink" /\ pc' = "idle" /\ \A i \in DOMAIN ssts : ~OnDisk(i)
  BY Zenon DEF CompactEnd, IInv
<1>1. /\ pc \in Whole /\ pc \in Compacting /\ pc \notin {"idle", "clear"} /\ pc' \notin Whole
      /\ pc' \notin Flushing /\ pc' \notin Compacting /\ pc' \notin {"compact_unlink", "clear"}
  BY <1>0, Zenon DEF Whole, Flushing, Compacting
<1>2. Listed' = {run} /\ Found' = Found /\ up
  BY <1>0, <1>1, CompactEndStep, RunFile, SameFound, Zenon
<1>3. \A r \in Listed : r \notin Found
  BY <1>0, ListedFound, Zenon DEF Listed, Range
<1>4. Found \subseteq {run}
  BY <1>0, <1>1, <1>2, <1>3, Zenon DEF Directory
<1>5. Directory' /\ OldestFirst' /\ Content'
  BY <1>1, <1>2, <1>4, AllFiled, Zenon DEF Directory, Content
<1>6. ASSUME NEW g \in Group PROVE Val(Listed', g) = Val(Listed, g)
  <2>1. {} \in SUBSET Listed /\ {} \cup {run} = {run}
    BY Zenon
  <2>2. Val({run}, g) = IF g \in DOMAIN run.ents THEN Live(run.ents[g]) ELSE Val({}, g)
    BY <1>0, <1>1, <2>1, WholeRun, Zenon
  <2>3. Val({}, g) = Absent
    BY MergedNone, Zenon DEF Val, Live
  <2> QED
    BY <1>0, <1>1, <1>2, <2>2, <2>3, Zenon DEF Content
<1>7. \A g \in Group : Read(g)' = Read(g)
  BY <1>0, <1>6, Zenon DEF Read, Val, Live
<1>8. Shown' = Shown /\ Reopened' = Reopened
  BY <1>0, <1>2, <1>7, Stutter, Zenon
<1>9. Quiet
  BY <1>0, Zenon DEF Quiet, Call
<1> QED
  BY <1>0, <1>2, <1>5, <1>8, <1>9, QuietStep, Zenon DEF Refines

\* A clear gives up entries file by file, and then all of them.
LEMMA ClearMaps ==
    ASSUME IInv, SInv', Readings, Readings', lsm_clear
    PROVE  Refines
<1>0. up /\ up' = up /\ SInv /\ Directory /\ OldestFirst /\ pc \in {"idle", "clear"}
  BY Zenon DEF lsm_clear, IInv
<1>1. pc \notin Whole
  BY <1>0, Zenon DEF Whole
<1>2. Found \subseteq Listed
  BY <1>0, <1>1, Zenon DEF Directory
<1>3. /\ Shown = [g \in Group |-> Read(g)] /\ Shown' = [g \in Group |-> Read(g)']
      /\ Reopened = [g \in Group |-> Val(Found, g)]
      /\ Reopened' = [g \in Group |-> Val(Found', g)]
      /\ \A g \in Group : Val(Found', g) \in Vals \cup {Absent}
  <2>1. /\ Reopened' = [g \in Group |-> Val(Found', g)]
        /\ \A g \in Group : Val(Found', g) \in Vals \cup {Absent}
    BY Zenon DEF Readings, Val
  <2> QED
    BY <1>0, <2>1, Zenon DEF Readings
<1>4. CASE UnlinkNext /\ pc' = "clear" /\ mem' = mem /\ ssts' = ssts
  <2>1. /\ OldestFirst' /\ Found' \subseteq Found
        /\ \A r \in Found' : \A q \in Found \cap Listed :
              r \in Listed /\ r.seq < q.seq => q \in Found'
    BY <1>0, <1>4, UnlinkOrder, Zenon
  <2>2. Listed' = Listed
    BY <1>4, Zenon DEF Listed, Range
  <2>3. pc' \notin Whole /\ pc' \notin Flushing /\ pc' \notin Compacting
    BY <1>4, Zenon DEF Whole, Flushing, Compacting
  <2>4. Directory' /\ Content'
    BY <1>2, <2>1, <2>2, <2>3, Zenon DEF Directory, Content
  <2>5. \A g \in Group : Read(g)' = Read(g)
    BY <1>4, <2>2, Zenon DEF Read, Val, Live
  <2>6. \A g \in Group : Val(Found', g) \in {Val(Found, g), Absent}
    <3>1. RunSet(Found)
      BY <1>0, FoundRuns, Zenon DEF SInv, Types, Numbered
    <3>2. \A r \in Found' : \A q \in Found : r.seq < q.seq => q \in Found'
      BY <1>2, <2>1, Zenon
    <3>3. \A g \in Group : Merged(Found', g) \in {Merged(Found, g), Absent}
      BY <2>1, <3>1, <3>2, DropOldest, Zenon
    <3>4. Live(Absent) = Absent
      BY Zenon DEF Live
    <3> QED
      BY <3>3, <3>4, Zenon DEF Val
  <2>7. Shown' = Shown
    BY <1>3, <2>5, Zenon
  <2>8. Reopened' \in Promise!Map /\ \A g \in Group : Reopened'[g] \in {Reopened[g], Absent}
    BY <1>3, <2>6, Zenon DEF Promise!Map
  <2>9. Call \in {"idle", "clear"} /\ Call' = "clear"
    BY <1>0, <1>4, Zenon DEF Call
  <2>10. Promise!Forget
    BY <1>0, <2>7, <2>8, <2>9, Zenon DEF Promise!Forget
  <2> QED
    BY <2>1, <2>4, <2>10, Zenon DEF Refines, Mapped, Promise!Next
<1>5. CASE /\ \A i \in DOMAIN ssts : ~OnDisk(i)
           /\ pc' = "idle" /\ ssts' = <<>> /\ mem' = NoEnts /\ disk' = disk
  <2>1. Listed' = {} /\ Found' = Found
    <3>1. DOMAIN ssts' = {}
      BY <1>5
    <3> QED
      BY <1>5, <3>1, SameFound, Zenon DEF Listed, Range
  <2>2. Found = {}
    <3>1. \A r \in Listed : r \notin Found
      BY <1>0, <1>5, ListedFound, Zenon DEF Listed, Range
    <3> QED
      BY <1>2, <3>1, Zenon
  <2>3. /\ pc' \notin Whole /\ pc' \notin Flushing /\ pc' \notin Compacting
        /\ pc' \notin {"compact_unlink", "clear"}
    BY <1>5, Zenon DEF Whole, Flushing, Compacting
  <2>4. Directory' /\ Content' /\ OldestFirst'
    BY <2>1, <2>2, <2>3, AllFiled, Zenon DEF Directory, Content
  <2>5. \A g : Val({}, g) = Absent
    BY MergedNone, Zenon DEF Val, Live
  <2>6. \A g \in Group : Read(g)' = Absent
    <3>1. \A g : g \notin DOMAIN mem'
      BY <1>5, EntsFacts, Zenon
    <3>2. \A g : Read(g)' = Val(Listed', g)
      BY <3>1, Zenon DEF Read, Val
    <3> QED
      BY <2>1, <2>5, <3>2, Zenon
  <2>7. Reopened = Promise!Empty /\ Reopened' = Reopened /\ Shown' = Promise!Empty
    BY <1>3, <2>1, <2>2, <2>5, <2>6, Zenon DEF Promise!Empty
  <2>8. Call \in {"idle", "clear"} /\ Call' = "idle"
    BY <1>0, <1>5, Zenon DEF Call
  <2> QED
    BY <1>0, <2>4, <2>7, <2>8, Zenon DEF Refines, Mapped, Promise!Next, Promise!Clear
<1> QED
  BY <1>4, <1>5, Zenon DEF lsm_clear

\* Closing and dying lose the memtable.
LEMMA CloseMaps ==
    ASSUME IInv, SInv', Readings, Readings', lsm_close
    PROVE  Refines
<1>0. up /\ up' = FALSE /\ pc' = "idle" /\ disk' = disk
  BY Zenon DEF lsm_close
<1>1. pc' \notin Flushing /\ pc' \notin Compacting /\ pc' \notin {"compact_unlink", "clear"}
  BY <1>0, Zenon DEF Flushing, Compacting
<1>2. Directory' /\ OldestFirst' /\ Content'
  BY <1>0, <1>1, AllFiled, Zenon DEF Directory, Content
<1>3. Found' = Found
  BY <1>0, SameFound, Zenon
<1>4. Reopened = [g \in Group |-> Val(Found, g)] /\ Reopened' = [g \in Group |-> Val(Found', g)]
  BY Zenon DEF Readings, Val
<1>5. Shown' = Reopened'
  BY <1>0, Zenon DEF Shown
<1>6. Shown' = Reopened /\ Reopened' = Reopened
  BY <1>3, <1>4, <1>5, Zenon
<1>7. Call' = "idle"
  BY <1>0, Zenon DEF Call
<1> QED
  BY <1>0, <1>2, <1>6, <1>7, Zenon DEF Refines, Mapped, Promise!Next, Promise!Stop

\* Opening shows what was found.
LEMMA OpenMaps ==
    ASSUME IInv, SInv', Readings, Readings', lsm_open_multi
    PROVE  Refines
<1>0. SInv /\ ~up /\ up' = TRUE /\ mem' = mem /\ disk' = disk /\ pc' = pc
  BY Zenon DEF lsm_open_multi, IInv
<1>1. pc = "idle" /\ mem = NoEnts
  BY <1>0, Zenon DEF SInv, Closed
<1>2. /\ pc' \notin Whole /\ pc' \notin Flushing /\ pc' \notin Compacting
      /\ pc' \notin {"compact_unlink", "clear"}
  BY <1>0, <1>1, Zenon DEF Whole, Flushing, Compacting
<1>3. Listed' = Found /\ Found' = Found
  BY <1>0, OpenStep, SameFound, Zenon
<1>4. Directory' /\ OldestFirst' /\ Content'
  BY <1>2, <1>3, AllFiled, Zenon DEF Directory, Content
<1>5. \A g \in Group : Read(g)' = Val(Found, g)
  <2>1. \A g : g \notin DOMAIN mem'
    BY <1>0, <1>1, EntsFacts, Zenon
  <2>2. \A g : Read(g)' = Val(Listed', g)
    BY <2>1, Zenon DEF Read, Val
  <2> QED
    BY <1>3, <2>2, Zenon
<1>6. Reopened = [g \in Group |-> Val(Found, g)] /\ Reopened' = [g \in Group |-> Val(Found', g)]
  BY Zenon DEF Readings, Val
<1>7. Shown' = [g \in Group |-> Read(g)'] /\ Shown = Reopened
  BY <1>0, Zenon DEF Readings, Shown
<1>8. Shown' = Shown /\ Reopened' = Reopened
  BY <1>3, <1>5, <1>6, <1>7, Zenon
<1>9. Call' = Call
  BY <1>0, Zenon DEF Call
<1> QED
  BY <1>0, <1>4, <1>8, <1>9, Zenon DEF Refines, Mapped, Promise!Next, Promise!Open

\* Every step is a step of LsmMap or changes neither map, as long as a file that was
\* written can be opened again.
LEMMA MapStep ==
    ASSUME IInv, SInv', Readings, Readings', [Next]_vars, "open" \notin Faults
    PROVE  Refines
<1>0. SInv /\ Directory /\ OldestFirst /\ Content
  BY Zenon DEF IInv
<1>1. ASSUME NEW p \in Pairs[multi], lsm_put(p[1], p[2]) \/ lsm_delete(p[1], p[2]) PROVE Refines
  <2>1. group(p[1], p[2]) \in Group /\ p[2] \in Vals
    BY <1>0, GroupOf, Parts, Zenon
  <2> QED
    BY <1>1, <2>1, PutMaps, Zenon DEF lsm_put, lsm_delete
<1>2. CASE lsm_flush
  <2>1. /\ up /\ up' = up /\ pc = "idle" /\ pc' = "flush"
        /\ mem' = mem /\ ssts' = ssts /\ disk' = disk
        /\ run'.ents = mem
    BY <1>2, Zenon DEF lsm_flush, StartFlush
  <2>2. pc \notin Whole \cup {"clear"} /\ pc' \notin Whole \cup {"clear"} /\ pc' \notin Compacting
    BY <2>1, Zenon DEF Whole, Compacting
  <2>3. Content' /\ Found' = Found
    BY <2>1, <2>2, SameFound, Zenon DEF Content
  <2>4. Quiet
    BY <2>1, Zenon DEF Quiet, Call
  <2> QED
    BY <2>1, <2>2, <2>3, <2>4, QuietMaps, Zenon
<1>3. CASE CallFails
  <2>1. /\ up' = up /\ mem' = mem /\ ssts' = ssts /\ disk' = disk
        /\ pc \in {"flush_write", "compact_write"} /\ pc' = "idle"
    BY <1>3, Zenon DEF CallFails
  <2>2. /\ pc \notin Whole \cup {"clear"} /\ pc' \notin Whole \cup {"clear"}
        /\ pc \notin {"idle", "clear"}
        /\ pc' \notin Flushing /\ pc' \notin Compacting
    BY <2>1, Zenon DEF Whole, Flushing, Compacting
  <2>3. Content' /\ Found' = Found
    BY <2>1, <2>2, SameFound, Zenon DEF Content
  <2>4. up
    BY <1>0, <2>2, Zenon DEF SInv, Closed
  <2>5. Quiet
    BY <2>1, Zenon DEF Quiet, Call
  <2> QED
    BY <2>1, <2>2, <2>3, <2>4, <2>5, QuietMaps, Zenon
<1>4. CASE lsm_compact
  <2>1. up /\ up' = up /\ pc = "idle" /\ ssts' = ssts
    BY <1>4, Zenon DEF lsm_compact
  <2>2. /\ Listed' = Listed /\ mem' = mem /\ disk' = disk /\ pc' = "compact"
        /\ \A g \in Group :
              (IF g \in DOMAIN run'.ents THEN Live(run'.ents[g]) ELSE Absent) = Val(Listed, g)
    BY <1>0, <1>4, CompactStep, Zenon
  <2>3. pc \notin Whole \cup {"clear"} /\ pc' \notin Whole \cup {"clear"} /\ pc' \notin Flushing
    BY <2>1, <2>2, Zenon DEF Whole, Flushing
  <2>4. Content' /\ Found' = Found
    BY <2>2, <2>3, SameFound, Zenon DEF Content, Val, Live
  <2>5. Quiet
    BY <2>1, <2>2, Zenon DEF Quiet, Call
  <2> QED
    BY <2>1, <2>2, <2>3, <2>4, <2>5, QuietMaps, Zenon
<1>5. CASE \/ WriteBegin \/ WriteEnd \/ FlushEnd \/ CompactUnlink \/ CompactEnd \/ lsm_clear
           \/ lsm_close \/ lsm_open_multi
  BY <1>5, WriteBeginMaps, WriteEndMaps, FlushEndMaps, CompactUnlinkMaps, CompactEndMaps, ClearMaps,
     CloseMaps, OpenMaps, Zenon
<1>6. CASE UNCHANGED vars
  <2>1. up' = up /\ mem' = mem /\ ssts' = ssts /\ disk' = disk /\ pc' = pc /\ run' = run
    BY <1>6, Zenon DEF vars
  <2>2. Found' = Found /\ Listed' = Listed
    BY <2>1, SameFound, Zenon DEF Listed, Range
  <2>3. Directory' /\ OldestFirst' /\ Content'
    <3>1. Directory'
      BY <1>0, <2>1, <2>2, Zenon DEF Directory, Whole
    <3>2. OldestFirst'
      <4>1. \A i : OnDisk(i)' <=> OnDisk(i)
        BY <2>1, Zenon DEF OnDisk
      <4> QED
        BY <1>0, <2>1, <4>1, Zenon DEF OldestFirst
    <3>3. Content'
      BY <1>0, <2>1, <2>2, Zenon DEF Content, Flushing, Compacting, Val, Live
    <3> QED
      BY <3>1, <3>2, <3>3, Zenon
  <2>4. \A g \in Group : Read(g)' = Read(g)
    BY <2>1, <2>2, Zenon DEF Read, Val, Live
  <2>5. Shown' = Shown /\ Reopened' = Reopened
    BY <2>1, <2>2, <2>4, Stutter, Zenon
  <2>6. Call' = Call
    BY <2>1, Zenon DEF Call
  <2> QED
    BY <2>1, <2>3, <2>5, <2>6, Zenon DEF Refines, Mapped
<1> QED
  BY <1>1, <1>2, <1>3, <1>4, <1>5, <1>6, Zenon DEF Next

\* A new engine is the empty map.
LEMMA MapInit == Init => IInv /\ Promise!Init
<1> SUFFICES ASSUME Init PROVE IInv /\ Promise!Init
  BY Zenon
<1>0. SInv /\ Readings
  BY SInvInit, ReadingsHold, Zenon
<1>1. up = TRUE /\ mem = NoEnts /\ ssts = <<>> /\ disk = {} /\ pc = "idle"
  BY Zenon DEF Init
<1>2. Found = {} /\ DOMAIN ssts = {}
  BY <1>1 DEF Found
<1>3. Listed = {}
  BY <1>2, Zenon DEF Listed, Range
<1>4. pc \notin Flushing /\ pc \notin Compacting
  BY <1>1, Zenon DEF Flushing, Compacting
<1>5. IInv
  BY <1>0, <1>2, <1>4, Zenon DEF IInv, Directory, OldestFirst, Content
<1>6. \A g : Val({}, g) = Absent
  BY MergedNone, Zenon DEF Val, Live
<1>7. \A g : Read(g) = Absent
  BY <1>1, <1>3, <1>6, EntsFacts, Zenon DEF Read
<1>8. Shown = [g \in Group |-> Read(g)] /\ Reopened = [g \in Group |-> Val(Found, g)]
  BY <1>0, <1>1, Zenon DEF Readings
<1>9. Call = "idle"
  BY <1>1, Zenon DEF Call
<1>10. Promise!Init
  BY <1>1, <1>2, <1>6, <1>7, <1>8, <1>9, Zenon DEF Promise!Init, Promise!Empty
<1> QED
  BY <1>5, <1>10, Zenon

\* The directory holds what the engine lists, a compaction what its inputs said, and files go
\* oldest first, in every reachable state.
THEOREM MapInvariance == ASSUME "open" \notin Faults PROVE Spec => []IInv
<1>1. IInv /\ SInv' /\ [Next]_vars => IInv'
  <2> SUFFICES ASSUME IInv, SInv', [Next]_vars PROVE IInv'
    BY Zenon
  <2>1. Readings /\ Readings'
    BY ReadingsHold, ReadingsNext, Zenon DEF IInv
  <2> QED
    BY <2>1, MapStep, Zenon DEF Refines, IInv
<1> QED
  BY <1>1, MapInit, FilesInvariance, PTL DEF Spec

\* The engine implements LsmMap: while it is open only a write, of one entry, changes what it
\* answers; a flush makes everything written durable at one step; a compaction changes neither
\* what is answered nor what is durable; and no flush, compaction or clear that is cut off at
\* any system call brings back an old value or a deleted key.
THEOREM EngineIsMap == ASSUME "open" \notin Faults PROVE Spec => ImplementsMap
<1>1. IInv /\ IInv' /\ [Next]_vars => [Promise!Next]_(Promise!mapVars)
  <2> SUFFICES ASSUME IInv, IInv', [Next]_vars PROVE [Promise!Next]_(Promise!mapVars)
    BY Zenon
  <2>1. SInv' /\ Readings /\ Readings'
    BY ReadingsHold, ReadingsNext, Zenon DEF IInv
  <2> QED
    BY <2>1, MapStep, Zenon DEF Refines, Mapped, Promise!mapVars
<1> QED
  BY <1>1, MapInit, MapInvariance, PTL DEF Spec, ImplementsMap, Promise!Spec

================================================================================
