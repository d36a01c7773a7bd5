------------------------------- MODULE LockProofs ------------------------------
(* Proofs about the lock manager: the locks are compatible with each other in    *)
(* every reachable state, and the deadlock search is exact, for any number of    *)
(* transactions, objects and slots.                                              *)
EXTENDS LockManager, FiniteSetTheorems, SequenceTheorems, TLAPS

\* A transaction has at most one wait.
OneWait == \A i, j \in DOMAIN waits : waits[i].txn = waits[j].txn => i = j

\* The locks and waits of the transactions A.
Of(A) == [txn : A, obj : Objs, mode : LockMode]

\* The inductive invariant: the two properties, with a finite table (so that its slots can be
\* counted), and waits of active transactions only, one for each.
LockInv == TypeOK /\ Exclusive /\ IsFiniteSet(entries) /\ waits \in Seq(Of(active)) /\ OneWait

--------------------------------------------------------------------------------
(* The table.                                                                    *)

\* Cardinalities of a table that loses some locks or gains one.
LEMMA FewerLocks ==
    ASSUME NEW E, NEW F, F \subseteq E, IsFiniteSet(E), Cardinality(E) <= LOCK_MAX
    PROVE  IsFiniteSet(F) /\ Cardinality(F) <= LOCK_MAX
<1>1. IsFiniteSet(F) /\ Cardinality(F) <= Cardinality(E)  BY FS_Subset, Zenon
<1>2. Cardinality(E) \in Nat /\ Cardinality(F) \in Nat  BY <1>1, FS_CardinalityType, Zenon
<1>. QED  BY <1>1, <1>2, LockAssumption

\* lock_acquire keeps the matrix and its slots: what is granted is compatible with all
\* locks of others, and an upgrade takes the slot of the lock it replaces.
LEMMA AcquireKeeps ==
    ASSUME NEW E, NEW txn, NEW obj, NEW mode \in LockMode, NEW T, NEW O, txn \in T, obj \in O,
           E \subseteq [txn : T, obj : O, mode : LockMode],
           IsFiniteSet(E), Cardinality(E) <= LOCK_MAX, ExclusiveIn(E),
           Acquirable(E, txn, obj, mode)
    PROVE  LET A == Acquired(E, txn, obj, mode)
           IN  /\ A \subseteq [txn : T, obj : O, mode : LockMode]
               /\ IsFiniteSet(A) /\ Cardinality(A) <= LOCK_MAX /\ ExclusiveIn(A)
<1>. DEFINE l == Lock(txn, obj, mode)
            M == Mine(E, txn, obj)
            A == Acquired(E, txn, obj, mode)
<1>1. CASE Suffices(E, txn, obj, mode)
  BY <1>1, Zenon DEF Acquired
<1>2. CASE ~Suffices(E, txn, obj, mode)
  <2>1. A = (E \ M) \cup {l}  BY <1>2, Zenon DEF Acquired
  <2>2. /\ \A e \in Others(E, txn, obj) : ~Conflict(e, mode)
        /\ M # {} \/ Cardinality(E) < LOCK_MAX
    BY <1>2, Zenon DEF Acquirable
  <2>3. l \in [txn : T, obj : O, mode : LockMode]  BY Zenon DEF Lock
  <2>4. A \subseteq [txn : T, obj : O, mode : LockMode]  BY <2>1, <2>3, Zenon
  <2>5. ExclusiveIn(A)
    <3>. SUFFICES ASSUME NEW e \in A, NEW f \in A, e.obj = f.obj, e.txn # f.txn
                  PROVE  e.mode = "S" /\ f.mode = "S"
      BY Zenon DEF ExclusiveIn
    <3>1. \A g \in E : g.obj = obj /\ g.txn # txn => g.mode = "S" /\ mode = "S"
      BY <2>2, Zenon DEF Others, Conflict, LockMode
    <3>2. l.txn = txn /\ l.obj = obj /\ l.mode = mode  BY Zenon DEF Lock
    <3>3. CASE e = l /\ f = l  BY <3>3, Zenon
    <3>4. CASE e = l /\ f \in E  BY <3>1, <3>2, <3>4, Zenon
    <3>5. CASE e \in E /\ f = l  BY <3>1, <3>2, <3>5, Zenon
    <3>6. CASE e \in E /\ f \in E  BY <3>6, Zenon DEF ExclusiveIn
    <3>. QED  BY <2>1, <3>3, <3>4, <3>5, <3>6, Zenon
  <2>6. IsFiniteSet(E \ M) /\ Cardinality(E \ M) <= Cardinality(E)
    BY FS_Subset, E \ M \subseteq E, Zenon
  <2>7. /\ IsFiniteSet(A) /\ Cardinality(A) <= Cardinality(E \ M) + 1
        /\ Cardinality(E) \in Nat /\ Cardinality(E \ M) \in Nat /\ Cardinality(A) \in Nat
    <3>1. Cardinality(E) \in Nat /\ Cardinality(E \ M) \in Nat  BY <2>6, FS_CardinalityType, Zenon
    <3>2. /\ IsFiniteSet((E \ M) \cup {l})
          /\ Cardinality((E \ M) \cup {l}) = IF l \in E \ M THEN Cardinality(E \ M)
                                                            ELSE Cardinality(E \ M) + 1
      BY <2>6, FS_AddElement, Zenon
    <3>. QED  BY <2>1, <3>1, <3>2
  <2>8. Cardinality(A) <= LOCK_MAX
    <3>1. CASE M # {}
      <4>1. M \subseteq E  BY Zenon DEF Mine
      <4>2. E \ M # E  BY <3>1, <4>1, Zenon
      <4>3. Cardinality(E) # Cardinality(E \ M)  BY <4>2, FS_Subset, E \ M \subseteq E, Zenon
      <4>. QED  BY <2>6, <2>7, <4>3, LockAssumption
    <3>2. CASE Cardinality(E) < LOCK_MAX  BY <2>6, <2>7, <3>2, LockAssumption
    <3>. QED  BY <2>2, <3>1, <3>2, Zenon
  <2>. QED  BY <2>4, <2>5, <2>7, <2>8, Zenon
<1>. QED  BY <1>1, <1>2, Zenon

--------------------------------------------------------------------------------
(* The waits.                                                                    *)

\* A wait list of the transactions A within its slots, one wait for a transaction.
WaitsOK(w, A) ==
    /\ w \in Seq(Of(A)) /\ Len(w) <= LOCK_MAX_WAITS
    /\ \A i, j \in DOMAIN w : w[i].txn = w[j].txn => i = j

\* A sequence is one of the elements it has.
LEMMA SeqOf ==
    ASSUME NEW S, NEW n \in Nat, NEW f \in [1..n -> S]
    PROVE  f \in Seq(S) /\ Len(f) = n /\ DOMAIN f = 1..n
<1>1. f \in Seq(S)  BY SeqDef, Zenon
<1>. QED  BY <1>1

\* lock_wait_add keeps the list so: it replaces the wait of the transaction or appends one.
LEMMA AddKeeps ==
    ASSUME NEW A, WaitsOK(waits, A), NEW w \in Of(A)
    PROVE  WaitsOK(lock_wait_add(w), A)
<1>0. Len(waits) \in Nat /\ DOMAIN waits = 1..Len(waits) /\ \A i \in DOMAIN waits : waits[i] \in Of(A)
  BY DEF WaitsOK
<1>1. CASE Waiting(w.txn)
  <2>. DEFINE v == [i \in DOMAIN waits |-> IF waits[i].txn = w.txn THEN w ELSE waits[i]]
  <2>1. lock_wait_add(w) = v  BY <1>1, Zenon DEF lock_wait_add
  <2>2. v \in Seq(Of(A)) /\ Len(v) = Len(waits)  BY <1>0
  <2>3. \A i \in DOMAIN waits : v[i].txn = waits[i].txn  BY Zenon
  <2>4. DOMAIN v = DOMAIN waits  BY Zenon
  <2>. HIDE DEF v
  <2>. QED  BY <2>1, <2>2, <2>3, <2>4, Zenon DEF WaitsOK
<1>2. CASE ~Waiting(w.txn) /\ Len(waits) < LOCK_MAX_WAITS
  <2>. DEFINE v == Append(waits, w)
  <2>1. lock_wait_add(w) = v  BY <1>2, Zenon DEF lock_wait_add
  <2>2. waits \in Seq(Of(A))  BY Zenon DEF WaitsOK
  <2>3. /\ v \in Seq(Of(A)) /\ Len(v) = Len(waits) + 1 /\ v[Len(waits) + 1] = w
        /\ \A i \in 1..Len(waits) : v[i] = waits[i]
        /\ DOMAIN v = 1..(Len(waits) + 1)
    BY <2>2
  <2>4. \A i \in 1..Len(waits) : waits[i].txn # w.txn  BY <1>0, <1>2, Zenon DEF Waiting
  <2>. HIDE DEF v
  <2>5. ASSUME NEW i \in DOMAIN v, NEW j \in DOMAIN v, v[i].txn = v[j].txn
        PROVE  i = j
    <3>1. CASE i \in 1..Len(waits) /\ j \in 1..Len(waits)  BY <1>0, <2>3, <2>5, <3>1, Zenon DEF WaitsOK
    <3>2. CASE i \in 1..Len(waits) /\ j = Len(waits) + 1  BY <2>3, <2>4, <2>5, <3>2, Zenon
    <3>3. CASE i = Len(waits) + 1 /\ j \in 1..Len(waits)  BY <2>3, <2>4, <2>5, <3>3, Zenon
    <3>. QED  BY <1>0, <2>3, <3>1, <3>2, <3>3
  <2>. QED  BY <1>0, <1>2, <2>1, <2>3, <2>5, WaitAssumption DEF WaitsOK
<1>3. CASE ~Waiting(w.txn) /\ ~(Len(waits) < LOCK_MAX_WAITS)
  BY <1>3, Zenon DEF lock_wait_add
<1>. QED  BY <1>1, <1>2, <1>3, Zenon

\* lock_wait_clear keeps the list so, and leaves no wait of the transaction: the last wait
\* moves into the slot that becomes free.
LEMMA ClearKeeps ==
    ASSUME NEW A, WaitsOK(waits, A), NEW txn
    PROVE  WaitsOK(lock_wait_clear(txn), A \ {txn})
<1>0. Len(waits) \in Nat /\ DOMAIN waits = 1..Len(waits) /\ \A i \in DOMAIN waits : waits[i] \in Of(A)
  BY DEF WaitsOK
<1>00. \A i \in DOMAIN waits : waits[i].txn # txn => waits[i] \in Of(A \ {txn})
  BY <1>0, Zenon DEF Of
<1>1. CASE Waiting(txn)
  <2>. DEFINE i == CHOOSE j \in DOMAIN waits : waits[j].txn = txn
              last == Len(waits)
              from(n) == IF n = i THEN last ELSE n
              v == [j \in 1..(last - 1) |-> IF j = i THEN waits[last] ELSE waits[j]]
  <2>1. lock_wait_clear(txn) = v  BY <1>1, Zenon DEF lock_wait_clear
  <2>2. i \in 1..last /\ waits[i].txn = txn  BY <1>0, <1>1, Zenon DEF Waiting
  <2>. HIDE DEF i
  <2>3. ASSUME NEW j \in 1..(last - 1)
        PROVE  /\ from(j) \in DOMAIN waits /\ v[j] = waits[from(j)] /\ from(j) # i
               /\ v[j] \in Of(A \ {txn})
    <3>0. v[j] = IF j = i THEN waits[last] ELSE waits[j]  BY Zenon
    <3>1. from(j) \in DOMAIN waits /\ v[j] = waits[from(j)] /\ from(j) # i
      <4>1. CASE j = i
        <5>1. from(j) = last /\ v[j] = waits[last]  BY <3>0, <4>1, Zenon
        <5>2. last \in 1..last /\ last # j
          <6>1. last \in Nat  BY <1>0, Zenon
          <6>. HIDE DEF last
          <6>. QED  BY <6>1
        <5>. QED  BY <1>0, <4>1, <5>1, <5>2, Zenon
      <4>2. CASE j # i  BY <1>0, <2>2, <3>0, <4>2
      <4>. QED  BY <4>1, <4>2, Zenon
    <3>2. waits[from(j)].txn # txn  BY <1>0, <2>2, <3>1, Zenon DEF WaitsOK
    <3>. QED  BY <1>00, <3>1, <3>2, Zenon
  <2>4. v \in Seq(Of(A \ {txn})) /\ Len(v) = last - 1 /\ DOMAIN v = 1..(last - 1)
    <3>1. last - 1 \in Nat  BY <1>0, <2>2
    <3>2. \A j \in 1..(last - 1) : v[j] \in Of(A \ {txn})  BY <2>3, Zenon
    <3>3. v \in [1..(last - 1) -> Of(A \ {txn})]  BY <3>2, Zenon
    <3>. HIDE DEF v
    <3>. QED  BY <3>1, <3>3, SeqOf, Zenon
  <2>5. ASSUME NEW j \in DOMAIN v, NEW k \in DOMAIN v, v[j].txn = v[k].txn
        PROVE  j = k
    <3>1. j \in 1..(last - 1) /\ k \in 1..(last - 1)  BY Zenon
    <3>2. from(j) = from(k)  BY <2>3, <2>5, <3>1, Zenon DEF WaitsOK
    <3>. QED  BY <1>0, <3>1, <3>2
  <2>. HIDE DEF v
  <2>6. Len(v) <= LOCK_MAX_WAITS  BY <1>0, <2>4, WaitAssumption DEF WaitsOK
  <2>. QED  BY <2>1, <2>4, <2>5, <2>6, Zenon DEF WaitsOK
<1>2. CASE ~Waiting(txn)
  <2>1. \A i \in DOMAIN waits : waits[i] \in Of(A \ {txn})  BY <1>00, <1>2, Zenon DEF Waiting
  <2>2. waits \in [1..Len(waits) -> Of(A)]  BY LenProperties, Zenon DEF WaitsOK
  <2>3. waits \in [1..Len(waits) -> Of(A \ {txn})]  BY <1>0, <2>1, <2>2, Zenon
  <2>4. waits \in Seq(Of(A \ {txn}))  BY <1>0, <2>3, SeqOf, Zenon
  <2>. QED  BY <1>2, <2>4, Zenon DEF lock_wait_clear, WaitsOK
<1>. QED  BY <1>1, <1>2, Zenon

--------------------------------------------------------------------------------
(* The invariant.                                                                *)

\* What LockInv says, table and waits apart.
TableOK(E, A) ==
    /\ E \subseteq Of(A)
    /\ IsFiniteSet(E) /\ Cardinality(E) <= LOCK_MAX /\ ExclusiveIn(E)

\* The invariant in terms of the table and of the wait list.
LEMMA InvParts == LockInv <=> TableOK(entries, active) /\ WaitsOK(waits, active) /\ active \subseteq Txns
<1>1. active \subseteq Txns /\ waits \in Seq(Of(active)) => waits \in Seq(Wait)
  <2>1. active \subseteq Txns => Of(active) \subseteq Wait  BY Zenon DEF Of, Wait
  <2>. QED  BY <2>1
<1>. QED  BY <1>1, Zenon DEF LockInv, Exclusive, TypeOK, OneWait, TableOK, WaitsOK, Of

\* The same of the next state, as the steps below need it.
LEMMA InvPartsNext ==
    TableOK(entries', active') /\ WaitsOK(waits', active') /\ active' \subseteq Txns => LockInv'
<1>1. active' \subseteq Txns /\ waits' \in Seq(Of(active')) => waits' \in Seq(Wait)
  <2>1. active' \subseteq Txns => Of(active') \subseteq Wait  BY Zenon DEF Of, Wait
  <2>. QED  BY <2>1
<1>. QED  BY <1>1, Zenon DEF LockInv, Exclusive, TypeOK, OneWait, TableOK, WaitsOK, Of, Wait

\* Releasing all locks of a transaction that is active no more keeps the table in order.
LEMMA ReleaseKeeps ==
    ASSUME NEW E, NEW A, NEW txn, TableOK(E, A)
    PROVE  TableOK(lock_release_all(E, txn), A \ {txn})
<1>. DEFINE F == lock_release_all(E, txn)
<1>1. F \subseteq E  BY Zenon DEF lock_release_all
<1>2. IsFiniteSet(F) /\ Cardinality(F) <= LOCK_MAX  BY <1>1, FewerLocks, Zenon DEF TableOK
<1>3. F \subseteq Of(A \ {txn})
  BY Zenon DEF lock_release_all, TableOK, Of
<1>4. ExclusiveIn(F)  BY <1>1, Zenon DEF TableOK, ExclusiveIn
<1>. QED  BY <1>2, <1>3, <1>4, Zenon DEF TableOK

\* It holds at the start,
LEMMA LockInit == Init => LockInv
<1>. SUFFICES ASSUME Init PROVE LockInv  BY Zenon
<1>1. IsFiniteSet({}) /\ Cardinality({}) = 0  BY FS_EmptySet, Zenon
<1>2. TableOK(entries, active)  BY <1>1, LockAssumption DEF Init, TableOK, ExclusiveIn
<1>3. WaitsOK(waits, active)  BY WaitAssumption DEF Init, WaitsOK
<1>. QED  BY <1>2, <1>3, InvParts, Zenon DEF Init

\* and every step keeps it.
LEMMA LockStep == LockInv /\ [Next]_vars => LockInv'
<1>. SUFFICES ASSUME LockInv, [Next]_vars PROVE LockInv'  BY Zenon
<1>0. TableOK(entries, active) /\ WaitsOK(waits, active) /\ active \subseteq Txns  BY InvParts, Zenon
<1>1. ASSUME NEW txn \in Txns, NEW obj \in Objs, NEW mode \in LockMode, Grant(txn, obj, mode)
      PROVE  LockInv'
  <2>1. TableOK(Acquired(entries, txn, obj, mode), active)
    BY <1>0, <1>1, AcquireKeeps, Zenon DEF Grant, TableOK, Of
  <2>. QED  BY <1>0, <1>1, <2>1, InvPartsNext, Zenon DEF Grant
<1>2. ASSUME NEW txn \in Txns, NEW obj \in Objs, NEW mode \in LockMode, Block(txn, obj, mode)
      PROVE  LockInv'
  <2>1. [txn |-> txn, obj |-> obj, mode |-> mode] \in Of(active)  BY <1>2, Zenon DEF Block, Of
  <2>2. WaitsOK(waits', active')  BY <1>0, <1>2, <2>1, AddKeeps, Zenon DEF Block
  <2>. QED  BY <1>0, <1>2, <2>2, InvPartsNext, Zenon DEF Block
<1>3. ASSUME NEW txn \in Txns, Retry(txn) PROVE LockInv'
  <2>1. PICK i \in DOMAIN waits :
            /\ waits[i].txn = txn
            /\ Acquirable(entries, txn, waits[i].obj, waits[i].mode)
            /\ entries' = Acquired(entries, txn, waits[i].obj, waits[i].mode)
            /\ waits' = lock_wait_clear(txn)
            /\ UNCHANGED active
    BY <1>3, Zenon DEF Retry
  <2>2. waits[i] \in Of(active)  BY <1>0, <2>1 DEF WaitsOK
  <2>3. waits[i].obj \in Objs /\ waits[i].mode \in LockMode /\ txn \in active  BY <2>1, <2>2, Zenon DEF Of
  <2>4. TableOK(entries', active')  BY <1>0, <2>1, <2>3, AcquireKeeps, Zenon DEF TableOK, Of
  <2>5. WaitsOK(waits', active \ {txn})  BY <1>0, <2>1, ClearKeeps, Zenon
  <2>6. Of(active \ {txn}) \subseteq Of(active)  BY Zenon DEF Of
  <2>7. waits' \in Seq(Of(active))  BY <2>5, <2>6, SeqMonotonic, Zenon DEF WaitsOK
  <2>8. WaitsOK(waits', active')  BY <2>1, <2>5, <2>7, Zenon DEF WaitsOK
  <2>. QED  BY <1>0, <2>1, <2>4, <2>8, InvPartsNext, Zenon
<1>4. ASSUME NEW txn \in Txns, Finish(txn) PROVE LockInv'
  <2>1. TableOK(entries', active')  BY <1>0, <1>4, ReleaseKeeps, Zenon DEF Finish
  <2>2. waits = lock_wait_clear(txn)  BY <1>4, Zenon DEF Finish, lock_wait_clear
  <2>3. WaitsOK(waits', active')  BY <1>0, <1>4, <2>2, ClearKeeps, Zenon DEF Finish
  <2>. QED  BY <1>0, <1>4, <2>1, <2>3, InvPartsNext, Zenon DEF Finish
<1>5. ASSUME AbortVictim PROVE LockInv'
  <2>1. PICK txn \in lock_deadlock_victim : /\ entries' = lock_release_all(entries, txn)
                                            /\ waits' = lock_wait_clear(txn)
                                            /\ active' = active \ {txn}
    BY <1>5, Zenon DEF AbortVictim
  <2>2. TableOK(entries', active')  BY <1>0, <2>1, ReleaseKeeps, Zenon
  <2>3. WaitsOK(waits', active')  BY <1>0, <2>1, ClearKeeps, Zenon
  <2>. QED  BY <1>0, <2>1, <2>2, <2>3, InvPartsNext, Zenon
<1>6. CASE UNCHANGED vars
  BY <1>0, <1>6, InvPartsNext, Zenon DEF vars
<1>. QED  BY <1>1, <1>2, <1>3, <1>4, <1>5, <1>6, Zenon DEF Next

\* The invariant holds in every reachable state.
THEOREM LockInvariance == Spec => []LockInv
BY LockInit, LockStep, PTL DEF Spec

\* Table and wait list keep within their slots, and no lock outlives its transaction.
THEOREM TypeCorrect == Spec => []TypeOK
<1>1. LockInv => TypeOK  BY Zenon DEF LockInv
<1>. QED  BY <1>1, LockInvariance, PTL

\* The matrix of lock.h holds among all locks in every reachable state, for any transactions,
\* objects and slots.
THEOREM Exclusion == Spec => []Exclusive
<1>1. LockInv => Exclusive  BY Zenon DEF LockInv
<1>. QED  BY <1>1, LockInvariance, PTL

--------------------------------------------------------------------------------
(* Deadlock detection.                                                           *)

\* A nonempty set of naturals has a least element.
LEMMA LeastNat ==
    ASSUME NEW T \in SUBSET Nat, T # {}
    PROVE  \E x \in T : \A y \in T : x <= y
<1>1. PICK x \in T : \A y \in T : ~(<<y, x>> \in OpToRel(<, Nat))
  BY NatLessThanWellFounded, WFMin, Zenon
<1>2. \A y \in T : ~(y < x)  BY <1>1, Zenon DEF OpToRel
<1>. QED  BY <1>2

\* The search follows exactly the waits that the matrix calls for.
LEMMA EdgeIsWait ==
    ASSUME LockInv, NEW t, NEW u
    PROVE  u \in wait_targets(t) <=> WaitsFor(t, u)
<1>0. /\ entries \subseteq Of(active)
      /\ \A i \in DOMAIN waits : waits[i] \in Of(active)
  BY InvParts DEF TableOK, WaitsOK
<1>1. ASSUME NEW e \in entries, NEW i \in DOMAIN waits
      PROVE  (e.obj = waits[i].obj /\ e.txn # waits[i].txn /\ Conflict(e, waits[i].mode))
                 <=> ~ExclusiveIn({e, waits[i]})
  <2>1. e.mode \in {"S", "X"} /\ waits[i].mode \in {"S", "X"}  BY <1>0, Zenon DEF Of, LockMode
  <2>. QED  BY <2>1, Zenon DEF Conflict, ExclusiveIn
<1>2. u \in wait_targets(t) <=>
          \E e \in entries : /\ e.txn = u
                             /\ \E i \in DOMAIN waits : /\ waits[i].txn = t /\ e.obj = waits[i].obj
                                                       /\ e.txn # t /\ Conflict(e, waits[i].mode)
  BY Zenon DEF wait_targets
<1>3. WaitsFor(t, u) <=> \E e \in entries : /\ e.txn = u
                                            /\ \E i \in DOMAIN waits : /\ waits[i].txn = t
                                                                      /\ ~ExclusiveIn({e, waits[i]})
  BY Zenon DEF WaitsFor
<1>4. ASSUME u \in wait_targets(t) PROVE WaitsFor(t, u)
  <2>1. PICK e \in entries, i \in DOMAIN waits :
            e.txn = u /\ waits[i].txn = t /\ e.obj = waits[i].obj /\ e.txn # t /\ Conflict(e, waits[i].mode)
    BY <1>2, <1>4, Zenon
  <2>2. ~ExclusiveIn({e, waits[i]})  BY <1>1, <2>1, Zenon
  <2>. QED  BY <1>3, <2>1, <2>2, Zenon
<1>5. ASSUME WaitsFor(t, u) PROVE u \in wait_targets(t)
  <2>1. PICK e \in entries, i \in DOMAIN waits : e.txn = u /\ waits[i].txn = t /\ ~ExclusiveIn({e, waits[i]})
    BY <1>3, <1>5, Zenon
  <2>2. e.obj = waits[i].obj /\ e.txn # waits[i].txn /\ Conflict(e, waits[i].mode)  BY <1>1, <2>1, Zenon
  <2>. QED  BY <1>2, <2>1, <2>2, Zenon
<1>. QED  BY <1>4, <1>5, Zenon

\* The naturals 1..n are n.
LEMMA CountUpTo == ASSUME NEW n \in Nat PROVE IsFiniteSet(1..n) /\ Cardinality(1..n) = n
BY FS_Interval

\* Different naturals 1..n for different elements of a finite set: there are no more.
LEMMA NoMore ==
    ASSUME NEW n \in Nat, NEW T, IsFiniteSet(T), NEW f \in [1..n -> T],
           \A i, j \in 1..n : f[i] = f[j] => i = j
    PROVE  n <= Cardinality(T)
<1>1. f \in Injection(1..n, T)  BY Zenon DEF Injection, IsInjective
<1>2. Cardinality(1..n) <= Cardinality(T)  BY <1>1, FS_Injection, Zenon
<1>3. Cardinality(1..n) = n  BY CountUpTo, Zenon
<1>. QED  BY <1>2, <1>3, Zenon

\* Only transactions wait.
LEMMA WaitersType == ASSUME LockInv PROVE Waiters \subseteq Txns
<1>1. \A i \in DOMAIN waits : waits[i] \in Of(active)  BY InvParts DEF WaitsOK
<1>2. active \subseteq Txns  BY InvParts, Zenon
<1>3. \A i \in DOMAIN waits : waits[i].txn \in Txns  BY <1>1, <1>2, Zenon DEF Of
<1>. QED  BY <1>3, Zenon DEF Waiters

\* What lock_deadlock_victim can name is on a cycle of waits: from its place on the path
\* back to itself.
LEMMA VictimIsOnCycle ==
    ASSUME LockInv, NEW txn \in lock_deadlock_victim
    PROVE  OnCycle(txn)
<1>0. \A w \in Waiters : w \in Txns  BY WaitersType, Zenon
<1>1. PICK s : txn \in dfs_cycle(s)  BY Zenon DEF lock_deadlock_victim
<1>2. PICK p \in Paths(s) : txn \in {p[i] : i \in DOMAIN p} \cap wait_targets(p[Len(p)])
  BY <1>1, Zenon DEF dfs_cycle
<1>3. PICK n \in 1..LOCK_MAX_WAITS :
          /\ p \in [1..n -> Waiters]
          /\ \A i, j \in 1..n : p[i] = p[j] => i = j
          /\ \A i \in 2..n : p[i] \in wait_targets(p[i - 1])
  BY <1>2, Zenon DEF Paths
<1>4. n \in Nat \ {0}  BY <1>3, WaitAssumption
<1>5. p \in [1..n -> Txns]  BY <1>0, <1>3, Zenon
<1>6. Len(p) = n /\ DOMAIN p = 1..n  BY <1>4, <1>5, SeqOf, Zenon
<1>7. PICK k \in 1..n : txn = p[k] /\ txn \in wait_targets(p[n])  BY <1>2, <1>6, Zenon
<1>. DEFINE m == n + 1 - k
            q == [i \in 0..m |-> IF i = m THEN txn ELSE p[k + i]]
<1>8. m \in 1..n /\ m \in Nat  BY <1>4, <1>7
<1>9. n <= Cardinality(Txns) /\ Cardinality(Txns) \in Nat
  BY <1>3, <1>4, <1>5, NoMore, FS_CardinalityType, WaitAssumption, Zenon
<1>10. m \in 1..Cardinality(Txns)  BY <1>4, <1>8, <1>9
<1>11. \A i \in 0..(m - 1) : k + i \in 1..n  BY <1>4, <1>7
<1>12. txn \in Txns  BY <1>5, <1>7, Zenon
<1>13. q \in [0..m -> Txns]
  <2>1. \A i \in 0..m : i # m => i \in 0..(m - 1)  BY <1>8
  <2>. QED  BY <1>5, <1>11, <1>12, <2>1, Zenon
<1>14. q[0] = txn /\ q[m] = txn  BY <1>4, <1>7, <1>8
<1>15. ASSUME NEW i \in 1..m PROVE WaitsFor(q[i - 1], q[i])
  <2>1. i - 1 \in 0..(m - 1) /\ i - 1 # m /\ q[i - 1] = p[k + (i - 1)]  BY <1>8
  <2>2. CASE i = m
    <3>1. k + (i - 1) = n  BY <1>4, <1>7, <2>2
    <3>2. q[i] = txn  BY <2>2
    <3>. QED  BY <1>7, <2>1, <3>1, <3>2, EdgeIsWait, Zenon
  <2>3. CASE i # m
    <3>1. k + i \in 2..n /\ (k + i) - 1 = k + (i - 1)  BY <1>4, <1>7, <1>8, <2>3
    <3>2. q[i] = p[k + i]  BY <1>8, <2>3
    <3>3. p[k + i] \in wait_targets(p[k + (i - 1)])  BY <1>3, <3>1, Zenon
    <3>. QED  BY <2>1, <3>2, <3>3, EdgeIsWait, Zenon
  <2>. QED  BY <2>2, <2>3, Zenon
<1>. HIDE DEF q, m
<1>. QED  BY <1>10, <1>13, <1>14, <1>15, Zenon DEF OnCycle

\* A closed walk of n waits.
Walk(p, n) ==
    /\ p \in [0..n -> Txns] /\ p[n] = p[0]
    /\ \A i \in 1..n : WaitsFor(p[i - 1], p[i])

\* If there is a cycle, the search finds one: a shortest closed walk meets no transaction
\* twice, each of them waits in a slot of its own, so that the walk is a path of the search.
LEMMA CycleIsFound ==
    ASSUME LockInv, NEW txn \in Txns, OnCycle(txn)
    PROVE  lock_deadlock_victim # {}
<1>0. /\ Len(waits) \in Nat /\ DOMAIN waits = 1..Len(waits) /\ Len(waits) <= LOCK_MAX_WAITS
      /\ \A i, j \in DOMAIN waits : waits[i].txn = waits[j].txn => i = j
  BY InvParts DEF WaitsOK
<1>. DEFINE C == {n \in Nat \ {0} : \E p : Walk(p, n)}
<1>1. C # {}
  <2>1. PICK n \in 1..Cardinality(Txns) : \E p \in [0..n -> Txns] :
            p[0] = txn /\ p[n] = txn /\ \A i \in 1..n : WaitsFor(p[i - 1], p[i])
    BY Zenon DEF OnCycle
  <2>2. n \in Nat \ {0}  BY <2>1, FS_CardinalityType, WaitAssumption
  <2>3. \E p : Walk(p, n)  BY <2>1, Zenon DEF Walk
  <2>. QED  BY <2>2, <2>3, Zenon
<1>2. PICK n \in C : \A m \in C : n <= m  BY <1>1, LeastNat, Zenon
<1>3. n \in Nat \ {0}  BY <1>2, Zenon
<1>4. PICK p : Walk(p, n)  BY <1>2, Zenon
<1>5. ASSUME NEW i \in 0..(n - 1), NEW j \in 0..(n - 1), i < j, p[i] = p[j]
      PROVE  FALSE
  <2>. DEFINE m == j - i
              q == [k \in 0..m |-> p[i + k]]
  <2>1. m \in Nat \ {0} /\ m < n  BY <1>3, <1>5
  <2>2. \A k \in 0..m : i + k \in 0..n  BY <1>3, <1>5
  <2>3. q \in [0..m -> Txns]  BY <1>4, <2>2, Zenon DEF Walk
  <2>4. q[m] = q[0]  BY <1>5, <2>1
  <2>5. ASSUME NEW k \in 1..m PROVE WaitsFor(q[k - 1], q[k])
    <3>1. i + k \in 1..n /\ (i + k) - 1 = i + (k - 1)  BY <1>3, <1>5
    <3>2. q[k] = p[i + k] /\ q[k - 1] = p[i + (k - 1)]  BY <2>1
    <3>. QED  BY <1>4, <3>1, <3>2, Zenon DEF Walk
  <2>. HIDE DEF q, m
  <2>6. Walk(q, m)  BY <2>3, <2>4, <2>5, Zenon DEF Walk
  <2>7. m \in C  BY <2>1, <2>6, Zenon
  <2>. QED  BY <1>2, <1>3, <2>1, <2>7
<1>6. \A k \in 0..(n - 1) : p[k] \in Waiters
  <2>. SUFFICES ASSUME NEW k \in 0..(n - 1) PROVE p[k] \in Waiters  BY Zenon
  <2>1. k + 1 \in 1..n /\ (k + 1) - 1 = k  BY <1>3
  <2>2. WaitsFor(p[k], p[k + 1])  BY <1>4, <2>1, Zenon DEF Walk
  <2>. QED  BY <2>2, Zenon DEF WaitsFor, Waiters
<1>. DEFINE r == [k \in 1..n |-> p[k - 1]]
<1>7. \A k \in 1..n : k - 1 \in 0..(n - 1)  BY <1>3
<1>8. r \in [1..n -> Waiters]  BY <1>6, <1>7, Zenon
<1>9. \A i, j \in 1..n : r[i] = r[j] => i = j
  <2>. SUFFICES ASSUME NEW i \in 1..n, NEW j \in 1..n, r[i] = r[j], i # j PROVE FALSE  BY Zenon
  <2>1. i - 1 \in 0..(n - 1) /\ j - 1 \in 0..(n - 1) /\ p[i - 1] = p[j - 1]  BY <1>7, Zenon
  <2>2. CASE i - 1 < j - 1  BY <1>5, <2>1, <2>2, Zenon
  <2>3. CASE j - 1 < i - 1  BY <1>5, <2>1, <2>3, Zenon
  <2>. QED  BY <1>3, <2>2, <2>3
<1>10. \A k \in 2..n : r[k] \in wait_targets(r[k - 1])
  <2>. SUFFICES ASSUME NEW k \in 2..n PROVE r[k] \in wait_targets(r[k - 1])  BY Zenon
  <2>1. k - 1 \in 1..n /\ k \in 1..n  BY <1>3
  <2>2. WaitsFor(p[(k - 1) - 1], p[k - 1])  BY <1>4, <2>1, Zenon DEF Walk
  <2>3. r[k] = p[k - 1] /\ r[k - 1] = p[(k - 1) - 1]  BY <2>1, Zenon
  <2>. QED  BY <2>2, <2>3, EdgeIsWait, Zenon
<1>11. r[1] \in wait_targets(r[n])
  <2>1. 1 \in 1..n /\ n \in 1..n  BY <1>3
  <2>2. r[1] = p[0] /\ r[n] = p[n - 1]  BY <2>1
  <2>3. WaitsFor(p[n - 1], p[0])  BY <1>4, <2>1, Zenon DEF Walk
  <2>. QED  BY <2>2, <2>3, EdgeIsWait, Zenon
<1>. HIDE DEF r
<1>12. n \in 1..LOCK_MAX_WAITS
  <2>. DEFINE slot == [k \in 1..n |-> CHOOSE i \in DOMAIN waits : waits[i].txn = r[k]]
  <2>1. \A k \in 1..n : slot[k] \in 1..Len(waits) /\ waits[slot[k]].txn = r[k]
    <3>. SUFFICES ASSUME NEW k \in 1..n
                  PROVE  slot[k] \in 1..Len(waits) /\ waits[slot[k]].txn = r[k]
      BY Zenon
    <3>1. \E i \in DOMAIN waits : waits[i].txn = r[k]  BY <1>8, Zenon DEF Waiters
    <3>. QED  BY <1>0, <3>1, Zenon
  <2>2. slot \in [1..n -> 1..Len(waits)]  BY <2>1, Zenon
  <2>. HIDE DEF slot
  <2>3. \A i, j \in 1..n : slot[i] = slot[j] => i = j  BY <1>9, <2>1, Zenon
  <2>4. IsFiniteSet(1..Len(waits)) /\ Cardinality(1..Len(waits)) = Len(waits)  BY <1>0, CountUpTo, Zenon
  <2>5. n <= Len(waits)
    <3>1. n \in Nat  BY <1>3
    <3>2. n <= Cardinality(1..Len(waits))  BY <2>2, <2>3, <2>4, <3>1, NoMore, Zenon
    <3>. QED  BY <2>4, <3>2, Zenon
  <2>. QED  BY <1>0, <1>3, <2>5, WaitAssumption
<1>13. r \in Paths(r[1])
  <2>. DEFINE Q(k) == {s \in [1..k -> Waiters] :
                         /\ s[1] = r[1]
                         /\ \A i, j \in 1..k : s[i] = s[j] => i = j
                         /\ \A i \in 2..k : s[i] \in wait_targets(s[i - 1])}
  <2>1. r \in Q(n)  BY <1>8, <1>9, <1>10, Zenon
  <2>2. Paths(r[1]) = UNION {Q(k) : k \in 1..LOCK_MAX_WAITS}  BY Zenon DEF Paths
  <2>. HIDE DEF Q
  <2>. QED  BY <1>12, <2>1, <2>2, Zenon
<1>14. r[1] \in dfs_cycle(r[1])
  <2>1. Len(r) = n /\ DOMAIN r = 1..n /\ 1 \in 1..n  BY <1>3, <1>8, SeqOf
  <2>. QED  BY <1>11, <1>13, <2>1 DEF dfs_cycle
<1>. DEFINE H == {i \in DOMAIN waits : dfs_cycle(waits[i].txn) # {}}
<1>15. H # {}
  <2>1. r[1] \in Waiters  BY <1>3, <1>8
  <2>. QED  BY <1>14, <2>1, Zenon DEF Waiters
<1>16. PICK h \in H : \A i \in H : h <= i
  <2>1. H \in SUBSET Nat  BY <1>0
  <2>. QED  BY <1>15, <2>1, LeastNat, Zenon
<1>17. \A k \in 1..(h - 1) : dfs_cycle(waits[k].txn) = {}
  <2>. SUFFICES ASSUME NEW k \in 1..(h - 1) PROVE k \notin H /\ k \in DOMAIN waits  BY Zenon
  <2>1. h \in DOMAIN waits /\ h \in 1..Len(waits)  BY <1>0, <1>16, Zenon
  <2>2. k \in 1..Len(waits) /\ ~(h <= k)
    <3>1. Len(waits) \in Nat  BY <1>0, Zenon
    <3>. QED  BY <2>1, <3>1
  <2>3. k \notin H  BY <1>16, <2>2, Zenon
  <2>. HIDE DEF H
  <2>. QED  BY <1>0, <2>2, <2>3, Zenon
<1>. QED  BY <1>16, <1>17, Zenon DEF lock_deadlock_victim

\* The deadlock search is exact in every reachable state: lock_deadlock_victim names a
\* transaction if and only if some wait for each other in a cycle, and one of the cycle.
THEOREM DeadlockExact == Spec => []VictimOnCycle
<1>1. LockInv => VictimOnCycle  BY VictimIsOnCycle, CycleIsFound, Zenon DEF VictimOnCycle
<1>. QED  BY <1>1, LockInvariance, PTL

================================================================================
