----------------------------- MODULE BufPoolProofs -----------------------------
(* Proofs about BufPool, for any number of threads, pages and frames.            *)
EXTENDS BufPool, FiniteSetTheorems, TLAPS

Busy == {"read", "load", "use"}

\* A thread between fetch and unpin holds a frame with the page it asked for; the frame is
\* io_pending exactly while the thread reads.
Held ==
    \A t \in Threads : st[t] \in Busy =>
        /\ at[t] \in Frames /\ want[t] \in Pages
        /\ frame[at[t]].valid /\ frame[at[t]].page_id = want[t]
        /\ frame[at[t]].io_pending <=> st[t] # "use"

\* A frame being loaded is valid, clean and held by one thread.
Loading ==
    \A i \in Frames : frame[i].io_pending =>
        /\ frame[i].valid /\ ~frame[i].dirty
        /\ Holders(i) # {} /\ \A t, u \in Holders(i) : t = u

\* Only a holder has written, and frames hold pages of the file.
Sane ==
    /\ \A t \in Threads : wrote[t] => st[t] = "use"
    /\ \A i \in Frames : frame[i].valid => frame[i].page_id \in Pages

\* A frame with its bytes has the latest ones.
Current ==
    \A i \in Frames : frame[i].valid /\ ~frame[i].io_pending => frame[i].data = latest[frame[i].page_id]

\* So has the disk, for a page no frame keeps changes of.
Clean(i) == ~frame[i].dirty /\ \A t \in Holders(i) : ~wrote[t]
OnDisk ==
    \A p \in Pages : (\A i \in Frames : Has(i, p) => Clean(i)) => disk[p] = latest[p]

\* A read that succeeded brought what the disk has.
Fetched ==
    \A t \in Threads : st[t] = "load" /\ ok[t] => frame[at[t]].data = disk[want[t]]

PoolInv ==
    /\ PoolTypeOK /\ OneFramePerPage /\ PinsCounted
    /\ Held /\ Loading /\ Sane /\ Current /\ OnDisk /\ Fetched

--------------------------------------------------------------------------------

\* Holder sets are finite.
LEMMA HoldersFinite ==
    \A i \in Frames : IsFiniteSet(Holders(i))
<1>1. TAKE i \in Frames
<1>2. Holders(i) \subseteq Threads
  BY Zenon DEF Holders
<1> QED BY <1>2, FS_Subset, PoolAssumption

\* The pool starts in the invariant.
LEMMA InitInv ==
    PoolInit => PoolInv
<1> SUFFICES ASSUME PoolInit PROVE PoolInv
  BY Zenon
<1>1. PoolTypeOK
  BY PoolAssumption DEF PoolInit, PoolTypeOK, Free
<1>2. \A i \in Frames : Holders(i) = {}
  BY Zenon DEF PoolInit, Holders
<1>3. PinsCounted
  BY <1>2, FS_EmptySet, Zenon DEF PoolInit, PinsCounted, Free
<1>4. OneFramePerPage /\ Loading /\ Current
  BY Zenon DEF PoolInit, OneFramePerPage, Loading, Current, Free
<1>5. Held /\ Sane /\ Fetched
  BY Zenon DEF PoolInit, Held, Sane, Fetched, Free, Busy
<1>6. OnDisk
  BY Zenon DEF PoolInit, OnDisk
<1> QED BY <1>1, <1>3, <1>4, <1>5, <1>6 DEF PoolInv

--------------------------------------------------------------------------------
(* One lemma for each action.                                                    *)

\* A hit adds its thread to the holders of one frame, and one to that frame's count.
LEMMA HitInv ==
    ASSUME PoolInv, NEW t \in Threads, NEW p \in Pages, NEW i \in Frames, Hit(t, p, i)
    PROVE  PoolInv'
<1>1. /\ st[t] \in {"idle", "woken"}
      /\ frame[i].valid /\ frame[i].page_id = p /\ ~frame[i].io_pending
  BY Zenon DEF Hit, Asks, Has
<1>2. PoolTypeOK
  BY Zenon DEF PoolInv
<1>3. /\ \A j \in Frames \ {i} : frame'[j] = frame[j]
      /\ frame'[i] = [frame[i] EXCEPT !.pin_count = frame[i].pin_count + 1]
  BY <1>2, Zenon DEF Hit, PoolTypeOK
<1>4. /\ frame'[i].pin_count = frame[i].pin_count + 1
      /\ \A j \in Frames : /\ frame'[j].valid <=> frame[j].valid
                           /\ frame'[j].dirty <=> frame[j].dirty
                           /\ frame'[j].io_pending <=> frame[j].io_pending
                           /\ frame'[j].page_id = frame[j].page_id
                           /\ frame'[j].data = frame[j].data
  BY <1>2, <1>3 DEF PoolTypeOK
<1>5. /\ st'[t] = "use" /\ want'[t] = p /\ at'[t] = i
      /\ \A u \in Threads \ {t} : st'[u] = st[u] /\ want'[u] = want[u] /\ at'[u] = at[u]
  BY <1>2, Zenon DEF Hit, PoolTypeOK
<1>6. UNCHANGED <<disk, can_steal, ok, wrote, latest, errors>>
  BY Zenon DEF Hit
<1>7. PoolTypeOK'
  <2>1. frame' \in [Frames -> [page_id : Nat, valid : BOOLEAN, dirty : BOOLEAN, pin_count : Nat,
                               io_pending : BOOLEAN, data : Nat]]
    BY <1>2 DEF Hit, PoolTypeOK
  <2>2. st' \in [Threads -> {"idle", "wait", "woken", "read", "load", "use"}]
    BY <1>2, SMTT(30) DEF Hit, PoolTypeOK
  <2>3. want' \in [Threads -> Nat] /\ at' \in [Threads -> Nat]
    BY <1>2, PoolAssumption, SMTT(30) DEF Hit, PoolTypeOK, Frames
  <2> QED BY <1>2, <1>6, <2>1, <2>2, <2>3 DEF PoolTypeOK
<1>8. /\ \A j \in Frames \ {i} : Holders(j)' = Holders(j)
      /\ Holders(i)' = Holders(i) \cup {t} /\ t \notin Holders(i)
  BY <1>1, <1>5, Zenon DEF Holders
<1>9. PinsCounted'
  <2>1. Cardinality(Holders(i)') = Cardinality(Holders(i)) + 1
    <3>1. IsFiniteSet(Holders(i))
      BY HoldersFinite, Zenon
    <3>2. Cardinality(Holders(i) \cup {t}) = Cardinality(Holders(i)) + 1
      BY <1>8, <3>1, FS_AddElement, Zenon
    <3> QED BY <1>8, <3>2
  <2> QED BY <1>3, <1>4, <1>8, <2>1, ZenonT(60) DEF PoolInv, PinsCounted
<1>10. OneFramePerPage'
  BY <1>3, <1>4, Zenon DEF PoolInv, OneFramePerPage
<1>11. Held'
  BY <1>1, <1>3, <1>4, <1>5 DEF Held, PoolInv
<1>12. Loading'
  BY <1>1, <1>3, <1>4, <1>8 DEF PoolInv, Loading
<1>13. Sane'
  BY <1>1, <1>3, <1>4, <1>5, <1>6 DEF PoolInv, Sane
<1>14. Current'
  BY <1>3, <1>4, <1>6, Zenon DEF PoolInv, Current
<1>15. OnDisk'
  BY <1>1, <1>3, <1>4, <1>6, <1>8 DEF PoolInv, Sane, Clean, Has, OnDisk
<1>16. Fetched'
  BY <1>4, <1>5, <1>6 DEF PoolInv, Fetched, Held, Busy
<1> QED BY <1>7, <1>9, <1>10, <1>11, <1>12, <1>13, <1>14, <1>15, <1>16 DEF PoolInv

\* Steps of a thread that holds nothing, before and after.
LEMMA QuietInv ==
    ASSUME PoolInv, PoolTypeOK', UNCHANGED <<frame, disk, at, ok, wrote, latest>>,
           \A u \in Threads : \/ st'[u] = st[u] /\ want'[u] = want[u]
                              \/ st[u] \notin Busy /\ st'[u] \notin Busy
    PROVE  PoolInv'
<1>1. \A i \in Frames : Holders(i)' = Holders(i)
  BY Zenon DEF Holders, Busy
<1>2. OneFramePerPage' /\ Current'
  BY Zenon DEF PoolInv, OneFramePerPage, Current
<1>3. PinsCounted' /\ Loading'
  BY <1>1 DEF PoolInv, PinsCounted, Loading
<1>4. Held'
  BY Zenon DEF PoolInv, Held
<1>5. Sane'
  BY Zenon DEF PoolInv, Sane, Busy
<1>6. OnDisk'
  BY <1>1, Zenon DEF PoolInv, OnDisk, Has, Clean
<1>7. Fetched'
  BY Zenon DEF PoolInv, Fetched, Busy
<1> QED BY <1>2, <1>3, <1>4, <1>5, <1>6, <1>7 DEF PoolInv

\* A thread that waits for another one's load (fetch_locked) holds nothing.
LEMMA WaitInv ==
    ASSUME PoolInv, NEW t \in Threads, NEW p \in Pages, NEW i \in Frames, WaitForLoad(t, p, i)
    PROVE  PoolInv'
<1>1. PoolTypeOK'
  BY PoolAssumption, Zenon DEF PoolInv, PoolTypeOK, WaitForLoad
<1>2. \A u \in Threads : \/ st'[u] = st[u] /\ want'[u] = want[u]
                         \/ st[u] \notin Busy /\ st'[u] \notin Busy
  BY Zenon DEF PoolInv, PoolTypeOK, WaitForLoad, Asks, Busy
<1> QED BY <1>1, <1>2, QuietInv DEF WaitForLoad

\* A fetch that finds every frame pinned returns NULL and changes no frame.
LEMMA NoFrameInv ==
    ASSUME PoolInv, NEW t \in Threads, NEW p \in Pages, NoFrame(t, p)
    PROVE  PoolInv'
<1>1. errors' \in 0..MaxErrors
  BY PoolAssumption DEF PoolInv, PoolTypeOK, NoFrame
<1>2. PoolTypeOK'
  BY <1>1, Zenon DEF PoolInv, PoolTypeOK, NoFrame, call
<1>3. \A u \in Threads : \/ st'[u] = st[u] /\ want'[u] = want[u]
                         \/ st[u] \notin Busy /\ st'[u] \notin Busy
  BY Zenon DEF PoolInv, PoolTypeOK, NoFrame, Asks, Busy, call
<1> QED BY <1>2, <1>3, QuietInv DEF NoFrame, call

\* A wake-up without a broadcast only makes the thread look again.
LEMMA WakeupInv ==
    ASSUME PoolInv, NEW t \in Threads, SpuriousWakeup(t)
    PROVE  PoolInv'
<1>1. PoolTypeOK'
  BY Zenon DEF PoolInv, PoolTypeOK, SpuriousWakeup, call
<1>2. \A u \in Threads : \/ st'[u] = st[u] /\ want'[u] = want[u]
                         \/ st[u] \notin Busy /\ st'[u] \notin Busy
  BY Zenon DEF PoolInv, PoolTypeOK, SpuriousWakeup, Busy, call
<1> QED BY <1>1, <1>2, QuietInv DEF SpuriousWakeup, call

\* A miss takes a frame nobody holds, after its bytes are safe on disk.
LEMMA MissInv ==
    ASSUME PoolInv, NEW t \in Threads, NEW p \in Pages, NEW i \in Frames, Miss(t, p, i)
    PROVE  PoolInv'
<1>1. st[t] \in {"idle", "woken"} /\ \A j \in Frames : ~(frame[j].valid /\ frame[j].page_id = p)
  BY Zenon DEF Miss, Asks, Cached, Has
<1>2. PoolTypeOK
  BY Zenon DEF PoolInv
<1>3. Holders(i) = {}
  <2>1. CASE ~frame[i].valid
    BY <2>1, Zenon DEF PoolInv, Held, Holders, Busy
  <2>2. CASE frame[i].valid
    BY <2>2, HoldersFinite, FS_EmptySet, Zenon DEF Miss, Pick, Evictable, PoolInv, PinsCounted
  <2> QED BY <2>1, <2>2
<1>4. ~frame[i].io_pending
  BY <1>3, Zenon DEF PoolInv, Loading
<1>5. /\ \A j \in Frames \ {i} : frame'[j] = frame[j]
      /\ frame'[i] = [frame[i] EXCEPT !.page_id = p, !.valid = TRUE, !.dirty = FALSE, !.pin_count = 1,
                                      !.io_pending = TRUE]
  BY <1>2, Zenon DEF Miss, Reserved, PoolTypeOK
<1>6. /\ frame'[i].page_id = p /\ frame'[i].valid /\ ~frame'[i].dirty /\ frame'[i].pin_count = 1
      /\ frame'[i].io_pending
      /\ \A j \in Frames : j # i =>
            /\ frame'[j].page_id = frame[j].page_id /\ frame'[j].pin_count = frame[j].pin_count
            /\ frame'[j].data = frame[j].data
            /\ frame'[j].valid <=> frame[j].valid
            /\ frame'[j].dirty <=> frame[j].dirty
            /\ frame'[j].io_pending <=> frame[j].io_pending
  BY <1>2, <1>5 DEF PoolTypeOK
<1>7. /\ st'[t] = "read" /\ want'[t] = p /\ at'[t] = i
      /\ \A u \in Threads \ {t} : st'[u] = st[u] /\ want'[u] = want[u] /\ at'[u] = at[u]
  BY <1>2, Zenon DEF Miss, PoolTypeOK
<1>8. UNCHANGED <<can_steal, ok, wrote, latest, errors>>
  BY Zenon DEF Miss
<1>9. /\ frame[i].valid /\ frame[i].dirty => disk' = [disk EXCEPT ![frame[i].page_id] = frame[i].data]
      /\ ~(frame[i].valid /\ frame[i].dirty) => disk' = disk
  BY Zenon DEF Miss, Written
<1>10. PoolTypeOK'
  <2>1. frame' \in [Frames -> [page_id : Nat, valid : BOOLEAN, dirty : BOOLEAN, pin_count : Nat,
                               io_pending : BOOLEAN, data : Nat]]
    BY <1>2, PoolAssumption, ZenonT(60) DEF Miss, Reserved, PoolTypeOK
  <2>2. /\ st' \in [Threads -> {"idle", "wait", "woken", "read", "load", "use"}]
        /\ want' \in [Threads -> Nat] /\ at' \in [Threads -> Nat]
    BY <1>2, PoolAssumption DEF Miss, PoolTypeOK, Frames
  <2>3. frame[i].data \in Nat
    BY <1>2, Zenon DEF PoolTypeOK
  <2>4. disk' \in [Pages -> Nat]
    BY <1>2, <1>9, <2>3, Zenon DEF PoolTypeOK
  <2> QED BY <1>2, <1>8, <2>1, <2>2, <2>4 DEF PoolTypeOK
<1>11. /\ \A j \in Frames : j # i => Holders(j)' = Holders(j)
       /\ Holders(i)' = {t}
  BY <1>1, <1>3, <1>7 DEF Holders
<1>12. PinsCounted'
  BY <1>6, <1>11, FS_Singleton DEF PoolInv, PinsCounted
<1>13. OneFramePerPage'
  BY <1>1, <1>6 DEF PoolInv, OneFramePerPage
<1>14. Held'
  BY <1>3, <1>6, <1>7, SMTT(30) DEF Held, Holders, Busy, PoolInv
<1>15. Loading'
  BY <1>6, <1>11 DEF PoolInv, Loading
<1>16. Sane'
  BY <1>1, <1>6, <1>7, <1>8 DEF PoolInv, Sane
<1>17. Current'
  BY <1>6, <1>8, Zenon DEF PoolInv, Current
<1>18. \A q \in Pages : ~(frame[i].valid /\ frame[i].page_id = q) => disk'[q] = disk[q]
  BY <1>2, <1>9, Zenon DEF PoolTypeOK
<1>19. OnDisk'
  <2> SUFFICES ASSUME NEW q \in Pages, \A j \in Frames : Has(j, q)' => Clean(j)'
               PROVE  disk'[q] = latest'[q]
    BY Zenon DEF OnDisk
  <2>1. CASE frame[i].valid /\ frame[i].page_id = q /\ frame[i].dirty
    BY <2>1, <1>2, <1>4, <1>8, <1>9, Zenon DEF PoolInv, Current, PoolTypeOK
  <2>2. CASE frame[i].valid /\ frame[i].page_id = q /\ ~frame[i].dirty
    BY <1>3, <1>8, <1>9, <2>2, Zenon DEF PoolInv, OneFramePerPage, Has, Clean, OnDisk
  <2>3. CASE ~(frame[i].valid /\ frame[i].page_id = q)
    BY <1>6, <1>8, <1>11, <1>18, <2>3 DEF Has, Clean, PoolInv, OnDisk
  <2> QED BY <2>1, <2>2, <2>3
<1>20. Fetched'
  BY <1>3, <1>6, <1>7, <1>8, <1>18, SMTT(60) DEF Fetched, PoolInv, Held, Busy, Holders,
     OneFramePerPage
<1> QED BY <1>10, <1>12, <1>13, <1>14, <1>15, <1>16, <1>17, <1>19, <1>20 DEF PoolInv

\* The read fills a frame nobody looks into yet.
LEMMA ReadInv ==
    ASSUME PoolInv, NEW t \in Threads, ReadPage(t)
    PROVE  PoolInv'
<1>1. PoolTypeOK /\ st[t] = "read"
  BY Zenon DEF PoolInv, ReadPage
<1>at. PICK k \in Frames : k = at[t]
  BY <1>1, Zenon DEF PoolInv, Held, Busy
<1>2. /\ want[t] \in Pages /\ frame[k].valid /\ frame[k].page_id = want[t]
      /\ frame[k].io_pending
  BY <1>at, <1>1, Zenon DEF PoolInv, Held, Busy
<1>3. t \in Holders(k) /\ \A u \in Holders(k) : u = t
  BY <1>1, <1>2, <1>at DEF Holders, PoolInv, Loading
<1>4. /\ ok'[t] => frame'[k].data = disk[want[t]]
      /\ \A j \in Frames : j # k => frame'[j].data = frame[j].data
      /\ \A j \in Frames :
            /\ frame'[j].page_id = frame[j].page_id /\ frame'[j].pin_count = frame[j].pin_count
            /\ frame'[j].valid <=> frame[j].valid
            /\ frame'[j].dirty <=> frame[j].dirty
            /\ frame'[j].io_pending <=> frame[j].io_pending
  BY <1>at, <1>1, <1>2 DEF ReadPage, PoolTypeOK
<1>5. /\ st'[t] = "load"
      /\ \A u \in Threads : u # t => st'[u] = st[u] /\ (ok'[u] <=> ok[u])
  BY <1>at, <1>1, Zenon DEF ReadPage, PoolTypeOK
<1>6. UNCHANGED <<disk, can_steal, want, at, wrote, latest>>
  BY Zenon DEF ReadPage
<1>7. PoolTypeOK'
  <2>1. frame' \in [Frames -> [page_id : Nat, valid : BOOLEAN, dirty : BOOLEAN, pin_count : Nat,
                               io_pending : BOOLEAN, data : Nat]]
    BY <1>at, <1>1, <1>2 DEF ReadPage, PoolTypeOK
  <2>2. errors' \in 0..MaxErrors
    BY <1>at, <1>1, PoolAssumption DEF ReadPage, PoolTypeOK
  <2> QED BY <1>at, <1>1, <1>6, <2>1, <2>2, Zenon DEF ReadPage, PoolTypeOK
<1>8. \A j \in Frames : Holders(j)' = Holders(j)
  BY <1>at, <1>1, <1>5, <1>6, Zenon DEF Holders
<1>9. PinsCounted' /\ OneFramePerPage'
  BY <1>4, <1>8 DEF PoolInv, PinsCounted, OneFramePerPage
<1>10. Held'
  BY <1>at, <1>1, <1>2, <1>4, <1>5, <1>6 DEF PoolInv, Held, Busy
<1>11. Loading'
  BY <1>4, <1>8 DEF PoolInv, Loading
<1>12. Sane'
  BY <1>1, <1>4, <1>5, <1>6, Zenon DEF PoolInv, Sane
<1>13. Current'
  BY <1>2, <1>4, <1>6, Zenon DEF PoolInv, Current
<1>14. OnDisk'
  BY <1>4, <1>6, <1>8, SMTT(30) DEF PoolInv, OnDisk, Has, Clean
<1>15. Fetched'
  BY <1>3, <1>4, <1>5, <1>6, <1>at, SMTT(30) DEF Fetched, PoolInv, Held, Holders, Busy
<1> QED BY <1>7, <1>9, <1>10, <1>11, <1>12, <1>13, <1>14, <1>15 DEF PoolInv

\* The bytes a frame is published with are the latest: nobody could write the page meanwhile.
LEMMA LoadDoneInv ==
    ASSUME PoolInv, NEW t \in Threads, LoadDone(t)
    PROVE  PoolInv'
<1>1. PoolTypeOK /\ st[t] = "load" /\ ok[t]
  BY Zenon DEF PoolInv, LoadDone
<1>at. PICK k \in Frames : k = at[t]
  BY <1>1, Zenon DEF PoolInv, Held, Busy
<1>2. /\ want[t] \in Pages /\ frame[k].valid /\ frame[k].page_id = want[t]
      /\ frame[k].io_pending
  BY <1>at, <1>1, Zenon DEF PoolInv, Held, Busy
<1>3. t \in Holders(k) /\ \A u \in Holders(k) : u = t
  BY <1>1, <1>2, <1>at, Zenon DEF Holders, PoolInv, Loading
<1>4. /\ ~frame'[k].io_pending
      /\ \A j \in Frames : j # k => (frame'[j].io_pending <=> frame[j].io_pending)
      /\ \A j \in Frames :
            /\ frame'[j].page_id = frame[j].page_id /\ frame'[j].pin_count = frame[j].pin_count
            /\ frame'[j].data = frame[j].data
            /\ frame'[j].valid <=> frame[j].valid
            /\ frame'[j].dirty <=> frame[j].dirty
  <2>1. frame'[k] = [frame[k] EXCEPT !.io_pending = FALSE]
    BY <1>at, <1>1, Zenon DEF LoadDone, PoolTypeOK
  <2>2. \A j \in Frames : j # k => frame'[j] = frame[j]
    BY <1>at, <1>1, Zenon DEF LoadDone, PoolTypeOK
  <2>3. /\ ~frame'[k].io_pending
        /\ frame'[k].page_id = frame[k].page_id /\ frame'[k].pin_count = frame[k].pin_count
        /\ frame'[k].data = frame[k].data
        /\ frame'[k].valid <=> frame[k].valid
        /\ frame'[k].dirty <=> frame[k].dirty
    <3>1. frame[k] \in [page_id : Nat, valid : BOOLEAN, dirty : BOOLEAN, pin_count : Nat,
                        io_pending : BOOLEAN, data : Nat]
      BY <1>1, Zenon DEF PoolTypeOK
    <3>2. ~frame'[k].io_pending
      BY <2>1, <3>1, Zenon
    <3>3. /\ frame'[k].page_id = frame[k].page_id /\ frame'[k].pin_count = frame[k].pin_count
          /\ frame'[k].data = frame[k].data
      BY <2>1, <3>1, Zenon
    <3>4. (frame'[k].valid <=> frame[k].valid) /\ (frame'[k].dirty <=> frame[k].dirty)
      BY <2>1, <3>1, Zenon
    <3> QED
      BY <3>2, <3>3, <3>4, Zenon
  <2> QED
    BY <2>2, <2>3, Zenon
<1>5. /\ st'[t] = "use"
      /\ \A u \in Threads : u # t => /\ st'[u] \in Busy <=> st[u] \in Busy
                                     /\ st[u] \in Busy => st'[u] = st[u]
  BY <1>at, <1>1, Zenon DEF LoadDone, PoolTypeOK, Broadcast, Busy
<1>6. UNCHANGED <<disk, can_steal, want, at, ok, wrote, latest, errors>>
  BY Zenon DEF LoadDone, call
<1>7. PoolTypeOK'
  <2>1. frame' \in [Frames -> [page_id : Nat, valid : BOOLEAN, dirty : BOOLEAN, pin_count : Nat,
                               io_pending : BOOLEAN, data : Nat]]
    <3>1. \A b \in BOOLEAN : [frame[k] EXCEPT !.io_pending = b]
            \in [page_id : Nat, valid : BOOLEAN, dirty : BOOLEAN, pin_count : Nat, io_pending : BOOLEAN,
                 data : Nat]
      BY <1>1 DEF PoolTypeOK
    <3> QED BY <1>at, <1>1, <3>1, Zenon DEF LoadDone, PoolTypeOK
  <2>2. st' \in [Threads -> {"idle", "wait", "woken", "read", "load", "use"}]
    BY <1>at, <1>1, Zenon DEF LoadDone, PoolTypeOK, Broadcast
  <2> QED BY <1>1, <1>6, <2>1, <2>2 DEF PoolTypeOK
<1>8. \A j \in Frames : Holders(j)' = Holders(j)
  BY <1>at, <1>1, <1>5, <1>6, Zenon DEF Holders, Busy
<1>9. PinsCounted' /\ OneFramePerPage'
  BY <1>4, <1>8, SMTT(30) DEF PoolInv, PinsCounted, OneFramePerPage
<1>10. Held'
  BY <1>2, <1>3, <1>4, <1>5, <1>6, <1>at DEF Held, PoolInv, Holders, Busy
<1>11. Loading'
  BY <1>4, <1>8, SMTT(30) DEF PoolInv, Loading
<1>12. Sane'
  BY <1>1, <1>4, <1>5, <1>6, Zenon DEF PoolInv, Sane, Busy
<1>13. frame[k].data = latest[want[t]]
  <2>1. Clean(k)
    BY <1>1, <1>2, <1>3, Zenon DEF PoolInv, Loading, Sane, Clean
  <2>2. \A j \in Frames : Has(j, want[t]) => Clean(j)
    BY <1>at, <1>2, <2>1, Zenon DEF PoolInv, OneFramePerPage, Has
  <2> QED BY <1>at, <1>1, <1>2, <2>2 DEF PoolInv, OnDisk, Fetched
<1>14. Current'
  BY <1>2, <1>4, <1>6, <1>13, SMTT(30) DEF PoolInv, Current
<1>15. OnDisk'
  BY <1>4, <1>6, <1>8, SMTT(30) DEF PoolInv, OnDisk, Has, Clean
<1>16. Fetched'
  BY <1>at, <1>4, <1>5, <1>6, SMTT(30) DEF PoolInv, Fetched, Held, Busy
<1> QED BY <1>7, <1>9, <1>10, <1>11, <1>12, <1>14, <1>15, <1>16 DEF PoolInv

\* A failed read gives back a frame only its reader held.
LEMMA LoadFailedInv ==
    ASSUME PoolInv, NEW t \in Threads, LoadFailed(t)
    PROVE  PoolInv'
<1>1. PoolTypeOK /\ st[t] = "load"
  BY Zenon DEF PoolInv, LoadFailed
<1>at. PICK k \in Frames : k = at[t]
  BY <1>1, Zenon DEF PoolInv, Held, Busy
<1>2. /\ want[t] \in Pages /\ frame[k].valid /\ frame[k].page_id = want[t]
      /\ frame[k].io_pending
  BY <1>at, <1>1, Zenon DEF PoolInv, Held, Busy
<1>3. t \in Holders(k) /\ \A u \in Holders(k) : u = t
  BY <1>1, <1>2, <1>at DEF Holders, PoolInv, Loading
<1>4. /\ ~frame'[k].io_pending /\ frame'[k].pin_count = 0 /\ ~frame'[k].valid
      /\ \A j \in Frames : j # k => /\ frame'[j].io_pending <=> frame[j].io_pending
                                    /\ frame'[j].pin_count = frame[j].pin_count
                                    /\ frame'[j].valid <=> frame[j].valid
      /\ \A j \in Frames :
            /\ frame'[j].page_id = frame[j].page_id /\ frame'[j].data = frame[j].data
            /\ frame'[j].dirty <=> frame[j].dirty
  BY <1>at, <1>1, <1>2 DEF LoadFailed, PoolTypeOK
<1>5. /\ st'[t] = "idle"
      /\ \A u \in Threads : u # t => /\ st'[u] \in Busy <=> st[u] \in Busy
                                     /\ st[u] \in Busy => st'[u] = st[u]
  BY <1>at, <1>1, Zenon DEF LoadFailed, PoolTypeOK, Broadcast, Busy
<1>6. UNCHANGED <<disk, can_steal, want, at, ok, wrote, latest, errors>>
  BY Zenon DEF LoadFailed, call
<1>7. PoolTypeOK'
  <2>1. frame' \in [Frames -> [page_id : Nat, valid : BOOLEAN, dirty : BOOLEAN, pin_count : Nat,
                               io_pending : BOOLEAN, data : Nat]]
    <3>1. [frame[k] EXCEPT !.io_pending = FALSE, !.pin_count = 0, !.valid = FALSE]
            \in [page_id : Nat, valid : BOOLEAN, dirty : BOOLEAN, pin_count : Nat, io_pending : BOOLEAN,
                 data : Nat]
      BY <1>1, ZenonT(60) DEF PoolTypeOK
    <3> QED BY <1>at, <1>1, <3>1 DEF LoadFailed, PoolTypeOK
  <2>2. st' \in [Threads -> {"idle", "wait", "woken", "read", "load", "use"}]
    BY <1>at, <1>1, Zenon DEF LoadFailed, PoolTypeOK, Broadcast
  <2> QED BY <1>1, <1>6, <2>1, <2>2 DEF PoolTypeOK
<1>8. Holders(k)' = {} /\ \A j \in Frames : j # k => Holders(j)' = Holders(j)
  BY <1>3, <1>5, <1>6, <1>at, Zenon DEF Holders, Busy
<1>9. PinsCounted'
  BY <1>4, <1>8, FS_EmptySet, Zenon DEF PoolInv, PinsCounted
<1>10. OneFramePerPage'
  BY <1>4, Zenon DEF PoolInv, OneFramePerPage
<1>11. \A u \in Threads : st'[u] \in Busy =>
         /\ u # t /\ st[u] \in Busy /\ st'[u] = st[u] /\ at[u] # k
         /\ at'[u] = at[u] /\ want'[u] = want[u]
  BY <1>at, <1>3, <1>5, <1>6, Zenon DEF Holders, Busy
<1>12. Held'
  BY <1>4, <1>6, <1>11 DEF Held, Busy, PoolInv
<1>13. Loading'
  BY <1>4, <1>8 DEF Loading, PoolInv
<1>14. Sane'
  BY <1>1, <1>4, <1>5, <1>6, Zenon DEF PoolInv, Sane, Busy
<1>15. Current'
  BY <1>4, <1>6, Zenon DEF PoolInv, Current
<1>16. OnDisk'
  BY <1>1, <1>2, <1>3, <1>4, <1>6, <1>8 DEF PoolInv, Loading, Sane, Clean, Has, OnDisk
<1>17. Fetched'
  BY <1>4, <1>6, <1>11 DEF Fetched, Busy, PoolInv, Held
<1> QED BY <1>7, <1>9, <1>10, <1>12, <1>13, <1>14, <1>15, <1>16, <1>17 DEF PoolInv

\* A holder's writes are the page's latest, and keep its frame from counting as clean.
LEMMA ModifyInv ==
    ASSUME PoolInv, NEW t \in Threads, NEW v \in Nat, Modify(t, v)
    PROVE  PoolInv'
<1>1. PoolTypeOK /\ st[t] = "use"
  BY Zenon DEF PoolInv, Modify
<1>at. PICK k \in Frames : k = at[t]
  BY <1>1, Zenon DEF PoolInv, Held, Busy
<1>2. /\ want[t] \in Pages /\ frame[k].valid /\ frame[k].page_id = want[t]
      /\ ~frame[k].io_pending
  BY <1>at, <1>1, Zenon DEF PoolInv, Held, Busy
<1>3. /\ frame'[k].data = v
      /\ \A j \in Frames : j # k => frame'[j].data = frame[j].data
      /\ \A j \in Frames :
            /\ frame'[j].page_id = frame[j].page_id /\ frame'[j].pin_count = frame[j].pin_count
            /\ frame'[j].valid <=> frame[j].valid
            /\ frame'[j].dirty <=> frame[j].dirty
            /\ frame'[j].io_pending <=> frame[j].io_pending
  BY <1>at, <1>1, <1>2, Zenon DEF Modify, PoolTypeOK
<1>4. /\ latest'[want[t]] = v /\ \A q \in Pages : q # want[t] => latest'[q] = latest[q]
      /\ wrote'[t] /\ \A u \in Threads : u # t => (wrote'[u] <=> wrote[u])
  BY <1>at, <1>1, <1>2, Zenon DEF Modify, PoolTypeOK
<1>5. UNCHANGED <<disk, can_steal, st, want, at, ok, errors>>
  BY Zenon DEF Modify
<1>6. PoolTypeOK'
  BY <1>at, <1>1, <1>2 DEF Modify, PoolTypeOK
<1>7. t \in Holders(k) /\ \A j \in Frames : Holders(j)' = Holders(j)
  BY <1>at, <1>1, <1>5, Zenon DEF Holders
<1>8. PinsCounted' /\ OneFramePerPage'
  BY <1>3, <1>7, SMTT(30) DEF PoolInv, PinsCounted, OneFramePerPage
<1>9. Held'
  BY <1>3, <1>5, Zenon DEF Held, PoolInv
<1>10. Loading'
  BY <1>2, <1>3, <1>7 DEF Loading, PoolInv
<1>11. Sane'
  BY <1>1, <1>3, <1>4, <1>5, Zenon DEF PoolInv, Sane
<1>12. Current'
  BY <1>2, <1>3, <1>4, SMTT(30) DEF PoolInv, Current, OneFramePerPage, Sane
<1>13. OnDisk'
  BY <1>2, <1>3, <1>4, <1>5, <1>7, <1>at, SMTT(30) DEF OnDisk, Clean, Has, Holders, PoolInv
<1>14. Fetched'
  <2> SUFFICES ASSUME NEW u \in Threads, st[u] = "load", ok[u]
               PROVE  frame'[at[u]].data = disk[want[u]]
    BY <1>5, Zenon DEF Fetched
  <2>1. at[u] \in Frames /\ frame[at[u]].io_pending
    BY Zenon DEF PoolInv, Held, Busy
  <2> QED
    BY <1>2, <1>3, <2>1, Zenon DEF PoolInv, Fetched
<1> QED BY <1>6, <1>8, <1>9, <1>10, <1>11, <1>12, <1>13, <1>14 DEF PoolInv

\* An unpin takes back one pin, of the frame it was given, and leaves word of its writes.
LEMMA UnpinInv ==
    ASSUME PoolInv, NEW t \in Threads, bufpool_unpin(t)
    PROVE  PoolInv'
<1>1. PoolTypeOK /\ st[t] = "use"
  BY Zenon DEF PoolInv, bufpool_unpin
<1>at. PICK k \in Frames : k = at[t]
  BY <1>1, Zenon DEF PoolInv, Held, Busy
<1>2. /\ want[t] \in Pages /\ frame[k].valid /\ frame[k].page_id = want[t]
      /\ ~frame[k].io_pending
  BY <1>at, <1>1, Zenon DEF PoolInv, Held, Busy
<1>3. \A j \in Frames : Has(j, want[t]) <=> j = k
  BY <1>at, <1>2, Zenon DEF PoolInv, OneFramePerPage, Has
<1>4. t \in Holders(k)
  BY <1>at, <1>1, Zenon DEF Holders
<1>5. frame[k].pin_count \in Nat /\ frame[k].pin_count = Cardinality(Holders(k)) /\ frame[k].pin_count > 0
  BY <1>1, <1>2, <1>4, HoldersFinite, FS_EmptySet DEF PoolInv, PoolTypeOK, PinsCounted
<1>6. frame' = [j \in Frames |-> IF j = k THEN Unpinned(frame[k], wrote[t]) ELSE frame[j]]
  BY <1>at, <1>3, Zenon DEF bufpool_unpin
<1>7. /\ frame'[k].pin_count = frame[k].pin_count - 1
      /\ frame'[k].dirty <=> frame[k].dirty \/ wrote[t]
      /\ \A j \in Frames : j # k => /\ frame'[j].pin_count = frame[j].pin_count
                                    /\ frame'[j].dirty <=> frame[j].dirty
      /\ \A j \in Frames :
            /\ frame'[j].page_id = frame[j].page_id /\ frame'[j].data = frame[j].data
            /\ frame'[j].valid <=> frame[j].valid
            /\ frame'[j].io_pending <=> frame[j].io_pending
  BY <1>1, <1>2, <1>5, <1>6, ZenonT(60) DEF PoolTypeOK, Unpinned
<1>8. /\ st'[t] = "idle" /\ \A u \in Threads : u # t => st'[u] = st[u]
      /\ ~wrote'[t] /\ \A u \in Threads : u # t => (wrote'[u] <=> wrote[u])
  BY <1>at, <1>1, Zenon DEF bufpool_unpin, PoolTypeOK
<1>9. UNCHANGED <<disk, can_steal, want, at, ok, latest, errors>>
  BY Zenon DEF bufpool_unpin
<1>10. PoolTypeOK'
  <2>1. Unpinned(frame[k], wrote[t]) \in [page_id : Nat, valid : BOOLEAN, dirty : BOOLEAN,
                                         pin_count : Nat, io_pending : BOOLEAN, data : Nat]
    <3>1. \A a, b \in BOOLEAN : (a \/ b) \in BOOLEAN
      BY Zenon
    <3>2. (frame[k].dirty \/ wrote[t]) \in BOOLEAN
      BY <1>1, <3>1, Zenon DEF PoolTypeOK
    <3>3. Unpinned(frame[k], wrote[t])
            = [frame[k] EXCEPT !.dirty = frame[k].dirty \/ wrote[t], !.pin_count = frame[k].pin_count - 1]
      BY <1>1, <1>5, Zenon DEF PoolTypeOK, Unpinned
    <3>4. \A b \in BOOLEAN, n \in Nat : [frame[k] EXCEPT !.dirty = b, !.pin_count = n]
            \in [page_id : Nat, valid : BOOLEAN, dirty : BOOLEAN, pin_count : Nat, io_pending : BOOLEAN,
                 data : Nat]
      BY <1>1, ZenonT(60) DEF PoolTypeOK
    <3>5. frame[k].pin_count - 1 \in Nat
      BY <1>5
    <3> QED BY <3>2, <3>3, <3>4, <3>5, Zenon
  <2>2. frame' \in [Frames -> [page_id : Nat, valid : BOOLEAN, dirty : BOOLEAN, pin_count : Nat,
                               io_pending : BOOLEAN, data : Nat]]
    BY <1>1, <1>6, <2>1, Zenon DEF PoolTypeOK
  <2> QED BY <1>at, <1>1, <1>9, <2>2 DEF bufpool_unpin, PoolTypeOK
<1>11. /\ Holders(k)' = Holders(k) \ {t}
       /\ \A j \in Frames : j # k => Holders(j)' = Holders(j)
  BY <1>at, <1>1, <1>8, <1>9, Zenon DEF Holders
<1>12. PinsCounted'
  BY <1>4, <1>5, <1>7, <1>11, HoldersFinite, FS_RemoveElement DEF PoolInv, PinsCounted
<1>13. OneFramePerPage'
  BY <1>7, ZenonT(60) DEF OneFramePerPage, PoolInv
<1>14. Held'
  BY <1>7, <1>8, <1>9 DEF Held, Busy, PoolInv
<1>15. Loading'
  BY <1>2, <1>7, <1>11, SMTT(30) DEF Loading, PoolInv
<1>16. Sane'
  BY <1>7, <1>8, Zenon DEF PoolInv, Sane
<1>17. Current'
  BY <1>7, <1>9, Zenon DEF PoolInv, Current
<1>18. \A j \in Frames, q \in Pages : Has(j, q)' <=> Has(j, q)
  BY <1>7, Zenon DEF Has
<1>19. \A j \in Frames : Clean(j)' => Clean(j)
  BY <1>7, <1>8, <1>11, <1>at DEF Clean, Holders
<1>20. OnDisk'
  BY <1>9, <1>18, <1>19, Zenon DEF PoolInv, OnDisk
<1>21. Fetched'
  BY <1>7, <1>8, <1>9 DEF Fetched, Busy, PoolInv, Held
<1> QED BY <1>10, <1>12, <1>13, <1>14, <1>15, <1>16, <1>17, <1>20, <1>21 DEF PoolInv

\* Every step of the pool keeps the invariant.
LEMMA StepInv ==
    PoolInv /\ [PoolNext]_pool => PoolInv'
<1> SUFFICES ASSUME PoolInv, [PoolNext]_pool PROVE PoolInv'
  BY Zenon
<1>1. CASE UNCHANGED pool
  BY <1>1, QuietInv, Zenon DEF pool, PoolInv, PoolTypeOK
<1>2. CASE PoolNext
  BY <1>2, HitInv, WaitInv, MissInv, NoFrameInv, ReadInv, LoadDoneInv, LoadFailedInv, WakeupInv,
     ModifyInv, UnpinInv, Zenon DEF PoolNext
<1> QED BY <1>1, <1>2

\* PoolInv holds throughout.
LEMMA Invariance ==
    PoolSpec => []PoolInv
<1> QED BY InitInv, StepInv, PTL DEF PoolSpec

--------------------------------------------------------------------------------

\* However threads interleave their fetches, reads and unpins, no page is in two frames.
THEOREM OneFrame ==
    PoolSpec => []OneFramePerPage
<1>1. PoolInv => OneFramePerPage
  BY Zenon DEF PoolInv
<1> QED BY <1>1, Invariance, PTL

\* The pins of a frame are exactly the threads between fetch and unpin, failed reads included.
THEOREM PinsExact ==
    PoolSpec => []PinsCounted
<1>1. PoolInv => PinsCounted
  BY Zenon DEF PoolInv
<1> QED BY <1>1, Invariance, PTL

\* The bytes bufpool_fetch hands out are the page's latest and stay so until the unpin.
THEOREM HoldersRead ==
    PoolSpec => []HeldIsLatest
<1>1. PoolInv => HeldIsLatest
  BY ZenonT(60) DEF HeldIsLatest, PoolInv, Held, Busy, Current
<1> QED BY <1>1, Invariance, PTL
================================================================================
