-------------------------------- MODULE BufPool --------------------------------
(* The buffer pool used by several threads (src/bufpool.c).  The latch guards the *)
(* frame table; a page's bytes are used outside it, under a pin, and since a miss *)
(* reads the disk with the latch dropped, a frame may also be waiting for its     *)
(* bytes (io_pending).  An action is what a thread does under the latch, or one   *)
(* access to the disk or to the bytes outside it.                                 *)
EXTENDS Integers, Sequences, FiniteSets

CONSTANTS
    Threads,            \* threads that use the pool
    Pages,              \* pages of the file
    NumFrames,          \* frames of the pool
    MaxErrors           \* bound: reads, writes and thread creations that fail

Frames == 1..NumFrames

ASSUME PoolAssumption ==
    IsFiniteSet(Threads) /\ NumFrames \in Nat /\ MaxErrors \in Nat /\ Pages \subseteq Nat

VARIABLES
    frame,              \* the frames: page_id, valid, dirty, pin_count, io_pending, data
    lru,                \* the frames by last_used, the least recent first
    disk,               \* the file
    can_steal,          \* a dirty frame may be evicted: no transaction, or a steal handler
    st,                 \* where a thread is: "idle" outside, "wait" on io_cond, "woken" from it,
                        \* "read" and "load" around the read of a miss, "use" with a pin
    want, at,           \* the page a thread asked for and the frame it got
    ok,                 \* pager_read succeeded
    wrote,              \* the thread has changed the page it holds
    latest,             \* ghost: what was last written to a page
    errors              \* failures so far

pool == <<frame, lru, disk, can_steal, st, want, at, ok, wrote, latest, errors>>

\* What a thread remembers of its call.
call == <<want, at, ok, wrote>>

Free == [page_id |-> 0, valid |-> FALSE, dirty |-> FALSE, pin_count |-> 0, io_pending |-> FALSE, data |-> 0]

PoolInit ==
    /\ frame = [i \in Frames |-> Free] /\ lru = [i \in Frames |-> i]
    /\ disk = [p \in Pages |-> 0] /\ latest = disk
    /\ can_steal \in BOOLEAN
    /\ st = [t \in Threads |-> "idle"] /\ want = [t \in Threads |-> 0] /\ at = [t \in Threads |-> 0]
    /\ ok = [t \in Threads |-> TRUE] /\ wrote = [t \in Threads |-> FALSE]
    /\ errors = 0

--------------------------------------------------------------------------------
(* bufpool_fetch.                                                                *)

\* Faulty variant of Has: a frame whose page is being read is not found.
HasLoaded(i, p) == frame[i].valid /\ frame[i].page_id = p /\ ~frame[i].io_pending

\* find_frame: a valid frame with the page.
Has(i, p) == frame[i].valid /\ frame[i].page_id = p
Cached(p) == \E i \in Frames : Has(i, p)

\* A frame used again becomes the most recent; one frame was used before another.
touch(i) == Append(SelectSeq(lru, LAMBDA j : j # i), i)
Before(i, j) == \E a, b \in DOMAIN lru : a < b /\ lru[a] = i /\ lru[b] = j

\* Frames pick_frame may take a page from.
Evictable(i) == frame[i].valid /\ frame[i].pin_count = 0 /\ (frame[i].dirty => can_steal)

\* pick_frame: the first free frame, else the least recently used one that may go.
Pick(i) ==
    \/ /\ ~frame[i].valid
       /\ \A j \in Frames : ~frame[j].valid => i <= j
    \/ /\ \A j \in Frames : frame[j].valid
       /\ Evictable(i)
       /\ \A j \in Frames \ {i} : Evictable(j) => Before(i, j)

\* A call, or the next round of one that was waiting.
Asks(t, p) == st[t] = "idle" \/ (st[t] = "woken" /\ want[t] = p)

Hit(t, p, i) ==
    /\ Asks(t, p) /\ Has(i, p) /\ ~frame[i].io_pending
    /\ frame' = [frame EXCEPT ![i].pin_count = @ + 1] /\ lru' = touch(i)
    /\ st' = [st EXCEPT ![t] = "use"]
    /\ want' = [want EXCEPT ![t] = p] /\ at' = [at EXCEPT ![t] = i]
    /\ UNCHANGED <<disk, can_steal, ok, wrote, latest, errors>>

\* Another thread is reading this very page: wait for it.
WaitForLoad(t, p, i) ==
    /\ Asks(t, p) /\ Has(i, p) /\ frame[i].io_pending
    /\ st' = [st EXCEPT ![t] = "wait"] /\ want' = [want EXCEPT ![t] = p]
    /\ UNCHANGED <<frame, lru, disk, can_steal, at, ok, wrote, latest, errors>>

\* A dirty victim goes to disk first (pager_write, or the steal handler).
Written(i) == IF frame[i].valid /\ frame[i].dirty THEN [disk EXCEPT ![frame[i].page_id] = frame[i].data]
              ELSE disk

\* Faulty variant of Reserved: the frame is found as soon as it is reserved.
ReservedReady(i, p) ==
    [frame EXCEPT ![i] = [@ EXCEPT !.page_id = p, !.valid = TRUE, !.dirty = FALSE, !.pin_count = 1]]

\* Reserved for the page: nobody evicts the frame, and who finds it waits.
Reserved(i, p) ==
    [frame EXCEPT ![i] = [@ EXCEPT !.page_id = p, !.valid = TRUE, !.dirty = FALSE, !.pin_count = 1,
                                   !.io_pending = TRUE]]

\* A miss: the frame is reserved and the latch dropped for the read.
Miss(t, p, i) ==
    /\ Asks(t, p) /\ ~Cached(p) /\ Pick(i)
    /\ disk' = Written(i) /\ frame' = Reserved(i, p)
    /\ st' = [st EXCEPT ![t] = "read"]
    /\ want' = [want EXCEPT ![t] = p] /\ at' = [at EXCEPT ![t] = i]
    /\ UNCHANGED <<lru, can_steal, ok, wrote, latest, errors>>

\* No frame may be taken, or the victim cannot be written: the fetch fails.
NoFrame(t, p) ==
    /\ Asks(t, p) /\ ~Cached(p)
    /\ \/ ~(\E i \in Frames : Pick(i)) /\ errors' = errors
       \/ /\ \E i \in Frames : Pick(i) /\ frame[i].valid /\ frame[i].dirty
          /\ errors < MaxErrors /\ errors' = errors + 1
    /\ st' = [st EXCEPT ![t] = "idle"]
    /\ UNCHANGED <<frame, lru, disk, can_steal, call, latest>>

\* pager_read, outside the latch.
ReadPage(t) ==
    /\ st[t] = "read" /\ st' = [st EXCEPT ![t] = "load"]
    /\ \/ /\ frame' = [frame EXCEPT ![at[t]].data = disk[want[t]]]
          /\ ok' = [ok EXCEPT ![t] = TRUE] /\ errors' = errors
       \/ /\ errors < MaxErrors /\ errors' = errors + 1
          /\ ok' = [ok EXCEPT ![t] = FALSE] /\ frame' = frame
    /\ UNCHANGED <<lru, disk, can_steal, want, at, wrote, latest>>

\* Faulty variant of Broadcast: nobody is woken.
BroadcastNone(s) == s

\* pthread_cond_broadcast
Broadcast(s) == [u \in Threads |-> IF s[u] = "wait" THEN "woken" ELSE s[u]]

\* With the latch again: the bytes are there.
LoadDone(t) ==
    /\ st[t] = "load" /\ ok[t]
    /\ frame' = [frame EXCEPT ![at[t]].io_pending = FALSE] /\ lru' = touch(at[t])
    /\ st' = Broadcast([st EXCEPT ![t] = "use"])
    /\ UNCHANGED <<disk, can_steal, call, latest, errors>>

\* The read failed: the frame is given back, and the fetch fails.
LoadFailed(t) ==
    /\ st[t] = "load" /\ ~ok[t]
    /\ frame' = [frame EXCEPT ![at[t]] = [@ EXCEPT !.io_pending = FALSE, !.pin_count = 0, !.valid = FALSE]]
    /\ st' = Broadcast([st EXCEPT ![t] = "idle"])
    /\ UNCHANGED <<lru, disk, can_steal, call, latest, errors>>

\* pthread_cond_wait may return without a broadcast.
SpuriousWakeup(t) ==
    /\ st[t] = "wait" /\ st' = [st EXCEPT ![t] = "woken"]
    /\ UNCHANGED <<frame, lru, disk, can_steal, call, latest, errors>>

--------------------------------------------------------------------------------
(* With the pin.                                                                 *)

\* The holder changes the page's bytes, through its pointer into the frame.
Modify(t, v) ==
    /\ st[t] = "use"
    /\ frame' = [frame EXCEPT ![at[t]].data = v] /\ latest' = [latest EXCEPT ![want[t]] = v]
    /\ wrote' = [wrote EXCEPT ![t] = TRUE]
    /\ UNCHANGED <<lru, disk, can_steal, st, want, at, ok, errors>>

\* Faulty variant of Unpinned: the pin stays.
UnpinnedNot(f, is_dirty) == [f EXCEPT !.dirty = @ \/ is_dirty]

Unpinned(f, is_dirty) ==
    [f EXCEPT !.dirty = @ \/ is_dirty, !.pin_count = IF @ > 0 THEN @ - 1 ELSE @]

bufpool_unpin(t) ==
    /\ st[t] = "use"
    /\ frame' = [i \in Frames |-> IF Has(i, want[t]) THEN Unpinned(frame[i], wrote[t]) ELSE frame[i]]
    /\ st' = [st EXCEPT ![t] = "idle"] /\ wrote' = [wrote EXCEPT ![t] = FALSE]
    /\ UNCHANGED <<lru, disk, can_steal, want, at, ok, latest, errors>>

PoolNext ==
    \/ \E t \in Threads, p \in Pages :
          \/ \E i \in Frames : Hit(t, p, i) \/ WaitForLoad(t, p, i) \/ Miss(t, p, i)
          \/ NoFrame(t, p)
    \/ \E t \in Threads : \/ ReadPage(t) \/ LoadDone(t) \/ LoadFailed(t) \/ SpuriousWakeup(t)
                          \/ bufpool_unpin(t)
                          \/ \E v \in Nat : Modify(t, v)

PoolSpec == PoolInit /\ [][PoolNext]_pool

--------------------------------------------------------------------------------
(* Properties.                                                                   *)

\* Threads that hold a pin on frame i.
Holders(i) == {t \in Threads : st[t] \in {"read", "load", "use"} /\ at[t] = i}

\* The frames, the threads and the file have the shapes the code gives them.
PoolTypeOK ==
    /\ frame \in [Frames -> [page_id : Nat, valid : BOOLEAN, dirty : BOOLEAN, pin_count : Nat,
                             io_pending : BOOLEAN, data : Nat]]
    /\ disk \in [Pages -> Nat] /\ latest \in [Pages -> Nat]
    /\ st \in [Threads -> {"idle", "wait", "woken", "read", "load", "use"}]
    /\ want \in [Threads -> Nat] /\ at \in [Threads -> Nat]
    /\ ok \in [Threads -> BOOLEAN] /\ wrote \in [Threads -> BOOLEAN]
    /\ can_steal \in BOOLEAN /\ errors \in 0..MaxErrors

\* No page is in two frames, although two threads that miss it at once both leave the latch
\* for their reads.
OneFramePerPage ==
    \A i, j \in Frames : frame[i].valid /\ frame[j].valid /\ frame[i].page_id = frame[j].page_id => i = j

\* A frame's pin count is the number of threads that hold it: none is lost, so that no page
\* goes away in use, and none too many, so that no frame is lost to the pool.
PinsCounted == \A i \in Frames : frame[i].pin_count = Cardinality(Holders(i))

\* Who holds a page finds in the frame it was given that page, and in it what was last
\* written to it, whatever was evicted, read and written back meanwhile.
HeldIsLatest ==
    \A t \in Threads : st[t] = "use" =>
        /\ frame[at[t]].valid /\ frame[at[t]].page_id = want[t] /\ ~frame[at[t]].io_pending
        /\ frame[at[t]].data = latest[want[t]]
================================================================================
