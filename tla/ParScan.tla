-------------------------------- MODULE ParScan --------------------------------
(* A SELECT that scans a table with several worker threads (src/parscan.c, and   *)
(* parallel_fullscan of src/db.c), over the buffer pool of BufPool.  The leader  *)
(* cuts the pages into blocks, one per worker, joins the workers and prints the  *)
(* rows they found, in page order; when a worker fails it scans alone.  Before,  *)
(* its session has changed a page, in the transaction the SELECT belongs to;     *)
(* meanwhile another thread uses the same pool: it writes a page of its own and  *)
(* reads one of the table.                                                       *)
(* A page stands for one row, its contents.                                      *)
EXTENDS BufPool, Blocks

CONSTANTS
    np,                 \* pages of the table
    nworkers            \* workers asked for

Leader == 0
Other == nworkers + 1
OwnPage == np           \* the page the other thread writes

\* Workers beyond the number of pages are not started.
nw == clamp(nworkers, np)
Workers == 1..nw

ASSUME ScanAssumption ==
    /\ np \in Nat \ {0} /\ nworkers \in Nat \ {0}
    /\ Threads = 0..(nworkers + 1) /\ Pages = 0..np

VARIABLES
    phase,              \* the leader: "update", "spawn", "join", "print" or "serial", "done"
    spawned,            \* workers started
    todo,               \* pages a thread has still to fetch
    got,                \* pages a thread has read, and what it read there
    failed              \* a worker failed, or could not be started

scan == <<phase, spawned, todo, got, failed>>
vars == <<pool, scan>>

Init ==
    /\ PoolInit
    /\ phase = "update" /\ spawned = 0 /\ failed = FALSE
    /\ \E p \in 0..(np - 1) :
          todo = [t \in Threads |-> CASE t = Leader -> <<np - 1>>
                                      [] t \in Workers -> range(t, nw, np)
                                      [] t = Other -> <<OwnPage, p>>
                                      [] OTHER -> <<>>]
    /\ got = [t \in Threads |-> <<>>]

--------------------------------------------------------------------------------
(* Threads.                                                                      *)

Running(t) ==
    /\ todo[t] # <<>>
    /\ t \in Workers => t <= spawned

Writes(t) == Head(todo[t]) = OwnPage \/ (t = Leader /\ phase = "update")

\* One round of bufpool_fetch.
Fetch(t) ==
    /\ Running(t)
    /\ \E i \in Frames : \/ Hit(t, Head(todo[t]), i) \/ WaitForLoad(t, Head(todo[t]), i)
                         \/ Miss(t, Head(todo[t]), i)
    /\ UNCHANGED scan

Read(t) == ReadPage(t) /\ UNCHANGED scan
Loaded(t) == LoadDone(t) /\ UNCHANGED scan
Wakeup(t) == SpuriousWakeup(t) /\ UNCHANGED scan

\* The fetch failed.  A worker gives up, and so does a serial scan; a row that cannot be
\* fetched for printing is skipped, and so is a write.
FetchFails(t) ==
    /\ Running(t)
    /\ NoFrame(t, Head(todo[t])) \/ LoadFailed(t)
    /\ todo' = [todo EXCEPT ![t] = IF t \in Workers \/ phase = "serial" THEN <<>> ELSE Tail(@)]
    /\ failed' = (failed \/ t \in Workers)
    /\ UNCHANGED <<phase, spawned, got>>

\* The row is read under the pin, which is then released.
Visit(t) ==
    /\ Running(t) /\ ~Writes(t)
    /\ bufpool_unpin(t)
    /\ got' = [got EXCEPT ![t] = Append(@, <<want[t], frame[at[t]].data>>)]
    /\ todo' = [todo EXCEPT ![t] = Tail(@)]
    /\ UNCHANGED <<phase, spawned, failed>>

Change(t) ==
    /\ Running(t) /\ Writes(t) /\ ~wrote[t]
    /\ Modify(t, frame[at[t]].data + 1)
    /\ UNCHANGED scan

Changed(t) ==
    /\ Running(t) /\ Writes(t) /\ wrote[t]
    /\ bufpool_unpin(t)
    /\ todo' = [todo EXCEPT ![t] = Tail(@)]
    /\ UNCHANGED <<phase, spawned, got, failed>>

--------------------------------------------------------------------------------
(* The leader.                                                                   *)

Select ==
    /\ phase = "update" /\ todo[Leader] = <<>> /\ st[Leader] = "idle"
    /\ phase' = "spawn"
    /\ UNCHANGED <<pool, spawned, todo, got, failed>>

Spawn ==
    /\ phase = "spawn" /\ spawned < nw
    /\ spawned' = spawned + 1
    /\ phase' = IF spawned + 1 = nw THEN "join" ELSE "spawn"
    /\ UNCHANGED <<pool, todo, got, failed>>

\* pthread_create fails: the workers there are, are joined.
SpawnFails ==
    /\ phase = "spawn" /\ spawned < nw
    /\ errors < MaxErrors /\ errors' = errors + 1
    /\ phase' = "join" /\ failed' = TRUE
    /\ UNCHANGED <<frame, lru, disk, can_steal, st, call, latest, spawned, todo, got>>

\* Faulty variant of Joined: the last worker is not waited for.
JoinedEarly == \A t \in 1..(spawned - 1) : todo[t] = <<>> /\ st[t] = "idle"

\* pthread_join of every worker started.
Joined == \A t \in 1..spawned : todo[t] = <<>> /\ st[t] = "idle"

\* Faulty variant of Merged: in the order of the workers' numbers, from the last one.
MergedBackwards == FlattenSeq([k \in Workers |-> [j \in DOMAIN got[nw + 1 - k] |-> got[nw + 1 - k][j][1]]])

\* The rows the workers found, by worker and thus by page.
Merged == FlattenSeq([k \in Workers |-> [j \in DOMAIN got[k] |-> got[k][j][1]]])

\* Print the rows the workers found, each fetched again; or, if one failed, scan alone.
Join ==
    /\ phase = "join" /\ Joined
    /\ \/ /\ ~failed /\ phase' = "print" /\ todo' = [todo EXCEPT ![Leader] = Merged]
       \/ /\ failed /\ phase' = "serial" /\ todo' = [todo EXCEPT ![Leader] = Seqs(0, np)]
    /\ UNCHANGED <<pool, spawned, got, failed>>

Finish ==
    /\ phase \in {"print", "serial"} /\ todo[Leader] = <<>> /\ st[Leader] = "idle"
    /\ phase' = "done"
    /\ UNCHANGED <<pool, spawned, todo, got, failed>>

\* What thread t does by itself, whenever it can.
Step(t) ==
    Fetch(t) \/ Read(t) \/ Loaded(t) \/ FetchFails(t) \/ Visit(t) \/ Change(t) \/ Changed(t)

Lead == Select \/ Spawn \/ SpawnFails \/ Join \/ Finish

Next ==
    \/ \E t \in Threads : Step(t) \/ Wakeup(t)
    \/ Lead

\* Threads are scheduled: one that can go on, does in the end.
Spec == Init /\ [][Next]_vars /\ WF_vars(Lead) /\ \A t \in Threads : WF_vars(Step(t))

--------------------------------------------------------------------------------
(* Properties.                                                                   *)

\* parscan.h asks for as many frames as there are threads with a pin.  Then, unless the
\* system failed it or dirty pages may not leave the pool, the SELECT does not fall back, and
\* it answers what a scan by one thread would: every page, in order, as last written, the
\* session's own change included (parscan_collect, parallel_fullscan).
Rows == [k \in 1..np |-> <<k - 1, latest[k - 1]>>]
ScanAnswers ==
    errors = 0 /\ can_steal /\ NumFrames >= nw + 1 =>
        /\ phase # "serial" /\ ~failed
        /\ phase = "done" => got[Leader] = Rows

\* Even when reads, writes or threads fail, every row of the answer is a row of the table,
\* in order: the answer may lack rows, it has none twice and none stale.
NeverWrong ==
    \A j \in DOMAIN got[Leader] :
        /\ got[Leader][j][2] = latest[got[Leader][j][1]]
        /\ \A k \in 1..(j - 1) : got[Leader][k][1] < got[Leader][j][1]

\* The SELECT ends: no thread waits for good for a page another one is to load.
ScanEnds == <>(phase = "done")
================================================================================
