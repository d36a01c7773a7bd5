--------------------------------- MODULE LsmMap --------------------------------
(* What the LSM engine promises (src/lsm.h): a map from keys to values whose    *)
(* newest write wins, and of which a close or a crash leaves the state as of    *)
(* the last flush.  In the multi-value mode a key is a (key, value) pair.  The  *)
(* call under way says which step may change what: only a write or a clear      *)
(* changes the map of an open engine, and only a flush or a clear what a crash  *)
(* would leave of it.                                                           *)
CONSTANTS
    Group,      \* what a write replaces: a key, or a (key, value) pair
    Value,      \* values
    Absent      \* no value

VARIABLES
    map,        \* what a reader is given
    durable,    \* what a reader would be given after a crash now
    open,       \* the engine is open
    call        \* the call under way: "idle", "flush", "compact" or "clear"

mapVars == <<map, durable, open, call>>

Map == [Group -> Value \cup {Absent}]
Empty == [g \in Group |-> Absent]

Init == map = Empty /\ durable = Empty /\ open = TRUE /\ call = "idle"

\* lsm_put, lsm_delete and their multi-value forms: one entry changes, and a full
\* memtable begins to be flushed.
Write ==
    /\ open /\ call = "idle" /\ call' \in {"idle", "flush"}
    /\ \E g \in Group, v \in Value \cup {Absent} : map' = [map EXCEPT ![g] = v]
    /\ UNCHANGED <<durable, open>>

\* lsm_flush and lsm_compact begin, and end or give up.
Begin ==
    /\ open /\ call = "idle" /\ call' \in {"flush", "compact"}
    /\ UNCHANGED <<map, durable, open>>
End ==
    /\ open /\ call \in {"flush", "compact"} /\ call' = "idle"
    /\ UNCHANGED <<map, durable, open>>

\* A flush makes everything written so far permanent, and nothing else.
Flush ==
    /\ open /\ call = "flush"
    /\ durable' = map
    /\ UNCHANGED <<map, open, call>>

\* lsm_clear gives up entries; it never brings an older value back.
Forget ==
    /\ open /\ call \in {"idle", "clear"} /\ call' = "clear"
    /\ durable' \in Map /\ \A g \in Group : durable'[g] \in {durable[g], Absent}
    /\ UNCHANGED <<map, open>>
Clear ==
    /\ open /\ call \in {"idle", "clear"} /\ call' = "idle"
    /\ durable = Empty /\ map' = Empty
    /\ UNCHANGED <<durable, open>>

\* lsm_close and a crash, at any point of a call, lose what was not flushed.
Stop ==
    /\ open /\ open' = FALSE /\ call' = "idle"
    /\ map' = durable
    /\ UNCHANGED durable

Open == ~open /\ open' = TRUE /\ UNCHANGED <<map, durable, call>>

Next == Write \/ Begin \/ End \/ Flush \/ Forget \/ Clear \/ Stop \/ Open
Spec == Init /\ [][Next]_mapVars
================================================================================
