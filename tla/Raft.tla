---------------------------------- MODULE Raft ---------------------------------
(* Raft as src/raft.c has it: election, replication, commitment, linearizable    *)
(* reads, restarts.  Each operator named after a C function takes and returns    *)
(* the struct it changes (r, of node i); an action is one call of the library.   *)
(*                                                                               *)
(* Timers are left out: a timeout may come at any time.  The network delivers a  *)
(* message at most once, in any order or never, and holds QCAP of them.          *)
(* Snapshots and membership changes are not here: log_base stays 0 and every     *)
(* node is a member.                                                             *)
EXTENDS Integers, Sequences, FiniteSets, Bags, SequencesExt

CONSTANTS
    Node,               \* nodes
    None,               \* voted_for: nobody
    RAFT_MAX_BATCH,     \* entries of one AppendEntries
    QCAP,               \* capacity of the network
    MaxTerm,            \* bound on terms
    MaxLog,             \* bound on the index of submitted commands
    MaxEvents           \* bound on elections begun, reads and restarts together

ASSUME RaftAssumption ==
    /\ IsFiniteSet(Node) /\ Node # {} /\ None \notin Node
    /\ RAFT_MAX_BATCH \in Nat \ {0} /\ QCAP \in Nat
    /\ MaxTerm \in Nat /\ MaxLog \in Nat /\ MaxEvents \in Nat

VARIABLES
    node,       \* the struct Raft of each node
    msgs,       \* messages under way, a bag
    events      \* elections begun, reads and restarts so far

\* History variables: what has happened.
VARIABLES
    elected,    \* <<term, node>>: the node has been leader in the term
    chosen,     \* [index, entry, term]: applied by a node that was in the term, none earlier
    floor       \* per node, the highest index applied anywhere when its read began

ghostVars == <<elected, chosen, floor>>
vars == <<node, msgs, events, ghostVars>>

\* A command stands for what its submitter, the leader, was asked for.
Entry(t, kind, by) == [term |-> t, kind |-> kind, by |-> by]

--------------------------------------------------------------------------------
(* The log.  Its first element is a marker for index log_base.                   *)

raft_last_log_index(r) == r.log_base + Len(r.log) - 1
raft_last_log_term(r) == Last(r.log).term
ent(r, k) == r.log[k - r.log_base + 1]
term_at(r, k) == ent(r, k).term
log_append(r, e) == [r EXCEPT !.log = Append(@, e)]

majority(r) == (Cardinality(r.members) \div 2) + 1

\* Faulty variant: the voter compares only with what it knows to be committed.
candidate_has_committed(r, idx, term) == idx >= r.commit_index

candidate_log_up_to_date(r, idx, term) ==
    IF term # raft_last_log_term(r) THEN term > raft_last_log_term(r)
                                    ELSE idx >= raft_last_log_index(r)

--------------------------------------------------------------------------------
(* Changes of role.                                                              *)

become_follower(r, term) ==
    [r EXCEPT !.role = "follower", !.current_term = term, !.voted_for = None,
              !.read_barrier = -1, !.read_confirmed = -1]

step_down_if_higher(r, term) ==
    IF term > r.current_term THEN become_follower(r, term) ELSE r

\* What the leader i sends to a peer.
send_append_entries(i, r, peer) ==
    LET next == r.next_index[peer]
    IN  [type |-> "append", from |-> i, to |-> peer, term |-> r.current_term,
         prev |-> next - 1, prev_term |-> term_at(r, next - 1),
         commit |-> r.commit_index, epoch |-> r.read_epoch,
         entries |-> [k \in 1..Min({RAFT_MAX_BATCH, raft_last_log_index(r) + 1 - next})
                        |-> ent(r, next + k - 1)]]
Heartbeats(i, r) == {send_append_entries(i, r, p) : p \in r.members \ {i}}

\* The highest entry of its own term that a majority of the members has, and all before.
leader_advance_commit(r) ==
    LET reached == {n \in (r.commit_index + 1)..raft_last_log_index(r) :
                       /\ term_at(r, n) = r.current_term
                       /\ Cardinality({p \in r.members : r.match_index[p] >= n}) >= majority(r)}
    IN  IF reached = {} THEN r ELSE [r EXCEPT !.commit_index = Max(reached)]

\* An uncommitted tail gets an empty entry of the new term behind it.
become_leader(i, r) ==
    LET last == raft_last_log_index(r)
        s == IF last > r.commit_index THEN log_append(r, Entry(r.current_term, "noop", None)) ELSE r
    IN  leader_advance_commit(
            [s EXCEPT !.role = "leader", !.read_barrier = -1, !.read_confirmed = -1,
                      !.next_index = [p \in Node |-> IF p \in r.members THEN last + 1 ELSE @[p]],
                      !.match_index = [p \in Node |-> IF p = i THEN raft_last_log_index(s)
                                                      ELSE IF p \in r.members THEN 0 ELSE @[p]],
                      !.read_gate = raft_last_log_index(s)])

become_candidate(i, r) ==
    [r EXCEPT !.current_term = @ + 1, !.role = "candidate", !.voted_for = i, !.votes_granted = 1]
VoteRequests(i, r) ==
    {[type |-> "vote", from |-> i, to |-> p, term |-> r.current_term,
      last |-> raft_last_log_index(r), last_term |-> raft_last_log_term(r)] : p \in r.members \ {i}}

--------------------------------------------------------------------------------
(* Receiving.  m is the message, r the receiver before, the result the receiver  *)
(* after.                                                                        *)

\* Faulty variant: the vote already given in this term is not looked at.
GrantsTwice(s, m) ==
    /\ m.term >= s.current_term
    /\ candidate_log_up_to_date(s, m.last, m.last_term)

\* The receiver, having stepped down to s if it had to, votes for the sender.
Grants(s, m) ==
    /\ m.term >= s.current_term
    /\ s.voted_for \in {None, m.from}
    /\ candidate_log_up_to_date(s, m.last, m.last_term)

handle_request_vote(r, m) ==
    LET s == step_down_if_higher(r, m.term)
    IN  [s EXCEPT !.voted_for = IF Grants(s, m) THEN m.from ELSE @]

handle_request_vote_reply(i, r, m) ==
    IF m.term > r.current_term THEN become_follower(r, m.term)
    ELSE IF r.role # "candidate" \/ m.term # r.current_term \/ ~m.granted THEN r
    ELSE LET s == [r EXCEPT !.votes_granted = @ + 1]
         IN  IF s.votes_granted >= majority(s) THEN become_leader(i, s) ELSE s

\* Faulty variant: the term of the entry before is not compared.
ConsistentLength(r, m) == m.prev <= raft_last_log_index(r)

\* The consistency check of AppendEntries.
Consistent(r, m) ==
    /\ m.prev <= raft_last_log_index(r)
    /\ m.prev >= r.log_base => term_at(r, m.prev) = m.prev_term

\* Faulty variant: only what is missing is taken.
MergeMissing(r, m) ==
    r.log \o SubSeq(m.entries, raft_last_log_index(r) + 1 - m.prev, Len(m.entries))

\* The log after the entries of m: from the first that conflicts, or is missing, on.
Merge(r, m) ==
    LET new == {k \in DOMAIN m.entries :
                   /\ m.prev + k > r.log_base
                   /\ m.prev + k <= raft_last_log_index(r) => term_at(r, m.prev + k) # m.entries[k].term}
        first == Min(new)
    IN  IF new = {} THEN r.log
        ELSE SubSeq(r.log, 1, m.prev + first - r.log_base) \o SubSeq(m.entries, first, Len(m.entries))

handle_append_entries(r, m) ==
    LET s == step_down_if_higher(r, m.term)
        t == [s EXCEPT !.role = "follower", !.log = Merge(s, m)]
    IN  IF m.term < s.current_term THEN s
        ELSE IF ~Consistent(s, m) THEN [s EXCEPT !.role = "follower"]
        ELSE [t EXCEPT !.commit_index =
                 IF m.commit > @ THEN Min({m.commit, raft_last_log_index(t)}) ELSE @]

\* A reply of f counts for the read under way, which a majority confirms.
CountAck(r, f) ==
    LET acks == r.read_acks \cup {f}
    IN  IF Cardinality(acks \cap r.members) < majority(r) THEN [r EXCEPT !.read_acks = acks]
        ELSE [r EXCEPT !.read_acks = acks, !.read_confirmed = r.read_barrier, !.read_barrier = -1]

\* Faulty variant: a reply to a heartbeat sent before the read counts too.
CountsEarly(r, m) == r.read_barrier >= 0

Counts(r, m) == r.read_barrier >= 0 /\ m.epoch = r.read_epoch

\* Faulty variant: next_index goes down to 0.
BackBelowOne(r, f) == [r EXCEPT !.next_index[f] = @ - 1]

Back(r, f) == [r EXCEPT !.next_index[f] = IF @ > 1 THEN @ - 1 ELSE @]

handle_append_entries_reply(r, m) ==
    LET f == m.from
        match == Max({r.match_index[f], m.match})
        s == leader_advance_commit([r EXCEPT !.match_index[f] = match, !.next_index[f] = match + 1])
    IN  IF m.term > r.current_term THEN become_follower(r, m.term)
        ELSE IF r.role # "leader" \/ m.term # r.current_term THEN r
        ELSE IF ~m.success THEN Back(r, f)
        ELSE IF Counts(s, m) THEN CountAck(s, f) ELSE s

\* The answers to m, by the receiver that was r.
VoteReply(r, m) ==
    LET s == step_down_if_higher(r, m.term)
    IN  [type |-> "vote_reply", from |-> m.to, to |-> m.from, term |-> s.current_term,
         granted |-> Grants(s, m)]
\* Faulty variant of Matched: all that the follower has.
MatchedAll(r, m) == raft_last_log_index([r EXCEPT !.log = Merge(r, m)])

Matched(r, m) == m.prev + Len(m.entries)
AppendReply(r, m) ==
    LET s == step_down_if_higher(r, m.term)
        ok == m.term >= s.current_term /\ Consistent(s, m)
    IN  [type |-> "append_reply", from |-> m.to, to |-> m.from, term |-> s.current_term,
         success |-> ok, match |-> IF ok THEN Matched(s, m) ELSE 0, epoch |-> m.epoch]

--------------------------------------------------------------------------------
(* The network (external: the harness of tests/test_raft.c and src/raftdb.c).    *)

\* Of the messages M some are put on the network beside the rest; the others are lost.
Send(rest, M) ==
    \E S \in SUBSET M :
        /\ msgs' = rest (+) SetToBag(S)
        /\ BagCardinality(msgs') <= QCAP

--------------------------------------------------------------------------------
Fresh ==
    [members |-> Node, current_term |-> 0, voted_for |-> None,
     log |-> <<Entry(0, "marker", None)>>, log_base |-> 0,
     role |-> "follower", commit_index |-> 0, votes_granted |-> 0,
     next_index |-> [p \in Node |-> 0], match_index |-> [p \in Node |-> 0], read_gate |-> 0,
     read_barrier |-> -1, read_acks |-> {}, read_confirmed |-> -1, read_epoch |-> 0]

Init ==
    /\ node = [i \in Node |-> Fresh]
    /\ msgs = EmptyBag /\ events = 0
    /\ elected = {} /\ chosen = {} /\ floor = [i \in Node |-> 0]

\* Node i becomes r.  What lies between the commit indices is applied: apply_committed.
Becomes(i, r) ==
    /\ node' = [node EXCEPT ![i] = r]
    /\ elected' = IF r.role = "leader" THEN elected \cup {<<r.current_term, i>>} ELSE elected
    /\ chosen' = chosen \cup
           {[index |-> k, entry |-> ent(r, k), term |-> r.current_term] :
               k \in {n \in (node[i].commit_index + 1)..r.commit_index :
                         ~\E c \in chosen : c.index = n /\ c.entry = ent(r, n) /\ c.term <= r.current_term}}

\* raft_tick at the election timeout.
Timeout(i) ==
    LET r == become_candidate(i, node[i])
        won == r.votes_granted >= majority(r)
        s == IF won THEN become_leader(i, r) ELSE r
    IN  /\ node[i].role # "leader" /\ i \in node[i].members
        /\ node[i].current_term < MaxTerm /\ events < MaxEvents /\ events' = events + 1
        /\ Becomes(i, s)
        /\ Send(msgs, IF won THEN Heartbeats(i, s) ELSE VoteRequests(i, s))
        /\ UNCHANGED floor

\* raft_tick at the heartbeat timeout.
Heartbeat(i) ==
    /\ node[i].role = "leader"
    /\ Send(msgs, Heartbeats(i, node[i]))
    /\ UNCHANGED <<node, events, ghostVars>>

raft_submit(i) ==
    /\ node[i].role = "leader" /\ raft_last_log_index(node[i]) < MaxLog
    /\ LET r == log_append(node[i], Entry(node[i].current_term, "command", i))
       IN  node' = [node EXCEPT ![i] = [r EXCEPT !.match_index[i] = raft_last_log_index(r)]]
    /\ UNCHANGED <<msgs, events, ghostVars>>

\* A read begins: the commit index is good once a majority still follows.
raft_read_index(i) ==
    LET alone == node[i].members = {i}
        c == node[i].commit_index
        r == [node[i] EXCEPT !.read_barrier = IF alone THEN -1 ELSE c,
                             !.read_confirmed = IF alone THEN c ELSE -1,
                             !.read_acks = {i}, !.read_epoch = @ + 1]
    IN  /\ node[i].role = "leader" /\ events < MaxEvents /\ events' = events + 1
        /\ c >= node[i].read_gate
        /\ node' = [node EXCEPT ![i] = r]
        /\ floor' = [floor EXCEPT ![i] = Max({0} \cup {x.index : x \in chosen})]
        /\ Send(msgs, Heartbeats(i, r))
        /\ UNCHANGED <<elected, chosen>>

\* raft_recv: the message leaves the network, the handler runs, its answer or, from a
\* new leader, its heartbeats are sent.
raft_recv(m) ==
    LET i == m.to
        r == node[i]
        s == CASE m.type = "vote" -> handle_request_vote(r, m)
               [] m.type = "vote_reply" -> handle_request_vote_reply(i, r, m)
               [] m.type = "append" -> handle_append_entries(r, m)
               [] m.type = "append_reply" -> handle_append_entries_reply(r, m)
        out == CASE m.type = "vote" -> {VoteReply(r, m)}
                 [] m.type = "append" -> {AppendReply(r, m)}
                 [] m.type = "vote_reply" -> IF s.role = "leader" /\ r.role # "leader"
                                             THEN Heartbeats(i, s) ELSE {}
                 [] OTHER -> {}
    IN  /\ Becomes(i, s)
        /\ Send(msgs (-) SetToBag({m}), out)
        /\ UNCHANGED <<events, floor>>

\* Term, vote and log survive.
raft_crash_restart(i) ==
    /\ events < MaxEvents /\ events' = events + 1
    /\ node' = [node EXCEPT ![i] =
                   [Fresh EXCEPT !.members = node[i].members, !.current_term = node[i].current_term,
                                 !.voted_for = node[i].voted_for, !.log = node[i].log,
                                 !.log_base = node[i].log_base, !.commit_index = node[i].log_base,
                                 !.read_gate = node[i].read_gate, !.read_acks = node[i].read_acks,
                                 !.read_epoch = node[i].read_epoch]]
    /\ UNCHANGED <<msgs, ghostVars>>

Next ==
    \/ \E i \in Node : \/ Timeout(i) \/ Heartbeat(i) \/ raft_submit(i) \/ raft_read_index(i)
                       \/ raft_crash_restart(i)
    \/ \E m \in BagToSet(msgs) : raft_recv(m)

Spec == Init /\ [][Next]_vars

--------------------------------------------------------------------------------
(* Properties.                                                                   *)

\* Every field has its type; a node commits nothing that it does not have, and a leader
\* asks no follower for an entry before the first nor counts one it does not have.
TypeOK ==
    /\ \A i \in Node :
          LET r == node[i]
              last == raft_last_log_index(r)
          IN  /\ r.role \in {"follower", "candidate", "leader"} /\ r.members \in SUBSET Node
              /\ r.current_term \in 0..MaxTerm /\ r.voted_for \in Node \cup {None}
              /\ \A k \in DOMAIN r.log :
                    r.log[k] \in [term : 0..r.current_term, kind : {"marker", "command", "noop"},
                                  by : Node \cup {None}]
              /\ r.log_base \in 0..last /\ r.commit_index \in r.log_base..last
              /\ r.votes_granted \in 0..Cardinality(Node) /\ r.read_acks \in SUBSET Node
              /\ r.read_barrier \in -1..r.commit_index /\ r.read_confirmed \in -1..r.commit_index
              /\ r.read_gate \in Nat /\ r.read_epoch \in Nat
              /\ r.role = "leader" => \A p \in r.members : /\ r.next_index[p] \in 1..(last + 1)
                                                           /\ r.match_index[p] \in 0..last
    /\ IsABag(msgs) /\ BagCardinality(msgs) <= QCAP
    /\ \A m \in BagToSet(msgs) : {m.from, m.to} \subseteq Node /\ m.term \in 1..MaxTerm
    /\ events \in 0..MaxEvents

\* Election safety: a term has one leader, over the whole history and whatever restarts
\* in between, because a vote (handle_request_vote) is given once per term and kept.
ElectionSafety == \A a, b \in elected : a[1] = b[1] => a[2] = b[2]

Has(r, k) == k \in (r.log_base + 1)..raft_last_log_index(r)

\* Log matching: two logs with entries of the same index and term are the same up to
\* there: a term has one leader, and handle_append_entries takes entries only behind an
\* entry with the leader's term, though a node may still hold what the leader of
\* another term left there.
LogMatching ==
    \A i, j \in Node : \A k \in (node[i].log_base + 1)..raft_last_log_index(node[i]) :
        Has(node[j], k) /\ term_at(node[i], k) = term_at(node[j], k) =>
            \A n \in 1..k : Has(node[i], n) /\ Has(node[j], n) => ent(node[i], n) = ent(node[j], n)

\* Leader completeness: what apply_committed has applied in some term is in the log of
\* the leader of that term and of every later one (candidate_log_up_to_date).
LeaderCompleteness ==
    \A i \in Node : \A c \in chosen :
        node[i].role = "leader" /\ node[i].current_term >= c.term =>
            \/ c.index <= node[i].log_base
            \/ Has(node[i], c.index) /\ ent(node[i], c.index) = c.entry

\* State machine safety: no two calls of apply_committed, by two nodes or by one before
\* and after a restart, apply different entries at an index.
StateMachineSafety == \A a, b \in chosen : a.index = b.index => a.entry = b.entry

\* What a leader counts as replicated to a node of its term (match_index) is in that
\* node's log, however late the replies it was learned from.
MatchIsHeld ==
    \A i, p \in Node : node[i].role = "leader" /\ node[p].current_term = node[i].current_term =>
        \A k \in 1..node[i].match_index[p] :
            Has(node[i], k) => Has(node[p], k) /\ ent(node[p], k) = ent(node[i], k)

\* Linearizable reads: an index that raft_read_index was asked for and
\* handle_append_entries_reply confirms covers all that was applied anywhere when the
\* read began, though the leader may have been deposed by then.
ReadsAreCurrent == \A i \in Node : node[i].read_confirmed >= 0 => node[i].read_confirmed >= floor[i]

================================================================================
