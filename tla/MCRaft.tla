--------------------------------- MODULE MCRaft --------------------------------
(* Raft for TLC: nothing tells the nodes apart.                                  *)
EXTENDS Raft, TLC

Symmetry == Permutations(Node)

\* A read is under way, or one may still begin.
Reads == events < MaxEvents \/ \E i \in Node : node[i].read_barrier >= 0

\* What is still read of a node: a field that only a leader, a candidate, a pending read or
\* a further event uses, and that is set anew before the next use, does not tell states
\* apart.
Live(i) ==
    LET r == node[i]
    IN  <<r.members, r.current_term, r.voted_for, r.log, r.log_base, r.role, r.commit_index,
          r.read_barrier, r.read_confirmed >= 0 /\ r.read_confirmed < floor[i],
          IF Reads THEN r.read_epoch ELSE 0,
          IF r.role = "candidate" THEN r.votes_granted ELSE 0,
          IF r.role = "leader" THEN <<r.next_index, r.match_index>> ELSE <<>>,
          IF r.role = "leader" /\ events < MaxEvents THEN r.read_gate ELSE 0,
          IF r.read_barrier >= 0 THEN <<r.read_acks, floor[i]>> ELSE <<>>>>
Carried(m) ==
    IF Reads \/ m.type \notin {"append", "append_reply"} THEN m ELSE [m EXCEPT !.epoch = 0]
View == <<[i \in Node |-> Live(i)], BagOfAll(Carried, msgs), events, elected, chosen>>

\* No reply is on the way that its receiver ignores, now and ever after (its term has
\* passed, or its receiver is no candidate or leader of it, or it is a vote refused): what
\* such a reply leads to, its loss leads to as well.
NoIdleReply ==
    \A m \in BagToSet(msgs) :
        LET r == node[m.to]
        IN  CASE m.type = "vote_reply" ->
                     \/ m.term > r.current_term
                     \/ m.term = r.current_term /\ r.role = "candidate" /\ m.granted
              [] m.type = "append_reply" ->
                     \/ m.term > r.current_term
                     \/ m.term = r.current_term /\ r.role = "leader"
              [] OTHER -> TRUE

\* A bound: from the third election on messages travel one at a time.
OneAtATime == (\E i \in Node : node[i].current_term > 2) => BagCardinality(msgs) <= 1
================================================================================
