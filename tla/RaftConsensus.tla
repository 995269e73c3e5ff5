--------------------------- MODULE RaftConsensus ---------------------------
(***************************************************************************)
(* Raft implements Consensus.  Terms, logs, commit indexes and the history *)
(* are the same.  The requests are the AppendEntries requests in flight.   *)
(* What a server acknowledged is in a successful response on its way to    *)
(* the leader, or in the replication tracker of that leader.               *)
(***************************************************************************)
EXTENDS Raft

\* The AppendEntries requests in flight, the late ones included.
Requests == {m \in msgs \cup late : m.type = "AppendRequest"}

\* The acknowledgements on their way.
Told == {m \in msgs : m.type = "AppendResponse" /\ m.success /\ m.lastSent > 0}

\* The followers a leader counts.
Counted ==
    {p \in Server \X Server :
        state[p[1]] = "Leader" /\ p[1] # p[2] /\ matchIndex[p[1]][p[2]] > 0}

\* What followers told, and what leaders noted of it.
Acks ==
    {[voter |-> m.from, term |-> m.reqTerm, index |-> m.lastSent] : m \in Told}
    \cup
    {[voter |-> p[2], term |-> term[p[1]], index |-> matchIndex[p[1]][p[2]]] : p \in Counted}

\* The sets of voters that reach quorumSize().
Majorities == {Q \in SUBSET Voters : Cardinality(Q) >= QuorumSize}

\* Consensus on the state of Raft.
C == INSTANCE Consensus WITH
        Quorum <- Majorities, Value <- Value \cup {Noop}, requests <- Requests, acks <- Acks

\* Every behaviour of Raft is one of Consensus: roles, timers, pre-votes, vote
\* messages, replication trackers, deadlines and crashes add nothing to what
\* Consensus lets happen to terms, votes, logs and commit indexes.
ImplementsConsensus == C!Spec
=============================================================================
