-------------------------------- MODULE Reads --------------------------------
(***************************************************************************)
(* Linearizable reads: ReadIndex (pkg/raft/raft.go), which returns the     *)
(* commit index once a quorum of voters has acknowledged heartbeats, and   *)
(* the handler that waits for the state machine (handleV1Get of            *)
(* cmd/raftd/main.go).                                                     *)
(*                                                                         *)
(* Elections and commits, which module Raft has step by step, are single   *)
(* steps here: a majority votes for a node whose log holds what they hold, *)
(* a majority stores an entry.  Heartbeats and their answers are messages  *)
(* that may be lost, delayed and reordered.  An index counts client        *)
(* writes.  One read is followed at a time.                                *)
(***************************************************************************)
EXTENDS Naturals, FiniteSets, FiniteSetsExt

CONSTANTS
    Voters,
    MaxReadTerm,    \* bound: terms
    MaxReadWrites,  \* bound: writes committed
    MaxHeartbeats   \* bound: heartbeats and answers in flight

ASSUME ReadAssumption ==
    /\ IsFiniteSet(Voters) /\ Voters # {}
    /\ MaxReadTerm \in Nat /\ MaxReadWrites \in Nat /\ MaxHeartbeats \in Nat

VARIABLES
    vterm,      \* per node: r.term
    leads,      \* per node: whether its state is leader
    holds,      \* per node: the committed writes its log holds
    knows,      \* per node: r.commitIndex
    owns,       \* per node: whether it committed an entry of its own term
    writes,     \* the writes committed, and answered to their clients
    wire,       \* heartbeats and answers in flight
    read        \* the read: its node, index and acknowledgements

readVars == <<vterm, leads, holds, knows, owns, writes, wire, read>>

IsQuorum(q) == 2 * Cardinality(q) > Cardinality(Voters)

\* The voters are interchangeable, so any one of them leads first.
FirstLeader == CHOOSE n \in Voters : TRUE

\* late: an acknowledgement counted for the read answers a heartbeat that was
\* sent before it; again: its node was elected once more while it waited; own: its
\* leader had committed an entry of its own term; needs: the writes answered
\* before it began.
NoRead == [at |-> FirstLeader, step |-> "none", index |-> 0, acks |-> {}, late |-> FALSE,
           again |-> FALSE, own |-> TRUE, needs |-> 0]

ReadInit ==
    /\ vterm = [n \in Voters |-> 1]
    /\ leads = [n \in Voters |-> n = FirstLeader]
    /\ holds = [n \in Voters |-> 0]
    /\ knows = [n \in Voters |-> 0]
    /\ owns = leads
    /\ writes = 0 /\ wire = {} /\ read = NoRead

-----------------------------------------------------------------------------
\* An election, by time-out or by transfer: the voters take the term after the
\* highest of theirs, and a leader among them steps down.
Elect(n, q) ==
    \E u \in q :
        LET t == vterm[u] + 1
        IN  /\ n \in q /\ IsQuorum(q) /\ t <= MaxReadTerm
            /\ \A v \in q : vterm[v] < t /\ holds[v] <= holds[n]
            /\ vterm' = [v \in Voters |-> IF v \in q THEN t ELSE vterm[v]]
            /\ leads' = [v \in Voters |-> IF v \in q THEN v = n ELSE leads[v]]
            /\ owns' = [owns EXCEPT ![n] = FALSE]
            /\ read' = [read EXCEPT !.again = @ \/ (read.step = "waiting" /\ read.at = n)]
            /\ UNCHANGED <<holds, knows, writes, wire>>

\* A majority stores a leader's entry, a client's write or the entry of
\* becomeLeader that carries none, and advanceCommitIndex commits it.
CommitEntry(n, q, w) ==
    /\ leads[n] /\ n \in q /\ IsQuorum(q) /\ writes + w <= MaxReadWrites
    /\ \A v \in q : vterm[v] <= vterm[n]
    /\ w = 0 => ~owns[n]
    /\ writes' = writes + w
    /\ holds' = [v \in Voters |-> IF v \in q THEN writes' ELSE holds[v]]
    /\ knows' = [knows EXCEPT ![n] = writes']
    /\ owns' = [owns EXCEPT ![n] = TRUE]
    /\ vterm' = [v \in Voters |-> IF v \in q THEN vterm[n] ELSE vterm[v]]
    /\ leads' = [v \in Voters |-> IF v \in q THEN v = n ELSE leads[v]]
    /\ UNCHANGED <<wire, read>>

\* sendHeartbeat: an AppendEntries without entries.
SendHeartbeat(n, v) ==
    /\ leads[n] /\ v # n /\ Cardinality(wire) < MaxHeartbeats
    /\ wire' = wire \cup {[type |-> "heartbeat", from |-> n, to |-> v, term |-> vterm[n],
                           ok |-> TRUE, commit |-> knows[n],
                           after |-> (read.step = "waiting" /\ read.at = n)]}
    /\ UNCHANGED <<vterm, leads, holds, knows, owns, writes, read>>

\* handleAppendEntries: a current heartbeat is acknowledged, a stale one refused
\* with the higher term.
HandleHeartbeat(m) ==
    LET v  == m.to
        ok == m.term >= vterm[v]
    IN  /\ m \in wire /\ m.type = "heartbeat"
        /\ wire' = (wire \ {m}) \cup
                   {[type |-> "answer", from |-> v, to |-> m.from,
                     term |-> IF ok THEN m.term ELSE vterm[v], ok |-> ok,
                     commit |-> 0, after |-> m.after]}
        /\ IF ok
           THEN /\ vterm' = [vterm EXCEPT ![v] = m.term]
                /\ leads' = [leads EXCEPT ![v] = FALSE]
                /\ knows' = [knows EXCEPT ![v] = Max({@, Min({m.commit, holds[v]})})]
           ELSE UNCHANGED <<vterm, leads, knows>>
        /\ UNCHANGED <<holds, owns, writes, read>>

\* replicateOnce with the answer: a higher term ends the leadership, an answer of
\* another term is dropped, and otherwise a success is noted with the time it is
\* handled, which counts for every read that began before.
HandleAnswer(m) ==
    LET n == m.to
        counts == m.ok /\ leads[n] /\ m.term = vterm[n] /\ read.at = n /\ read.step = "waiting"
    IN  /\ m \in wire /\ m.type = "answer"
        /\ wire' = wire \ {m}
        /\ IF leads[n] /\ m.term > vterm[n]
           THEN vterm' = [vterm EXCEPT ![n] = m.term] /\ leads' = [leads EXCEPT ![n] = FALSE]
           ELSE UNCHANGED <<vterm, leads>>
        /\ read' = IF counts THEN [read EXCEPT !.acks = @ \cup {m.from}, !.late = @ \/ ~m.after]
                   ELSE read
        /\ UNCHANGED <<holds, knows, owns, writes>>

Lose(m) ==
    /\ m \in wire
    /\ wire' = wire \ {m}
    /\ UNCHANGED <<vterm, leads, holds, knows, owns, writes, read>>

-----------------------------------------------------------------------------
\* ReadIndex: the commit index is captured when the call begins.
BeginRead(n) ==
    /\ read.step # "waiting" /\ leads[n]
    /\ read' = [at |-> n, step |-> "waiting", index |-> knows[n], acks |-> {}, late |-> FALSE,
                again |-> FALSE, own |-> owns[n], needs |-> writes]
    /\ wire' = {[m EXCEPT !.after = FALSE] : m \in wire}
    /\ UNCHANGED <<vterm, leads, holds, knows, owns, writes>>

\* Mutant of Confirmed: one voter short of a quorum.
ConfirmedEarly == 2 * (Cardinality(read.acks \cup {read.at}) + 1) > Cardinality(Voters)

\* Self and the voters that acknowledged since the call began are a quorum.
Confirmed == IsQuorum(read.acks \cup {read.at})

\* ReadIndex returns; WaitApplied and the read of the state machine show at least
\* the writes up to the index.
ServeRead ==
    /\ read.step = "waiting" /\ leads[read.at] /\ Confirmed
    /\ read' = [read EXCEPT !.step = "served"]
    /\ UNCHANGED <<vterm, leads, holds, knows, owns, writes, wire>>

\* The node is no longer the leader, or the caller's deadline passes.
FailRead ==
    /\ read.step = "waiting"
    /\ read' = NoRead
    /\ UNCHANGED <<vterm, leads, holds, knows, owns, writes, wire>>

ReadNext ==
    \/ \E n \in Voters, q \in SUBSET Voters :
        \/ Elect(n, q)
        \/ \E w \in {0, 1} : CommitEntry(n, q, w)
    \/ \E n, v \in Voters : SendHeartbeat(n, v)
    \/ \E m \in wire : HandleHeartbeat(m) \/ HandleAnswer(m) \/ Lose(m)
    \/ \E n \in Voters : BeginRead(n)
    \/ ServeRead
    \/ FailRead

ReadSpec == ReadInit /\ [][ReadNext]_readVars

-----------------------------------------------------------------------------
\* A read shows every write that was answered before it began, whichever node
\* believes itself leader, when its leader had committed an entry of its own term
\* and led without a break, and the acknowledgements counted answer heartbeats
\* sent after the read began.
ConfirmedReadIsFresh ==
    read.step = "served" /\ ~read.late /\ ~read.again /\ read.own => read.index >= read.needs
==============================================================================
