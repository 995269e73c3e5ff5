----------------------------- MODULE Consensus -----------------------------
(***************************************************************************)
(* What pkg/raft/raft.go does to terms, votes, logs and commitment, with   *)
(* all that does not matter for agreement left out: roles, timers,         *)
(* pre-votes, vote messages, replication progress and the bounds of the    *)
(* model checker.  Requests and acknowledgements are sets that lose        *)
(* members at any time.  Raft implements this specification.               *)
(***************************************************************************)
EXTENDS Integers, Sequences

CONSTANTS
    Server,
    Quorum,        \* the sets of servers that elect a leader or commit an entry
    Value

VARIABLES
    term,
    log,
    elections,     \* every election started: [term, cand, log]
    ballots,       \* every vote cast: [term, voter, cand]
    leaders,       \* every election won: <<term, server>>
    requests,      \* stretches of a leader's log on their way to a server
    acks,          \* what voter told, or tells, the leader of term it has: up to index
    commitIndex,
    storedCommit,
    applied        \* every entry handed to a state machine: <<index, entry>>

vars == <<term, log, elections, ballots, leaders, requests, acks,
          commitIndex, storedCommit, applied>>

\* A log entry.
Entry == [term : Nat, val : Value]

\* An election: the log is the candidate's when it ran.
Election == [term : Nat, cand : Server, log : Seq(Entry)]

\* An AppendEntries request, with the fields of Raft's messages.
Request ==
    [type : {"AppendRequest"}, from : Server, to : Server, term : Nat,
     prevIndex : Nat, prevTerm : Nat, entries : Seq(Entry), commit : Nat]

\* The term of the last entry, 0 for an empty log.
LastTerm(lg) == IF lg = << >> THEN 0 ELSE lg[Len(lg)].term

\* lg is at least as up-to-date as other.
UpToDate(lg, other) ==
    \/ LastTerm(lg) > LastTerm(other)
    \/ LastTerm(lg) = LastTerm(other) /\ Len(lg) >= Len(other)

\* s was elected in its current term.
Elected(s) == <<term[s], s>> \in leaders

\* A cluster that never ran.
Init ==
    /\ term = [s \in Server |-> 0]
    /\ log = [s \in Server |-> << >>]
    /\ elections = {}
    /\ ballots = {}
    /\ leaders = {}
    /\ requests = {}
    /\ acks = {}
    /\ commitIndex = [s \in Server |-> 0]
    /\ storedCommit = [s \in Server |-> 0]
    /\ applied = {}

\* Messages get lost and trackers are reset.
Lossy == requests' \subseteq requests /\ acks' \subseteq acks

-----------------------------------------------------------------------------
(* Commitment.                                                             *)

\* An entry of the leader's own term that a quorum acknowledged.
Committable(s, n) ==
    /\ Elected(s)
    /\ n \in 1..Len(log[s])
    /\ log[s][n].term = term[s]
    /\ \E Q \in Quorum :
        \A v \in Q :
            v = s \/ \E a \in acks : a.voter = v /\ a.term = term[s] /\ n <= a.index

\* s holds as committed no more than before, than what it stored, or than
\* what it can commit after the step.
Commit(s) ==
    /\ commitIndex' = [commitIndex EXCEPT ![s] = commitIndex'[s]]
    /\ commitIndex'[s] \in Nat
    /\ \/ commitIndex'[s] <= commitIndex[s]
       \/ commitIndex'[s] <= storedCommit[s]
       \/ Committable(s, commitIndex[s])'

\* s moves its commit index; a restart takes it back to what was stored.
Decide(s) ==
    /\ Commit(s)
    /\ Lossy
    /\ UNCHANGED <<term, log, elections, ballots, leaders, storedCommit, applied>>

\* s stores its commit index.
Flush(s) ==
    /\ storedCommit' = [storedCommit EXCEPT ![s] = commitIndex[s]]
    /\ Lossy
    /\ UNCHANGED <<term, log, elections, ballots, leaders, commitIndex, applied>>

\* s hands a committed entry to its state machine.
Apply(s) ==
    /\ \E i \in 1..Len(log[s]) :
        /\ i <= commitIndex[s]
        /\ applied' = applied \cup {<<i, log[s][i]>>}
    /\ Lossy
    /\ UNCHANGED <<term, log, elections, ballots, leaders, commitIndex, storedCommit>>

-----------------------------------------------------------------------------
(* Elections.                                                              *)

\* s hears of a newer term.
Observe(s) ==
    /\ term' = [term EXCEPT ![s] = term'[s]]
    /\ term'[s] \in Nat /\ term'[s] >= term[s]
    /\ Lossy
    /\ UNCHANGED <<log, elections, ballots, leaders, commitIndex, storedCommit, applied>>

\* s adds an entry of its new term to its log.
Extend(s, t) ==
    \E v \in Value : log' = [log EXCEPT ![s] = Append(@, [term |-> t, val |-> v])]

\* s takes office in term t with a no-op of that term.
Lead(s, t) ==
    /\ leaders' = leaders \cup {<<t, s>>}
    /\ Extend(s, t)
    /\ Commit(s)

\* s runs for the next term.  If its own vote is enough it is elected at once.
Campaign(s) ==
    /\ term' = [term EXCEPT ![s] = term[s] + 1]
    /\ elections' = elections \cup {[term |-> term[s] + 1, cand |-> s, log |-> log[s]]}
    /\ ballots' = ballots \cup {[term |-> term[s] + 1, voter |-> s, cand |-> s]}
    /\ \/ UNCHANGED <<log, leaders, commitIndex>>
       \/ {s} \in Quorum /\ Lead(s, term[s] + 1)
    /\ Lossy
    /\ UNCHANGED <<storedCommit, applied>>

\* v votes once per term, for a candidate whose log is up-to-date.
Vote(v, e) ==
    /\ term[v] <= e.term
    /\ \A b \in ballots : b.voter = v /\ b.term = e.term => b.cand = e.cand
    /\ UpToDate(e.log, log[v])
    /\ term' = [term EXCEPT ![v] = e.term]
    /\ ballots' = ballots \cup {[term |-> e.term, voter |-> v, cand |-> e.cand]}
    /\ Lossy
    /\ UNCHANGED <<log, elections, leaders, commitIndex, storedCommit, applied>>

\* s has a quorum of votes for its current term.
Win(s) ==
    /\ \E Q \in Quorum :
        \A v \in Q : [term |-> term[s], voter |-> v, cand |-> s] \in ballots
    /\ Lead(s, term[s])
    /\ Lossy
    /\ UNCHANGED <<term, elections, ballots, storedCommit, applied>>

-----------------------------------------------------------------------------
(* Replication.                                                            *)

\* A leader appends an entry.
Propose(s) ==
    /\ Elected(s)
    /\ Extend(s, term[s])
    /\ Commit(s)
    /\ Lossy
    /\ UNCHANGED <<term, elections, ballots, leaders, storedCommit, applied>>

\* The request that carries the entries after prev up to last.
Stretch(s, f, prev, last) ==
    [type |-> "AppendRequest", from |-> s, to |-> f, term |-> term[s],
     prevIndex |-> prev, prevTerm |-> IF prev = 0 THEN 0 ELSE log[s][prev].term,
     entries |-> SubSeq(log[s], prev + 1, last), commit |-> commitIndex[s]]

\* A leader sends a stretch of its log.
Send(s, f) ==
    /\ Elected(s)
    /\ f # s
    /\ \E prev \in 0..Len(log[s]) : \E last \in prev..Len(log[s]) :
        requests' \subseteq requests \cup {Stretch(s, f, prev, last)}
    /\ acks' \subseteq acks
    /\ UNCHANGED <<term, log, elections, ballots, leaders, commitIndex, storedCommit,
                   applied>>

\* s has the entry before the request's first.
PrevMatches(s, m) ==
    m.prevIndex > 0 =>
        /\ m.prevIndex <= Len(log[s])
        /\ log[s][m.prevIndex].term = m.prevTerm

\* The i-th entry of the request is in the log already.
Present(s, m, i) ==
    /\ m.prevIndex + i <= Len(log[s])
    /\ log[s][m.prevIndex + i].term = m.entries[i].term

\* The log after the request.
Merged(s, m) ==
    IF \A i \in 1..Len(m.entries) : Present(s, m, i)
    THEN log[s]
    ELSE [k \in 1..(m.prevIndex + Len(m.entries)) |->
             IF \A i \in 1..(k - m.prevIndex) : Present(s, m, i)
             THEN log[s][k]
             ELSE m.entries[k - m.prevIndex]]

\* s takes over a stretch of the log of a leader that is not older than s.
Store(s, m) ==
    LET last == m.prevIndex + Len(m.entries)
    IN  /\ m.to = s
        /\ m.term >= term[s]
        /\ PrevMatches(s, m)
        /\ term' = [term EXCEPT ![s] = m.term]
        /\ log' = [log EXCEPT ![s] = Merged(s, m)]
        /\ commitIndex' = [commitIndex EXCEPT ![s] = commitIndex'[s]]
        /\ commitIndex'[s] \in Nat
        /\ \/ commitIndex'[s] <= commitIndex[s]
           \/ commitIndex'[s] <= m.commit /\ commitIndex'[s] <= last
        /\ requests' \subseteq requests
        /\ acks' \subseteq acks \cup {[voter |-> s, term |-> m.term, index |-> last]}
        /\ UNCHANGED <<elections, ballots, leaders, storedCommit, applied>>

-----------------------------------------------------------------------------

\* A step of one server.
Next ==
    \/ \E s \in Server :
        \/ Decide(s) \/ Flush(s) \/ Apply(s)
        \/ Observe(s) \/ Campaign(s) \/ Win(s)
        \/ \E e \in elections : Vote(s, e)
        \/ Propose(s)
        \/ \E f \in Server : Send(s, f)
        \/ \E m \in requests : Store(s, m)

\* The specification.  It promises no progress.
Spec == Init /\ [][Next]_vars

-----------------------------------------------------------------------------
(* What agreement means.                                                   *)

\* Any two quorums have a server in common.
QuorumsMeet ==
    /\ Quorum \subseteq SUBSET Server
    /\ \A P, Q \in Quorum : P \cap Q # {}

\* No two servers are elected in one term.
ElectionSafety == \A a, b \in leaders : a[1] = b[1] => a = b

\* Two logs that hold an entry of the same index and term are identical up to
\* that entry.
LogMatching ==
    \A a, b \in Server :
        \A i \in 1..Len(log[a]) :
            i <= Len(log[b]) /\ log[a][i].term = log[b][i].term
                => \A j \in 1..i : log[a][j] = log[b][j]

\* What a server holds as committed is in the log of every server that was
\* elected in its current term and is not older.
LeaderCompleteness ==
    \A l, s \in Server :
        Elected(l) /\ term[l] >= term[s] =>
            /\ commitIndex[s] <= Len(log[l])
            /\ \A i \in 1..commitIndex[s] : log[l][i] = log[s][i]

\* No two servers ever apply different entries at one index.
StateMachineSafety == \A a, b \in applied : a[1] = b[1] => a = b

\* v told the leader of term t that it has that leader's log up to n.
Ack(v, t, n) == n > 0 /\ \E a \in acks : a.voter = v /\ a.term = t /\ n <= a.index

\* What a server acknowledged to the leader of its term is in both logs.
AcksTruthful ==
    \A l, f \in Server : \A n \in Nat :
        Elected(l) /\ term[f] = term[l] /\ Ack(f, term[l], n) =>
            /\ n <= Len(log[f])
            /\ n <= Len(log[l])
            /\ \A i \in 1..n : log[f][i] = log[l][i]

\* No step removes or changes an entry a server holds as committed.
CommittedStays ==
    \A s \in Server :
        /\ commitIndex[s] <= Len(log'[s])
        /\ \A i \in 1..commitIndex[s] : log'[s][i] = log[s][i]
=============================================================================
