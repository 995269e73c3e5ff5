-------------------------------- MODULE Raft --------------------------------
(***************************************************************************)
(* The consensus core of pkg/raft/raft.go for a fixed membership: leader   *)
(* election with and without pre-vote, CheckQuorum step-down, forced       *)
(* elections (TimeoutNow), log replication with conflict hints, commit,    *)
(* apply, and crash and restart from the durable state.                    *)
(*                                                                         *)
(* Every action is one critical section of r.mu.  An RPC is a request and  *)
(* its response, each handled late, out of order or never.  At most one    *)
(* AppendEntries RPC is in flight per leader and follower; when its        *)
(* deadline passes or the caller dies, the request can still reach the     *)
(* handler, but nobody waits for the answer.                               *)
(*                                                                         *)
(* Timers are abstracted to choice: an election timeout may fire whenever  *)
(* the state lets it, and a leader may find at any tick that its           *)
(* acknowledgements are too old.  Snapshots are not part of this module,   *)
(* so lastIndex and lastTerm are those of the log.                         *)
(***************************************************************************)
EXTENDS Integers, Sequences, FiniteSets

CONSTANTS
    Server,        \* every server of the configuration
    Voters,        \* the ones that are not learners
    Value,         \* client commands
    Noop,          \* payload of the entry a new leader appends
    Nil,           \* "no server"
    PreVote,       \* Config.PreVote
    CheckQuorum,   \* Config.CheckQuorum
    Transfers,     \* whether TimeoutNow is ever sent
    Restarts,      \* whether a server that died is ever started again
    MaxBatch,      \* entries per AppendEntries request
    MaxTerm,       \* bound: no election starts beyond this term
    MaxCampaigns,  \* bound: number of elections each server starts
    MaxLogLen,     \* bound: length of a leader's log
    MaxApplied,    \* bound: entries a state machine applies
    MaxCrashes,    \* bound: number of crashes
    MaxDeadlines,  \* bound: number of RPC deadlines that pass
    MaxFaults,     \* bound: number of both together
    MaxInFlight    \* bound: messages in flight when a server sends

ASSUME ServerAssumption ==
    /\ Nil \notin Server
    /\ IsFiniteSet(Server)
    /\ Voters \subseteq Server
    /\ Voters # {}

ASSUME ValueAssumption == Noop \notin Value

ASSUME ConfigAssumption ==
    /\ PreVote \in BOOLEAN
    /\ CheckQuorum \in BOOLEAN
    /\ Transfers \in BOOLEAN
    /\ Restarts \in BOOLEAN
    /\ MaxBatch \in Nat \ {0}

ASSUME BoundAssumption ==
    /\ MaxTerm \in Nat
    /\ MaxCampaigns \in Nat
    /\ MaxLogLen \in Nat
    /\ MaxApplied \in Nat
    /\ MaxCrashes \in Nat
    /\ MaxDeadlines \in Nat
    /\ MaxFaults \in Nat
    /\ MaxInFlight \in Nat

VARIABLES
    state,         \* "Follower", "Candidate", "Leader", "Learner" or "Down"
    term,          \* durable
    votedFor,      \* durable
    leaderID,
    votes,         \* who granted a vote since the last election was started
    inPreVote,
    preVotes,
    log,           \* durable
    commitIndex,
    storedCommit,  \* the commit index last flushed to the stable store
    applyIndex,
    nextIndex,
    matchIndex,
    msgs,          \* requests and responses in flight
    late,          \* requests in flight whose caller has given up or died
    crashes,       \* number of crashes so far
    deadlines      \* number of RPC deadlines passed so far

\* History: they record what happened.  Nothing but a bound reads them.
VARIABLES
    elections,     \* every election started: [term, cand, log]
    ballots,       \* every vote cast: [term, voter, cand]
    leaders,       \* every election won: <<term, server>>
    applied        \* every entry handed to a state machine: <<index, entry>>

termVars   == <<term, votedFor>>
voteVars   == <<votes, inPreVote, preVotes>>
commitVars == <<commitIndex, storedCommit, applyIndex>>
leaderVars == <<nextIndex, matchIndex>>
bounds     == <<crashes, deadlines>>
history    == <<elections, ballots, leaders, applied>>
vars == <<state, termVars, leaderID, voteVars, log, commitVars, leaderVars,
          msgs, late, bounds, history>>

Entry == [term : Nat, val : Value \cup {Noop}]

Up(s) == state[s] # "Down"

LastTerm(lg) == IF lg = << >> THEN 0 ELSE lg[Len(lg)].term

\* Configuration.QuorumSize: a majority of the voters.
QuorumSize == Cardinality(Voters) \div 2 + 1

\* hasVoteQuorum: only the votes of voting members count.
HasVoteQuorum(granted) == Cardinality(granted \cap Voters) >= QuorumSize

\* Mutant of LogOK: the candidate's term is compared, not that of its log.
LogOKByTerm(m, lg) ==
    \/ m.term > LastTerm(lg)
    \/ m.term = LastTerm(lg) /\ m.lastIndex >= Len(lg)

\* The log test of both vote paths: the candidate's log is at least as
\* up-to-date as the voter's.
LogOK(m, lg) ==
    \/ m.lastTerm > LastTerm(lg)
    \/ m.lastTerm = LastTerm(lg) /\ m.lastIndex >= Len(lg)

-----------------------------------------------------------------------------
(* Messages.  A response carries what the goroutine that sent the request  *)
(* still knows when it gets the answer: whether it was a pre-vote, the     *)
(* term it was sent in, and the last index it carried (0 for a heartbeat). *)

VoteRequest(s, v, t, pre, transfer) ==
    [type |-> "VoteRequest", from |-> s, to |-> v, term |-> t,
     lastIndex |-> Len(log[s]), lastTerm |-> LastTerm(log[s]),
     preVote |-> pre, transfer |-> transfer]

VoteResponse(m, t, granted) ==
    [type |-> "VoteResponse", from |-> m.to, to |-> m.from, term |-> t,
     granted |-> granted, preVote |-> m.preVote]

AppendResponse(m, t, success, index, conflictTerm) ==
    [type |-> "AppendResponse", from |-> m.to, to |-> m.from, term |-> t,
     success |-> success, index |-> index, conflictTerm |-> conflictTerm,
     reqTerm |-> m.term,
     lastSent |-> IF m.entries = << >> THEN 0 ELSE m.prevIndex + Len(m.entries)]

\* A request is handled and its caller, if still there, gets the answers.
Answer(m, answers) ==
    \/ /\ m \in msgs
       /\ msgs' = (msgs \ {m}) \cup answers
       /\ UNCHANGED late
    \/ /\ m \in late
       /\ late' = late \ {m}
       /\ UNCHANGED msgs

\* A vote request is answered.  A refusal that is no newer than the candidate
\* changes nothing there (its term never falls) and is not recorded.
AnswerVote(m, t, granted) ==
    LET asked == IF m.preVote THEN m.term - 1 ELSE m.term
    IN  Answer(m, IF granted \/ t > asked THEN {VoteResponse(m, t, granted)} ELSE {})

\* An AppendEntries request is answered.  An answer older than the request
\* makes replicateOnce return without doing anything and is not recorded.
AnswerAppend(m, t, success, index, conflictTerm) ==
    Answer(m, IF t >= m.term
              THEN {AppendResponse(m, t, success, index, conflictTerm)} ELSE {})

CanSend == Cardinality(msgs) <= MaxInFlight

\* inflightReplication: a replicateTo goroutine of s for f has an RPC out.
Replicating(s, f) ==
    \E m \in msgs :
        \/ m.type = "AppendRequest" /\ m.from = s /\ m.to = f
        \/ m.type = "AppendResponse" /\ m.from = f /\ m.to = s

\* Bounds the crashes and the deadlines of one behaviour together.
MayFail == crashes + deadlines < MaxFaults

-----------------------------------------------------------------------------
Init ==
    /\ state = [s \in Server |-> IF s \in Voters THEN "Follower" ELSE "Learner"]
    /\ term = [s \in Server |-> 0]
    /\ votedFor = [s \in Server |-> Nil]
    /\ leaderID = [s \in Server |-> Nil]
    /\ votes = [s \in Server |-> {}]
    /\ inPreVote = [s \in Server |-> FALSE]
    /\ preVotes = [s \in Server |-> {}]
    /\ log = [s \in Server |-> << >>]
    /\ commitIndex = [s \in Server |-> 0]
    /\ storedCommit = [s \in Server |-> 0]
    /\ applyIndex = [s \in Server |-> 0]
    /\ nextIndex = [s \in Server |-> [f \in Server |-> 1]]
    /\ matchIndex = [s \in Server |-> [f \in Server |-> 0]]
    /\ msgs = {}
    /\ late = {}
    /\ crashes = 0
    /\ deadlines = 0
    /\ elections = {}
    /\ ballots = {}
    /\ leaders = {}
    /\ applied = {}

-----------------------------------------------------------------------------
(* Commit and leadership.                                                  *)

\* Mutant of Replicated: an entry of an earlier term may be committed.
ReplicatedAnyTerm(s, lg, t, match, i) ==
    Cardinality({v \in Voters : v = s \/ match[v] >= i}) >= QuorumSize

\* An entry of the leader's own term that a majority of the voters holds.
\* The leader counts itself only if it is a voter.
Replicated(s, lg, t, match, i) ==
    /\ lg[i].term = t
    /\ Cardinality({v \in Voters : v = s \/ match[v] >= i}) >= QuorumSize

\* advanceCommitIndex: the last index of the scan that can be committed.
AdvanceCommitIndex(s, lg, t, match) ==
    \E c \in {commitIndex[s]} \cup
             {i \in (commitIndex[s] + 1)..Len(lg) : Replicated(s, lg, t, match, i)} :
        /\ \A i \in (c + 1)..Len(lg) : ~Replicated(s, lg, t, match, i)
        /\ commitIndex' = [commitIndex EXCEPT ![s] = c]

\* Mutant of InitialNext: the last index, not the one after it.
InitialNextOffByOne(s) == [f \in Server |-> Len(log[s])]

\* becomeLeader, where replication starts for each follower.
InitialNext(s) == [f \in Server |-> Len(log[s]) + 1]

\* becomeLeader: fresh replication trackers and a no-op of the new term.  The
\* trackers are set before the no-op is appended, so it is sent first.
BecomeLeader(s, t) ==
    LET lg    == Append(log[s], [term |-> t, val |-> Noop])
        match == [f \in Server |-> 0]
    IN  /\ Len(log[s]) < MaxLogLen
        /\ state' = [state EXCEPT ![s] = "Leader"]
        /\ leaderID' = [leaderID EXCEPT ![s] = s]
        /\ nextIndex' = [nextIndex EXCEPT ![s] = InitialNext(s)]
        /\ matchIndex' = [matchIndex EXCEPT ![s] = match]
        /\ log' = [log EXCEPT ![s] = lg]
        /\ leaders' = leaders \cup {<<t, s>>}
        /\ IF QuorumSize = 1
           THEN AdvanceCommitIndex(s, lg, t, match)
           ELSE UNCHANGED commitIndex

-----------------------------------------------------------------------------
(* Elections.                                                              *)

\* The elections s has started.
Campaigns(s) == {e \in elections : e.cand = s}

\* startElectionWith once pre-vote is out of the way.  A quorum of one is
\* not asked for: the server leads at once.  rest is what stays in flight.
StartElection(s, transfer, rest) ==
    LET t == term[s] + 1
    IN  /\ term[s] < MaxTerm
        /\ Cardinality(Campaigns(s)) < MaxCampaigns
        /\ term' = [term EXCEPT ![s] = t]
        /\ votedFor' = [votedFor EXCEPT ![s] = s]
        /\ votes' = [votes EXCEPT ![s] = {s}]
        /\ inPreVote' = [inPreVote EXCEPT ![s] = FALSE]
        /\ elections' = elections \cup {[term |-> t, cand |-> s, log |-> log[s]]}
        /\ ballots' = ballots \cup {[term |-> t, voter |-> s, cand |-> s]}
        /\ IF QuorumSize = 1
           THEN /\ BecomeLeader(s, t)
                /\ msgs' = rest
           ELSE /\ state' = [state EXCEPT ![s] = "Candidate"]
                /\ leaderID' = [leaderID EXCEPT ![s] = Nil]
                /\ msgs' = rest \cup {VoteRequest(s, v, t, FALSE, transfer) :
                                         v \in Voters \ {s}}
                /\ UNCHANGED <<leaderVars, log, commitIndex, leaders>>

\* startPreVote: nothing durable changes and leaderID stays as it is.
StartPreVote(s) ==
    /\ preVotes' = [preVotes EXCEPT ![s] = {s}]
    /\ IF QuorumSize = 1
       THEN StartElection(s, FALSE, msgs)
       ELSE /\ state' = [state EXCEPT ![s] = "Candidate"]
            /\ inPreVote' = [inPreVote EXCEPT ![s] = TRUE]
            /\ msgs' = msgs \cup {VoteRequest(s, v, term[s] + 1, TRUE, FALSE) :
                                     v \in Voters \ {s}}
            /\ UNCHANGED <<termVars, leaderID, votes, elections, ballots, leaderVars,
                           log, commitIndex, leaders>>

\* Mutant of ElectionTimeout: tickCandidate does not start the election over.
ElectionTimeoutOnce(s) ==
    /\ state[s] = "Follower"
    /\ CanSend
    /\ IF PreVote
       THEN StartPreVote(s)
       ELSE StartElection(s, FALSE, msgs) /\ UNCHANGED preVotes
    /\ UNCHANGED <<storedCommit, applyIndex, late, crashes, deadlines, applied>>

\* tickFollower and tickCandidate, on the tick that exhausts electionTicks.
\* The state alone decides, not whether the server is a voter.
ElectionTimeout(s) ==
    /\ state[s] \in {"Follower", "Candidate"}
    /\ CanSend
    /\ IF PreVote
       THEN StartPreVote(s)
       ELSE StartElection(s, FALSE, msgs) /\ UNCHANGED preVotes
    /\ UNCHANGED <<storedCommit, applyIndex, late, crashes, deadlines, applied>>

\* HandleTimeoutNowRPC: an immediate election in whatever state the server is.
\* The RPC is sent by a leader that transfers leadership, and by any raftd
\* that shuts down.
TimeoutNow(s) ==
    /\ Transfers
    /\ CanSend
    /\ Up(s)
    /\ StartElection(s, TRUE, msgs)
    /\ UNCHANGED <<preVotes, storedCommit, applyIndex, late, crashes, deadlines,
                   applied>>

\* handleRequestVote, pre-vote path: only the reply is new.
HandlePreVoteRequest(m) ==
    LET s     == m.to
        grant == m.term >= term[s] /\ leaderID[s] = Nil /\ LogOK(m, log[s])
    IN  /\ m.type = "VoteRequest" /\ m.preVote
        /\ Up(s)
        /\ AnswerVote(m, term[s], grant)
        /\ UNCHANGED <<state, termVars, leaderID, voteVars, log, commitVars,
                       leaderVars, bounds, history>>

\* handleRequestVote, CheckQuorum's protection of a leader s has heard from.
\* The election timer is always armed, so only leaderID decides.
Protected(s, m) == CheckQuorum /\ ~m.transfer /\ leaderID[s] # Nil

\* handleRequestVote, refusals that change nothing.
RefuseVote(m) ==
    LET s == m.to
    IN  /\ m.term < term[s] \/ Protected(s, m)
        /\ AnswerVote(m, term[s], FALSE)
        /\ UNCHANGED <<state, termVars, ballots>>

\* Mutant of MayVote: only a candidate keeps its vote.
MayVoteAgain(s, m) == m.term > term[s] \/ state[s] # "Candidate"

\* handleRequestVote: the vote of the request's term is not given to another.
MayVote(s, m) == m.term > term[s] \/ votedFor[s] \in {Nil, m.from}

\* handleRequestVote, the rest: a newer term is adopted first.  The reply
\* carries the adopted term only when the vote is granted.
ConsiderVote(m) ==
    LET s     == m.to
        newer == m.term > term[s]
        cast  == IF newer THEN Nil ELSE votedFor[s]
        grant == MayVote(s, m) /\ LogOK(m, log[s])
    IN  /\ m.term >= term[s]
        /\ ~Protected(s, m)
        /\ term' = [term EXCEPT ![s] = m.term]
        /\ state' = [state EXCEPT ![s] = IF newer THEN "Follower" ELSE @]
        /\ votedFor' = [votedFor EXCEPT ![s] = IF grant THEN m.from ELSE cast]
        /\ ballots' = IF grant
                      THEN ballots \cup {[term |-> m.term, voter |-> s, cand |-> m.from]}
                      ELSE ballots
        /\ AnswerVote(m, IF grant THEN m.term ELSE term[s], grant)

HandleRequestVote(m) ==
    /\ m.type = "VoteRequest" /\ ~m.preVote
    /\ Up(m.to)
    /\ RefuseVote(m) \/ ConsiderVote(m)
    /\ UNCHANGED <<leaderID, voteVars, log, commitVars, leaderVars, bounds,
                   elections, leaders, applied>>

\* sendPreVoteRequest, on the reply.  Neither the term nor the round of the
\* request is compared.
HandlePreVoteResponse(m) ==
    LET s == m.to
    IN  /\ m.type = "VoteResponse" /\ m.preVote
        /\ state[s] = "Candidate" /\ inPreVote[s]
        /\ \/ /\ m.term > term[s]
              /\ term' = [term EXCEPT ![s] = m.term]
              /\ state' = [state EXCEPT ![s] = "Follower"]
              /\ votedFor' = [votedFor EXCEPT ![s] = Nil]
              /\ inPreVote' = [inPreVote EXCEPT ![s] = FALSE]
              /\ msgs' = msgs \ {m}
              /\ UNCHANGED <<leaderID, votes, preVotes, elections, ballots,
                             leaderVars, log, commitIndex, leaders>>
           \/ /\ m.term <= term[s] /\ m.granted
              /\ preVotes' = [preVotes EXCEPT ![s] = @ \cup {m.from}]
              /\ IF HasVoteQuorum(preVotes[s] \cup {m.from})
                 THEN StartElection(s, FALSE, msgs \ {m})
                 ELSE /\ msgs' = msgs \ {m}
                      /\ UNCHANGED <<state, termVars, leaderID, votes, inPreVote,
                                     elections, ballots, leaderVars, log,
                                     commitIndex, leaders>>
        /\ UNCHANGED <<storedCommit, applyIndex, late, crashes, deadlines, applied>>

\* sendVoteRequest: a vote granted in the current term.
VoteCounts(s, m) == m.granted /\ m.term = term[s]

\* sendVoteRequest, on the reply.
HandleVoteResponse(m) ==
    LET s == m.to
    IN  /\ m.type = "VoteResponse" /\ ~m.preVote
        /\ state[s] = "Candidate"
        /\ \/ /\ m.term > term[s]
              /\ term' = [term EXCEPT ![s] = m.term]
              /\ state' = [state EXCEPT ![s] = "Follower"]
              /\ votedFor' = [votedFor EXCEPT ![s] = Nil]
              /\ UNCHANGED <<leaderID, votes, leaderVars, log, commitIndex, leaders>>
           \/ /\ VoteCounts(s, m)
              /\ votes' = [votes EXCEPT ![s] = @ \cup {m.from}]
              /\ IF HasVoteQuorum(votes[s] \cup {m.from})
                 THEN BecomeLeader(s, term[s])
                 ELSE UNCHANGED <<state, leaderID, leaderVars, log, commitIndex, leaders>>
              /\ UNCHANGED termVars
        /\ msgs' = msgs \ {m}
        /\ UNCHANGED <<inPreVote, preVotes, storedCommit, applyIndex, late, bounds,
                       elections, ballots, applied>>

\* Both of the above, a reply that changes nothing: the election it belongs to
\* is over, or it is a refusal that is not newer.
DiscardVoteResponse(m) ==
    LET s == m.to
    IN  /\ m.type = "VoteResponse"
        /\ \/ state[s] # "Candidate"
           \/ m.preVote /\ ~inPreVote[s]
           \/ m.preVote /\ ~m.granted /\ m.term <= term[s]
           \/ ~m.preVote /\ ~VoteCounts(s, m) /\ m.term <= term[s]
        /\ msgs' = msgs \ {m}
        /\ UNCHANGED <<state, termVars, leaderID, voteVars, log, commitVars,
                       leaderVars, late, bounds, history>>

\* checkQuorum: acknowledgements of the last election timeout no longer cover
\* a quorum.  The term and the vote are kept.
CheckQuorumStepDown(s) ==
    /\ CheckQuorum
    /\ state[s] = "Leader"
    /\ QuorumSize > 1
    /\ state' = [state EXCEPT ![s] = "Follower"]
    /\ leaderID' = [leaderID EXCEPT ![s] = Nil]
    /\ UNCHANGED <<termVars, voteVars, log, commitVars, leaderVars, msgs,
                   late, bounds, history>>

-----------------------------------------------------------------------------
(* Replication.                                                            *)

\* handleProposal: append to the leader's own log; a quorum of one commits
\* at once.
HandleProposal(s, v) ==
    LET lg == Append(log[s], [term |-> term[s], val |-> v])
    IN  /\ state[s] = "Leader"
        /\ Len(log[s]) < MaxLogLen
        /\ log' = [log EXCEPT ![s] = lg]
        /\ commitIndex' = IF QuorumSize = 1
                          THEN [commitIndex EXCEPT ![s] = Len(lg)]
                          ELSE commitIndex
        /\ UNCHANGED <<state, termVars, leaderID, voteVars, storedCommit,
                       applyIndex, leaderVars, msgs, late, bounds, history>>

\* replicateOnce, up to the send: the entries from nextIndex on, as many as
\* the batch and message size limits allow and at least one, or a heartbeat.
ReplicateOnce(s, f) ==
    LET next == nextIndex[s][f]
        prev == next - 1
    IN  /\ state[s] = "Leader"
        /\ f # s
        /\ ~Replicating(s, f)
        /\ CanSend
        /\ \E last \in prev..Len(log[s]) :
            /\ last - prev <= MaxBatch
            /\ last = prev => prev = Len(log[s])
            /\ msgs' = msgs \cup {
                     [type |-> "AppendRequest", from |-> s, to |-> f,
                      term |-> term[s], prevIndex |-> prev,
                      prevTerm |-> IF prev = 0 THEN 0 ELSE log[s][prev].term,
                      entries |-> SubSeq(log[s], next, last),
                      commit |-> commitIndex[s]]}
        /\ UNCHANGED <<state, termVars, leaderID, voteVars, log, commitVars,
                       leaderVars, late, bounds, history>>

\* handleAppendEntries, stale request.
RefuseStaleAppend(m) ==
    /\ m.term < term[m.to]
    /\ AnswerAppend(m, term[m.to], FALSE, 0, 0)
    /\ UNCHANGED <<state, termVars, leaderID, log, commitIndex>>

\* handleAppendEntries, what every request of a current leader does first.
ObserveLeader(s, m) ==
    LET newer == m.term > term[s]
    IN  /\ m.term >= term[s]
        /\ term' = [term EXCEPT ![s] = m.term]
        /\ votedFor' = [votedFor EXCEPT ![s] = IF newer THEN Nil ELSE @]
        /\ state' = [state EXCEPT ![s] =
                        IF newer \/ @ = "Candidate" THEN "Follower" ELSE @]
        /\ leaderID' = [leaderID EXCEPT ![s] = m.from]

\* Mutant of PrevMatches: the previous entry exists, its term is not compared.
PrevExists(s, m) == m.prevIndex <= Len(log[s])

PrevMatches(s, m) ==
    m.prevIndex > 0 =>
        /\ m.prevIndex <= Len(log[s])
        /\ log[s][m.prevIndex].term = m.prevTerm

\* handleAppendEntries, failed consistency check.  The reply names the first
\* missing index, or the conflicting term and where it starts; its term is
\* the one from before the request was looked at.
RefuseAppend(s, m) ==
    /\ ~PrevMatches(s, m)
    /\ IF m.prevIndex > Len(log[s])
       THEN AnswerAppend(m, term[s], FALSE, Len(log[s]) + 1, 0)
       ELSE \E first \in 1..m.prevIndex :
                LET conflict == log[s][m.prevIndex].term
                IN  /\ \A i \in first..m.prevIndex : log[s][i].term = conflict
                    /\ first > 1 => log[s][first - 1].term # conflict
                    /\ AnswerAppend(m, term[s], FALSE, first, conflict)
    /\ UNCHANGED <<log, commitIndex>>

\* The i-th entry of the request is in the log already.
Present(s, m, i) ==
    /\ m.prevIndex + i <= Len(log[s])
    /\ log[s][m.prevIndex + i].term = m.entries[i].term

\* Mutant of Merged: what follows the previous entry is always replaced.
MergedTruncates(s, m) == SubSeq(log[s], 1, m.prevIndex) \o m.entries

\* The log after the request: if every entry is present it is left alone,
\* else the first missing or conflicting entry and all that follow it in the
\* request replace what is there from that index on.
Merged(s, m) ==
    IF \A i \in 1..Len(m.entries) : Present(s, m, i)
    THEN log[s]
    ELSE [k \in 1..(m.prevIndex + Len(m.entries)) |->
             IF \A i \in 1..(k - m.prevIndex) : Present(s, m, i)
             THEN log[s][k]
             ELSE m.entries[k - m.prevIndex]]

\* The first entry that is not present conflicts with a committed one.
ConflictsWithCommitted(s, m) ==
    \E i \in 1..Len(m.entries) :
        /\ \A j \in 1..(i - 1) : Present(s, m, j)
        /\ ~Present(s, m, i)
        /\ m.prevIndex + i <= Len(log[s])
        /\ m.prevIndex + i <= commitIndex[s]

\* handleAppendEntries, refusal to overwrite a committed entry.
RefuseOverwrite(s, m) ==
    /\ AnswerAppend(m, term[s], FALSE, commitIndex[s] + 1, 0)
    /\ UNCHANGED <<log, commitIndex>>

\* handleAppendEntries, success.  A leader that is ahead sets the commit index
\* to what the request covers, which may be less than it was.
StoreEntries(s, m) ==
    LET lastReq == m.prevIndex + Len(m.entries)
    IN  /\ log' = [log EXCEPT ![s] = Merged(s, m)]
        /\ commitIndex' =
               [commitIndex EXCEPT ![s] =
                   IF m.commit > @
                   THEN IF m.commit < lastReq THEN m.commit ELSE lastReq
                   ELSE @]
        /\ AnswerAppend(m, m.term, TRUE, Len(Merged(s, m)), 0)

AcceptAppend(s, m) ==
    /\ PrevMatches(s, m)
    /\ IF ConflictsWithCommitted(s, m)
       THEN RefuseOverwrite(s, m)
       ELSE StoreEntries(s, m)

HandleAppendEntries(m) ==
    LET s == m.to
    IN  /\ m.type = "AppendRequest"
        /\ Up(s)
        /\ \/ RefuseStaleAppend(m)
           \/ /\ ObserveLeader(s, m)
              /\ RefuseAppend(s, m) \/ AcceptAppend(s, m)
        /\ UNCHANGED <<voteVars, storedCommit, applyIndex, leaderVars, bounds,
                       history>>

\* replicateOnce, reply to a server that no longer leads, or of another term.
AppendDiscarded(s, m) ==
    /\ \/ state[s] # "Leader"
       \/ m.term < term[s]
       \/ m.term = term[s] /\ m.reqTerm # term[s]
    /\ UNCHANGED <<state, termVars, leaderID, leaderVars, commitIndex>>

\* replicateOnce, reply with a newer term.
AppendStepDown(s, m) ==
    /\ state[s] = "Leader"
    /\ m.term > term[s]
    /\ term' = [term EXCEPT ![s] = m.term]
    /\ state' = [state EXCEPT ![s] = "Follower"]
    /\ votedFor' = [votedFor EXCEPT ![s] = Nil]
    /\ leaderID' = [leaderID EXCEPT ![s] = Nil]
    /\ UNCHANGED <<leaderVars, commitIndex>>

\* Mutant of LastAcked: all that is in the leader's log by now counts.
LastAckedNow(s, m) == Len(log[s])

\* The last index the acknowledged request carried.
LastAcked(s, m) == m.lastSent

\* replicateOnce, acknowledgement: matchIndex only grows.
AppendAcked(s, m) ==
    LET f     == m.from
        match == IF m.lastSent > 0 /\ LastAcked(s, m) > matchIndex[s][f]
                 THEN [matchIndex[s] EXCEPT ![f] = LastAcked(s, m)]
                 ELSE matchIndex[s]
    IN  /\ m.success
        /\ matchIndex' = [matchIndex EXCEPT ![s] = match]
        /\ nextIndex' = IF m.lastSent > 0
                        THEN [nextIndex EXCEPT ![s][f] = match[f] + 1]
                        ELSE nextIndex
        /\ AdvanceCommitIndex(s, log[s], term[s], match)

\* lastIndexOfTerm: the last index that holds an entry of term t, 0 if none.
IsLastIndexOfTerm(lg, t, last) ==
    /\ last > 0 => lg[last].term = t
    /\ \A i \in (last + 1)..Len(lg) : lg[i].term # t

\* replicateOnce, rejection: back off to the hint, at least by one.
AppendRejected(s, m) ==
    LET f    == m.from
        next == nextIndex[s][f]
        less == IF next > 1 THEN next - 1 ELSE next
    IN  /\ ~m.success
        /\ \E last \in 0..Len(log[s]) :
            /\ IsLastIndexOfTerm(log[s], m.conflictTerm, last)
            /\ LET hint == IF m.conflictTerm > 0 /\ last > 0 THEN last + 1
                           ELSE IF m.index > 0 THEN m.index
                           ELSE less
               IN  nextIndex' = [nextIndex EXCEPT ![s][f] =
                                    IF hint < next THEN hint ELSE less]
        /\ UNCHANGED <<matchIndex, commitIndex>>

HandleAppendResponse(m) ==
    LET s == m.to
    IN  /\ m.type = "AppendResponse"
        /\ \/ AppendDiscarded(s, m)
           \/ AppendStepDown(s, m)
           \/ /\ state[s] = "Leader"
              /\ m.term = term[s] /\ m.reqTerm = term[s]
              /\ AppendAcked(s, m) \/ AppendRejected(s, m)
              /\ UNCHANGED <<state, termVars, leaderID>>
        /\ msgs' = msgs \ {m}
        /\ UNCHANGED <<voteVars, log, storedCommit, applyIndex, late, bounds, history>>

-----------------------------------------------------------------------------
(* Apply, persistence of the commit index, crash and restart.              *)

\* One turn of applyCommitted.
ApplyCommitted(s) ==
    /\ Up(s)
    /\ applyIndex[s] < MaxApplied
    /\ applyIndex[s] < commitIndex[s]
    /\ applyIndex[s] < Len(log[s])
    /\ applyIndex' = [applyIndex EXCEPT ![s] = @ + 1]
    /\ applied' = applied \cup {<<applyIndex[s] + 1, log[s][applyIndex[s] + 1]>>}
    /\ UNCHANGED <<state, termVars, leaderID, voteVars, log, commitIndex,
                   storedCommit, leaderVars, msgs, late, bounds, elections, ballots,
                   leaders>>

\* flushCommitIndex, some time after persistCommitIndex asked for it.  Only a
\* restart reads the stored value: it is not tracked beyond the last crash.
FlushCommitIndex(s) ==
    /\ Restarts /\ crashes < MaxCrashes /\ MayFail
    /\ Up(s)
    /\ storedCommit[s] # commitIndex[s]
    /\ storedCommit' = [storedCommit EXCEPT ![s] = commitIndex[s]]
    /\ UNCHANGED <<state, termVars, leaderID, voteVars, log, commitIndex,
                   applyIndex, leaderVars, msgs, late, bounds, history>>

\* m is a request of s, or a response s waits for.
Asked(m, s) == m.type \in {"VoteRequest", "AppendRequest"} /\ m.from = s
Answered(m, s) == m.type \in {"VoteResponse", "AppendResponse"} /\ m.to = s

\* An RPC fails.  rpcContext: its deadline passes; the request is lost or
\* still on its way, an answer on its way back is dropped.  Or there is
\* nobody to connect to.
FailRPC(m) ==
    /\ \/ /\ deadlines < MaxDeadlines /\ MayFail
          /\ deadlines' = deadlines + 1
          /\ \/ late' = late
             \/ Asked(m, m.from) /\ late' = late \cup {m}
       \/ /\ Asked(m, m.from) /\ ~Up(m.to)
          /\ UNCHANGED <<late, deadlines>>
    /\ msgs' = msgs \ {m}
    /\ UNCHANGED <<state, termVars, leaderID, voteVars, log, commitVars,
                   leaderVars, crashes, history>>

\* What a dying process loses: everything but the stable store and the log.
\* It is set to what newRaft will set it to.
Lose(s) ==
    /\ Up(s)
    /\ crashes < MaxCrashes /\ MayFail
    /\ crashes' = crashes + 1
    /\ state' = [state EXCEPT ![s] = "Down"]
    /\ leaderID' = [leaderID EXCEPT ![s] = Nil]
    /\ votes' = [votes EXCEPT ![s] = {}]
    /\ inPreVote' = [inPreVote EXCEPT ![s] = FALSE]
    /\ preVotes' = [preVotes EXCEPT ![s] = {}]
    /\ commitIndex' = [commitIndex EXCEPT ![s] = 0]
    /\ applyIndex' = [applyIndex EXCEPT ![s] = 0]
    /\ nextIndex' = [nextIndex EXCEPT ![s] = [f \in Server |-> 1]]
    /\ matchIndex' = [matchIndex EXCEPT ![s] = [f \in Server |-> 0]]
    /\ msgs' = {m \in msgs : ~Asked(m, s) /\ ~Answered(m, s)}
    /\ late' = late \cup {m \in msgs : Asked(m, s)}
    /\ UNCHANGED <<storedCommit, deadlines, history>>

\* The process dies: term, vote, log and the flushed commit index survive.
Crash(s) == Lose(s) /\ UNCHANGED <<termVars, log>>

\* Start: a learner is started with StartAsLearner.  The commit index is the
\* stored one, capped by the log.
Start(s) ==
    /\ Restarts
    /\ state[s] = "Down"
    /\ state' = [state EXCEPT ![s] = IF s \in Voters THEN "Follower" ELSE "Learner"]
    /\ commitIndex' = [commitIndex EXCEPT ![s] =
                          IF storedCommit[s] > Len(log[s])
                          THEN Len(log[s]) ELSE storedCommit[s]]
    /\ UNCHANGED <<termVars, leaderID, voteVars, log, storedCommit, applyIndex,
                   leaderVars, msgs, late, bounds, history>>

-----------------------------------------------------------------------------
Handle(m) ==
    \/ HandlePreVoteRequest(m)
    \/ HandleRequestVote(m)
    \/ HandlePreVoteResponse(m)
    \/ HandleVoteResponse(m)
    \/ DiscardVoteResponse(m)
    \/ HandleAppendEntries(m)
    \/ HandleAppendResponse(m)

Next ==
    \/ \E s \in Server :
        \/ ElectionTimeout(s)
        \/ TimeoutNow(s)
        \/ CheckQuorumStepDown(s)
        \/ \E v \in Value : HandleProposal(s, v)
        \/ \E f \in Server : ReplicateOnce(s, f)
        \/ ApplyCommitted(s)
        \/ FlushCommitIndex(s)
        \/ Crash(s)
        \/ Start(s)
    \/ \E m \in msgs \cup late : Handle(m)
    \/ \E m \in msgs : FailRPC(m)

Spec == Init /\ [][Next]_vars

-----------------------------------------------------------------------------
(* Properties.                                                             *)

Message ==
    [type : {"VoteRequest"}, from : Server, to : Server, term : Nat,
     lastIndex : Nat, lastTerm : Nat, preVote : BOOLEAN, transfer : BOOLEAN]
    \cup
    [type : {"VoteResponse"}, from : Server, to : Server, term : Nat,
     granted : BOOLEAN, preVote : BOOLEAN]
    \cup
    [type : {"AppendRequest"}, from : Server, to : Server, term : Nat,
     prevIndex : Nat, prevTerm : Nat, entries : Seq(Entry), commit : Nat]
    \cup
    [type : {"AppendResponse"}, from : Server, to : Server, term : Nat,
     success : BOOLEAN, index : Nat, conflictTerm : Nat, reqTerm : Nat,
     lastSent : Nat]

\* The types of the variables.
TypeOK ==
    /\ state \in [Server -> {"Follower", "Candidate", "Leader", "Learner", "Down"}]
    /\ term \in [Server -> Nat]
    /\ votedFor \in [Server -> Server \cup {Nil}]
    /\ leaderID \in [Server -> Server \cup {Nil}]
    /\ votes \in [Server -> SUBSET Server]
    /\ inPreVote \in [Server -> BOOLEAN]
    /\ preVotes \in [Server -> SUBSET Server]
    /\ log \in [Server -> Seq(Entry)]
    /\ commitIndex \in [Server -> Nat]
    /\ storedCommit \in [Server -> Nat]
    /\ applyIndex \in [Server -> Nat]
    /\ nextIndex \in [Server -> [Server -> Nat \ {0}]]
    /\ matchIndex \in [Server -> [Server -> Nat]]
    /\ msgs \subseteq Message
    /\ late \subseteq Message
    /\ crashes \in Nat
    /\ deadlines \in Nat
    /\ elections \subseteq [term : Nat, cand : Server, log : Seq(Entry)]
    /\ ballots \subseteq [term : Nat, voter : Server, cand : Server]
    /\ leaders \subseteq Nat \X Server
    /\ applied \subseteq Nat \X Entry

\* SPEC.md:231, "at most one leader per term": two elections that were ever
\* won in one term, through any mix of timeouts, pre-votes, forced elections,
\* late replies, crashes and restarts, were won by the same server.
ElectionSafety ==
    \A a, b \in leaders : a[1] = b[1] => a = b

\* handleAppendEntries keeps logs consistent: two logs that hold an entry of
\* the same index and term are identical up to that entry.
LogMatching ==
    \A a, b \in Server :
        \A i \in 1..Len(log[a]) :
            i <= Len(log[b]) /\ log[a][i].term = log[b][i].term
                => \A j \in 1..i : log[a][j] = log[b][j]

\* The vote restriction of handleRequestVote and the current-term rule of
\* advanceCommitIndex together: what any server holds as committed is in the
\* log of every leader that is not older than that server.
LeaderCompleteness ==
    \A l, s \in Server :
        state[l] = "Leader" /\ term[l] >= term[s] =>
            /\ commitIndex[s] <= Len(log[l])
            /\ \A i \in 1..commitIndex[s] : log[l][i] = log[s][i]

\* applyCommitted: no two servers, before or after a crash, ever apply
\* different entries at the same index.
StateMachineSafety ==
    \A a, b \in applied : a[1] = b[1] => a = b

\* replicateOnce: what a leader counts as held by a follower of its term is
\* in that follower's log, whatever replies arrive late or from an earlier
\* leadership of the same term.
MatchIndexTruthful ==
    \A l, f \in Server :
        state[l] = "Leader" /\ f # l /\ term[f] = term[l] =>
            /\ matchIndex[l][f] <= Len(log[f])
            /\ matchIndex[l][f] <= Len(log[l])
            /\ \A i \in 1..matchIndex[l][f] : log[f][i] = log[l][i]

\* raft.go:3187, "Never overwrite a committed entry": no step of any action
\* removes or changes an entry at or below the server's commit index.
CommittedNeverRewritten ==
    [][\A s \in Server :
        /\ commitIndex[s] <= Len(log'[s])
        /\ \A i \in 1..commitIndex[s] : log'[s][i] = log[s][i]]_vars

\* docs/architecture.md:120, the follower "advances its commit index": outside
\* a crash no step lowers a commit index.
CommitIndexAdvances ==
    [][\A s \in Server :
        state'[s] # "Down" => commitIndex'[s] >= commitIndex[s]]_vars
=============================================================================
