------------------------------ MODULE Failover ------------------------------
(***************************************************************************)
(* What happens after a leader dies and does not come back: the elections  *)
(* of Raft from every state the survivors can be left in, until one of     *)
(* them leads.                                                             *)
(***************************************************************************)
EXTENDS Raft

CONSTANT Dead       \* the leader of term 1 that died

ASSUME DeadAssumption == Dead \in Voters

NoLeader == \A s \in Server : state[s] # "Leader"

\* The no-op of the dead leader reached some of the others, and each of them
\* has heard from it or not.  The dead leader asked everybody for a vote.
FailoverInit ==
    /\ state = [s \in Server |-> IF s = Dead THEN "Down" ELSE "Follower"]
    /\ term = [s \in Server |-> 1]
    /\ votedFor = [s \in Server |-> Dead]
    /\ leaderID \in {l \in [Server -> {Dead, Nil}] : l[Dead] = Nil}
    /\ log \in {lg \in [Server -> {<< >>, <<[term |-> 1, val |-> Noop]>>}] :
                    /\ lg[Dead] # << >>
                    /\ \A s \in Server : lg[s] # << >> /\ s # Dead => leaderID[s] = Dead}
    /\ votes = [s \in Server |-> {}]
    /\ inPreVote = [s \in Server |-> FALSE]
    /\ preVotes = [s \in Server |-> {}]
    /\ commitIndex = [s \in Server |-> 0]
    /\ storedCommit = [s \in Server |-> 0]
    /\ applyIndex = [s \in Server |-> 0]
    /\ nextIndex = [s \in Server |-> [f \in Server |-> 1]]
    /\ matchIndex = [s \in Server |-> [f \in Server |-> 0]]
    /\ msgs = {}
    /\ late = {}
    /\ crashes = 1
    /\ deadlines = 0
    /\ elections = {[term |-> 1, cand |-> Dead, log |-> << >>]}
    /\ ballots = {[term |-> 1, voter |-> s, cand |-> Dead] : s \in Server}
    /\ leaders = {<<1, Dead>>}
    /\ applied = {}

\* Election timers are drawn between one and two election timeouts: a server
\* starts its next election only when every live one has had its turn.
Timely ==
    \A s, r \in Server :
        Campaigns(s)' # Campaigns(s) /\ Up(r) =>
            Cardinality(Campaigns(s)) <= Cardinality(Campaigns(r))

TimerFires(s) ==
    /\ NoLeader
    /\ ElectionTimeout(s)
    /\ Timely

\* An RPC of an election is answered, or fails because the server is dead.
RPCEnds(m) ==
    /\ NoLeader
    /\ \/ HandlePreVoteRequest(m)
       \/ HandleRequestVote(m)
       \/ HandlePreVoteResponse(m)
       \/ HandleVoteResponse(m)
       \/ DiscardVoteResponse(m)
       \/ FailRPC(m)
    /\ Timely

FailoverNext ==
    \/ \E s \in Server : TimerFires(s)
    \/ \E m \in msgs : RPCEnds(m)

\* run's ticker fires the timer of a live server again and again, and
\* rpcContext bounds every RPC.
FailoverSpec ==
    /\ FailoverInit
    /\ [][FailoverNext]_vars
    /\ \A s \in Server : SF_vars(TimerFires(s))
    /\ WF_vars(\E m \in msgs : RPCEnds(m))

\* docs/deployment.md:26, "A 3-node cluster tolerates 1 failure": the survivors
\* elect a leader.  raft.go:3280-3282 claims it of the CheckQuorum guard that
\* refuses votes, and nothing but this guard and the log test can refuse them.
LeaderEventually == <>~NoLeader
=============================================================================
