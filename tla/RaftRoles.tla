----------------------------- MODULE RaftRoles ------------------------------
(***************************************************************************)
(* What votes, roles and messages say of the history, proved for every set *)
(* of servers, every log and every bound.                                  *)
(***************************************************************************)
EXTENDS RaftTyping

-----------------------------------------------------------------------------
(* What messages, votes and roles say of the history.                      *)

\* The vote of v for c in term t.
Ballot(t, v, c) == [term |-> t, voter |-> v, cand |-> c]

\* The durable term and vote remember the last ballot.
BallotsRemembered ==
    \A b \in ballots :
        /\ b.term <= term[b.voter]
        /\ b.term = term[b.voter] => votedFor[b.voter] = b.cand

\* A candidate voted for itself before anybody else did.
SelfFirst ==
    \A b \in ballots : Ballot(b.term, b.cand, b.cand) \in ballots

\* A request for a vote comes from a candidate of its term and describes the log
\* it started the election with.
Describes(m, e) ==
    /\ e.term = m.term /\ e.cand = m.from
    /\ Len(e.log) = m.lastIndex /\ LastTerm(e.log) = m.lastTerm

\* A vote request tells of an election its sender started and voted in.
RequestsBacked ==
    \A m \in msgs \cup late :
        m.type = "VoteRequest" /\ ~m.preVote =>
            /\ Ballot(m.term, m.from, m.from) \in ballots
            /\ \E e \in elections : Describes(m, e)

\* A granted vote was cast.
GrantsBacked ==
    \A m \in msgs \cup late :
        m.type = "VoteResponse" /\ ~m.preVote /\ m.granted =>
            Ballot(m.term, m.from, m.to) \in ballots

\* The votes counted in the term a server was a candidate of were cast in it.
VotesBacked ==
    \A s \in Server :
        Ballot(term[s], s, s) \in ballots =>
            \A v \in votes[s] : Ballot(term[s], v, s) \in ballots

\* A leader was elected in its term.
LeadersElected ==
    \A s \in Server : state[s] = "Leader" => <<term[s], s>> \in leaders

\* The inductive invariant.
RoleInv ==
    /\ TypeOK
    /\ BallotsRemembered
    /\ SelfFirst
    /\ RequestsBacked
    /\ GrantsBacked
    /\ VotesBacked
    /\ LeadersElected

\* m is neither a request for a vote nor a vote.
NoVote(m) ==
    \/ m.type \in {"AppendRequest", "AppendResponse"}
    \/ m.preVote
    \/ m.type = "VoteResponse" /\ ~m.granted

\* A step in which nobody votes or is elected keeps the invariant, if a vote is
\* forgotten only together with its term.
LEMMA QuietStep ==
    ASSUME RoleInv, TypeOK',
           UNCHANGED <<elections, ballots, leaders>>,
           \A s \in Server :
               \/ term'[s] > term[s]
               \/ term'[s] = term[s] /\ votedFor'[s] = votedFor[s],
           \A s \in Server :
               state'[s] = "Leader" => state[s] = "Leader" /\ term'[s] = term[s],
           \A s \in Server : votes'[s] \subseteq votes[s],
           \A m \in msgs' \cup late' : m \in msgs \cup late \/ NoVote(m)
    PROVE  RoleInv'
  <1>1. /\ ballots \subseteq [term : Nat, voter : Server, cand : Server]
        /\ \A s \in Server : term[s] \in Nat /\ term'[s] \in Nat
    BY Zenon DEF RoleInv, TypeOK
  <1>2. SelfFirst' /\ LeadersElected'
    BY Zenon DEF RoleInv, SelfFirst, LeadersElected, Ballot
  <1>3. BallotsRemembered'
    BY <1>1 DEF RoleInv, BallotsRemembered
  <1>4. RequestsBacked'
    BY Zenon DEF RoleInv, RequestsBacked, Describes, LastTerm, NoVote, Ballot
  <1>5. GrantsBacked'
    BY Zenon DEF RoleInv, GrantsBacked, NoVote, Ballot
  <1>6. VotesBacked'
    <2> SUFFICES ASSUME NEW s \in Server, Ballot(term'[s], s, s) \in ballots,
                        NEW v \in votes'[s]
                 PROVE  Ballot(term'[s], v, s) \in ballots
      BY Zenon DEF VotesBacked, Ballot
    <2>1. term'[s] <= term[s]
      <3>1. Ballot(term'[s], s, s).term = term'[s] /\ Ballot(term'[s], s, s).voter = s
        BY Zenon DEF Ballot
      <3> QED
        BY <3>1, Zenon DEF RoleInv, BallotsRemembered
    <2>2. term'[s] = term[s] /\ v \in votes[s]
      BY <1>1, <2>1
    <2> QED
      BY <2>2, Zenon DEF RoleInv, VotesBacked
  <1> QED
    BY <1>2, <1>3, <1>4, <1>5, <1>6, Zenon DEF RoleInv

\* A server that hears of a newer term no longer leads.
LEMMA StepsDown ==
    ASSUME TypeOK, NEW s \in Server, NEW t \in Nat, t >= term[s],
           term' = [term EXCEPT ![s] = t],
           \/ state' = [state EXCEPT ![s] = "Follower"]
           \/ t = term[s] /\ state' = state
    PROVE  \A x \in Server : state'[x] = "Leader" => state[x] = "Leader" /\ term'[x] = term[x]
  <1>1. DOMAIN state = Server /\ DOMAIN term = Server /\ "Follower" # "Leader"
    BY Zenon DEF TypeOK
  <1>2. CASE state' = [state EXCEPT ![s] = "Follower"]
    BY <1>1, <1>2, Zenon
  <1>3. CASE t = term[s] /\ state' = state
    BY <1>1, <1>3, Zenon
  <1> QED
    BY <1>2, <1>3, Zenon

\* handleRequestVote: a newer term makes a follower, an equal one changes no role.
LEMMA VoterSteps ==
    ASSUME TypeOK, NEW s \in Server, NEW t \in Nat, t >= term[s],
           state' = [state EXCEPT ![s] = IF t > term[s] THEN "Follower" ELSE @]
    PROVE  \/ state' = [state EXCEPT ![s] = "Follower"]
           \/ t = term[s] /\ state' = state
  <1>1. CASE t > term[s]
    BY <1>1, Zenon
  <1>2. CASE ~(t > term[s])
    <2>1. t = term[s]
      BY <1>2 DEF TypeOK
    <2>2. state' = [state EXCEPT ![s] = state[s]]
      BY <1>2, Zenon
    <2>3. state' = state
      BY <2>2, Zenon DEF TypeOK
    <2> QED
      BY <2>1, <2>3, Zenon
  <1> QED
    BY <1>1, <1>2, Zenon

\* startElectionWith: the new ballot is of a term nobody has voted in here.
LEMMA ElectionStep ==
    ASSUME RoleInv, TypeOK',
           NEW s \in Server, NEW transfer \in BOOLEAN, NEW rest, rest \subseteq msgs,
           StartElection(s, transfer, rest), late' = late
    PROVE  RoleInv'
  <1> DEFINE t == term[s] + 1
             own == Ballot(t, s, s)
  <1>1. /\ ballots \subseteq [term : Nat, voter : Server, cand : Server]
        /\ \A x \in Server : term[x] \in Nat
        /\ term \in [Server -> Nat] /\ votedFor \in [Server -> Server \cup {Nil}]
        /\ votes \in [Server -> SUBSET Server]
        /\ leaders \subseteq Nat \X Server
    BY Zenon DEF RoleInv, TypeOK
  <1>2. /\ term' = [term EXCEPT ![s] = t]
        /\ votedFor' = [votedFor EXCEPT ![s] = s]
        /\ votes' = [votes EXCEPT ![s] = {s}]
        /\ ballots' = ballots \cup {own}
    BY Zenon DEF StartElection, Ballot
  <1>3. own.term = t /\ own.voter = s /\ own.cand = s /\ t \in Nat /\ t > term[s]
    BY <1>1 DEF Ballot
  <1>4. \A b \in ballots : b.voter = s => b.term < t
    BY <1>1 DEF RoleInv, BallotsRemembered
  <1>6. BallotsRemembered'
    BY <1>1, <1>2, <1>3, <1>4 DEF RoleInv, BallotsRemembered
  <1>7. SelfFirst'
    BY <1>2, <1>3, Zenon DEF RoleInv, SelfFirst, Ballot
  <1>8. \A m \in msgs' \cup late' :
           \/ m \in msgs \cup late
           \/ /\ m.type = "VoteRequest" /\ m.term = t /\ m.from = s
              /\ m.lastIndex = Len(log[s]) /\ m.lastTerm = LastTerm(log[s])
    <2>1. CASE QuorumSize = 1
      BY <2>1, Zenon DEF StartElection
    <2>2. CASE QuorumSize # 1
      BY <2>2 DEF StartElection, VoteRequest
    <2> QED
      BY <2>1, <2>2, Zenon
  <1>9. RequestsBacked'
    <2> DEFINE e == [term |-> t, cand |-> s, log |-> log[s]]
    <2>1. elections' = elections \cup {e}
      BY Zenon DEF StartElection
    <2>2. e.term = t /\ e.cand = s /\ e.log = log[s]
      OBVIOUS
    <2> HIDE DEF e
    <2>3. ASSUME NEW m \in msgs' \cup late', m.type = "VoteRequest", ~m.preVote
          PROVE  /\ Ballot(m.term, m.from, m.from) \in ballots'
                 /\ \E d \in elections' : Describes(m, d)
      <3>1. CASE m \in msgs \cup late
        BY <1>2, <2>1, <2>3, <3>1, Zenon DEF RoleInv, RequestsBacked
      <3>2. CASE /\ m.term = t /\ m.from = s
                 /\ m.lastIndex = Len(log[s]) /\ m.lastTerm = LastTerm(log[s])
        <4>1. Describes(m, e)
          BY <2>2, <3>2, Zenon DEF Describes
        <4> QED
          BY <1>2, <2>1, <3>2, <4>1, Zenon
      <3> QED
        BY <1>8, <2>3, <3>1, <3>2, Zenon
    <2> QED
      BY <2>3, Zenon DEF RequestsBacked, Describes, LastTerm, Ballot
  <1>10. GrantsBacked'
    BY <1>2, <1>8, Zenon DEF RoleInv, GrantsBacked, Ballot
  <1>11. VotesBacked'
    <2> SUFFICES ASSUME NEW x \in Server, Ballot(term'[x], x, x) \in ballots',
                        NEW v \in votes'[x]
                 PROVE  Ballot(term'[x], v, x) \in ballots'
      BY Zenon DEF VotesBacked, Ballot
    <2>1. CASE x = s
      BY <1>1, <1>2, <2>1, Zenon
    <2>2. CASE x # s
      <3>1. term'[x] = term[x] /\ votes'[x] = votes[x]
        BY <1>1, <1>2, <2>2, Zenon
      <3>2. Ballot(term[x], x, x) # own
        BY <2>2, Zenon DEF Ballot
      <3> QED
        BY <1>2, <3>1, <3>2 DEF RoleInv, VotesBacked
    <2> QED
      BY <2>1, <2>2, Zenon
  <1>12. LeadersElected'
    <2>1. CASE QuorumSize = 1
      <3>1. /\ state' = [state EXCEPT ![s] = "Leader"]
            /\ leaders' = leaders \cup {<<t, s>>}
        BY <2>1, Zenon DEF StartElection, BecomeLeader
      <3> QED
        BY <1>1, <1>2, <3>1 DEF RoleInv, TypeOK, LeadersElected
    <2>2. CASE QuorumSize # 1
      <3>1. state' = [state EXCEPT ![s] = "Candidate"] /\ leaders' = leaders
        BY <2>2, Zenon DEF StartElection
      <3> QED
        BY <1>1, <1>2, <3>1 DEF RoleInv, TypeOK, LeadersElected
    <2> QED
      BY <2>1, <2>2, Zenon
  <1> QED
    BY <1>6, <1>7, <1>9, <1>10, <1>11, <1>12, Zenon DEF RoleInv

\* handleRequestVote, granted: the voter has no other ballot of that term.
LEMMA GrantStep ==
    ASSUME RoleInv, TypeOK', NEW m \in msgs \cup late,
           m.type = "VoteRequest", ~m.preVote,
           MayVote(m.to, m), m.term >= term[m.to],
           term' = [term EXCEPT ![m.to] = m.term],
           votedFor' = [votedFor EXCEPT ![m.to] = m.from],
           ballots' = ballots \cup {Ballot(m.term, m.to, m.from)},
           AnswerVote(m, m.term, TRUE),
           state' = [state EXCEPT ![m.to] = IF m.term > term[m.to] THEN "Follower" ELSE @],
           UNCHANGED <<votes, elections, leaders>>
    PROVE  RoleInv'
  <1> DEFINE s == m.to
             new == Ballot(m.term, m.to, m.from)
  <1>1. /\ ballots \subseteq [term : Nat, voter : Server, cand : Server]
        /\ \A x \in Server : term[x] \in Nat
        /\ term \in [Server -> Nat] /\ votedFor \in [Server -> Server \cup {Nil}]
        /\ m \in Message
    BY Zenon DEF RoleInv, TypeOK
  <1>2. s \in Server /\ m.from \in Server /\ m.term \in Nat /\ Nil \notin Server
    BY <1>1, MessageFields, ServerAssumption, Zenon
  <1>3. new.term = m.term /\ new.voter = s /\ new.cand = m.from
    BY Zenon DEF Ballot
  <1>4. \A b \in ballots : b.voter = s /\ b.term = m.term => b = new
    <2> SUFFICES ASSUME NEW b \in ballots, b.voter = s, b.term = m.term
                 PROVE  b = new
      OBVIOUS
    <2>1. m.term <= term[s] /\ (m.term = term[s] => votedFor[s] = b.cand)
      BY Zenon DEF RoleInv, BallotsRemembered
    <2>2. b.cand = m.from
      BY <1>1, <1>2, <2>1 DEF MayVote
    <2> QED
      BY <1>1, <2>2, Zenon DEF Ballot
  <1>6. BallotsRemembered'
    <2> SUFFICES ASSUME NEW b \in ballots'
                 PROVE  /\ b.term <= term'[b.voter]
                        /\ b.term = term'[b.voter] => votedFor'[b.voter] = b.cand
      BY Zenon DEF BallotsRemembered
    <2>1. CASE b = new
      BY <1>1, <1>2, <1>3, <2>1
    <2>2. CASE b # new /\ b.voter = s
      <3>1. b \in ballots /\ b.term # m.term /\ b.term <= term[s] /\ b.term \in Nat
        BY <1>1, <1>4, <2>2, Zenon DEF RoleInv, BallotsRemembered
      <3> QED
        BY <1>1, <1>2, <2>2, <3>1
    <2>3. CASE b # new /\ b.voter # s
      <3>1. b \in ballots /\ b.voter \in Server
        BY <1>1, <2>3, Zenon
      <3>2. term'[b.voter] = term[b.voter] /\ votedFor'[b.voter] = votedFor[b.voter]
        BY <1>1, <2>3, <3>1, Zenon
      <3> QED
        BY <3>1, <3>2, Zenon DEF RoleInv, BallotsRemembered
    <2> QED
      BY <2>1, <2>2, <2>3, Zenon
  <1>7. SelfFirst'
    <2>1. Ballot(m.term, m.from, m.from) \in ballots
      BY Zenon DEF RoleInv, RequestsBacked
    <2> QED
      BY <1>3, <2>1, Zenon DEF RoleInv, SelfFirst, Ballot
  <1>8. \A x \in msgs' \cup late' :
           \/ x \in msgs \cup late
           \/ /\ x.type = "VoteResponse" /\ x.term = m.term
              /\ x.from = s /\ x.to = m.from
    BY DEF AnswerVote, Answer, VoteResponse
  <1>9. RequestsBacked'
    BY <1>8, Zenon DEF RoleInv, RequestsBacked, Describes, LastTerm, Ballot
  <1>10. GrantsBacked'
    BY <1>8, Zenon DEF RoleInv, GrantsBacked, Ballot
  <1>11. VotesBacked'
    <2> SUFFICES ASSUME NEW x \in Server, Ballot(term'[x], x, x) \in ballots',
                        NEW v \in votes[x]
                 PROVE  Ballot(term'[x], v, x) \in ballots'
      BY Zenon DEF VotesBacked, Ballot
    <2>1. Ballot(term'[x], x, x) \in ballots
      <3>1. CASE Ballot(term'[x], x, x) = new
        <4>1. term'[x] = m.term /\ x = m.from
          BY <3>1, Zenon DEF Ballot
        <4> QED
          BY <4>1, Zenon DEF RoleInv, RequestsBacked
      <3> QED
        BY <3>1
    <2>2. term'[x] = term[x]
      <3>1. Ballot(term'[x], x, x).term = term'[x] /\ Ballot(term'[x], x, x).voter = x
        BY Zenon DEF Ballot
      <3>2. term'[x] <= term[x]
        BY <2>1, <3>1, Zenon DEF RoleInv, BallotsRemembered
      <3> QED
        BY <1>1, <1>2, <3>2
    <2> QED
      BY <2>1, <2>2 DEF RoleInv, VotesBacked
  <1>12. LeadersElected'
    <2>1. \/ state' = [state EXCEPT ![m.to] = "Follower"]
          \/ m.term = term[m.to] /\ state' = state
      BY <1>1, <1>2, VoterSteps, Zenon DEF RoleInv
    <2>2. \A x \in Server : state'[x] = "Leader" => state[x] = "Leader" /\ term'[x] = term[x]
      BY <1>1, <1>2, <2>1, StepsDown, Zenon DEF RoleInv
    <2> QED
      BY <2>2 DEF RoleInv, LeadersElected
  <1> QED
    BY <1>6, <1>7, <1>9, <1>10, <1>11, <1>12, Zenon DEF RoleInv

\* sendVoteRequest, on a vote of the current term: every vote counted so far is
\* a ballot of this term, so a majority of them is a majority of its ballots.
LEMMA CountStep ==
    ASSUME RoleInv, TypeOK', NEW m \in msgs \cup late,
           m.type = "VoteResponse", ~m.preVote, VoteCounts(m.to, m),
           votes' = [votes EXCEPT ![m.to] = @ \cup {m.from}],
           \/ UNCHANGED <<state, leaders>>
           \/ /\ state' = [state EXCEPT ![m.to] = "Leader"]
              /\ leaders' = leaders \cup {<<term[m.to], m.to>>},
           msgs' = msgs \ {m},
           UNCHANGED <<term, votedFor, elections, ballots, late>>
    PROVE  RoleInv'
  <1> DEFINE s == m.to
             counted == votes[s] \cup {m.from}
  <1>1. votes \in [Server -> SUBSET Server] /\ s \in Server
    BY MessageFields, Zenon DEF RoleInv, TypeOK
  <1>2. Ballot(term[s], m.from, s) \in ballots
    BY Zenon DEF RoleInv, GrantsBacked, VoteCounts
  <1>3. Ballot(term[s], s, s) \in ballots
    <2>1. /\ Ballot(term[s], m.from, s).term = term[s]
          /\ Ballot(term[s], m.from, s).cand = s
      BY Zenon DEF Ballot
    <2> QED
      BY <1>2, <2>1, Zenon DEF RoleInv, SelfFirst
  <1>4. \A v \in counted : Ballot(term[s], v, s) \in ballots
    BY <1>1, <1>2, <1>3, Zenon DEF RoleInv, VotesBacked
  <1>5. VotesBacked'
    <2> SUFFICES ASSUME NEW x \in Server, Ballot(term[x], x, x) \in ballots,
                        NEW v \in votes'[x]
                 PROVE  Ballot(term[x], v, x) \in ballots
      BY Zenon DEF VotesBacked, Ballot
    <2>1. CASE x = s
      BY <1>1, <1>4, <2>1, Zenon
    <2>2. CASE x # s
      BY <1>1, <2>2, Zenon DEF RoleInv, VotesBacked
    <2> QED
      BY <2>1, <2>2, Zenon
  <1>6. LeadersElected'
    <2>1. CASE UNCHANGED <<state, leaders>>
      BY <2>1, Zenon DEF RoleInv, LeadersElected
    <2>2. CASE /\ state' = [state EXCEPT ![s] = "Leader"]
               /\ leaders' = leaders \cup {<<term[s], s>>}
      <3>1. \A x \in Server : x # s => state'[x] = state[x]
        BY <1>1, <2>2, Zenon DEF RoleInv, TypeOK
      <3> QED
        BY <2>2, <3>1, Zenon DEF RoleInv, LeadersElected
    <2> QED
      BY <2>1, <2>2, Zenon
  <1>7. BallotsRemembered' /\ SelfFirst'
    BY Zenon DEF RoleInv, BallotsRemembered, SelfFirst, Ballot
  <1>8. RequestsBacked' /\ GrantsBacked'
    BY Zenon DEF RoleInv, RequestsBacked, GrantsBacked, Describes, LastTerm, Ballot
  <1> QED
    BY <1>5, <1>6, <1>7, <1>8, Zenon DEF RoleInv

\* The steps of one server, elections apart, neither cast nor count a vote.
LEMMA QuietServer ==
    ASSUME RoleInv, TypeOK', NEW s \in Server,
           \/ CheckQuorumStepDown(s)
           \/ \E v \in Value : HandleProposal(s, v)
           \/ \E f \in Server : ReplicateOnce(s, f)
           \/ ApplyCommitted(s)
           \/ FlushCommitIndex(s)
           \/ Crash(s)
           \/ Start(s)
    PROVE  RoleInv'
  <1> USE DEF termVars, voteVars, history
  <1>1. UNCHANGED <<term, votedFor, elections, ballots, leaders>>
    BY Zenon DEF CheckQuorumStepDown, HandleProposal, ReplicateOnce, ApplyCommitted,
           FlushCommitIndex, Crash, Lose, Start
  <1>5. \A x \in Server : state'[x] = "Leader" => state[x] = "Leader"
    <2>1. \/ state' = state
          \/ \E role \in {"Follower", "Learner", "Down"} : state' = [state EXCEPT ![s] = role]
      BY Zenon DEF CheckQuorumStepDown, HandleProposal, ReplicateOnce, ApplyCommitted,
             FlushCommitIndex, Crash, Lose, Start
    <2> QED
      BY <2>1, Zenon DEF RoleInv, TypeOK
  <1>2. votes' \in {votes, [votes EXCEPT ![s] = {}]}
    BY Zenon DEF CheckQuorumStepDown, HandleProposal, ReplicateOnce, ApplyCommitted,
           FlushCommitIndex, Crash, Lose, Start
  <1>3. \A x \in Server : votes'[x] \subseteq votes[x]
    BY <1>2, Zenon DEF RoleInv, TypeOK
  <1>4. \A m \in msgs' \cup late' : m \in msgs \cup late \/ NoVote(m)
    <2>1. CASE \E f \in Server : ReplicateOnce(s, f)
      <3>1. /\ \E request :
                  request.type = "AppendRequest" /\ msgs' = msgs \cup {request}
            /\ late' = late
        <4>1. PICK f \in Server : ReplicateOnce(s, f)
          BY <2>1, Zenon
        <4> DEFINE next == nextIndex[s][f]
                   request(last) ==
                      [type |-> "AppendRequest", from |-> s, to |-> f,
                       term |-> term[s], prevIndex |-> next - 1,
                       prevTerm |-> IF next - 1 = 0 THEN 0 ELSE log[s][next - 1].term,
                       entries |-> SubSeq(log[s], next, last),
                       commit |-> commitIndex[s]]
        <4>2. PICK last : msgs' = msgs \cup {request(last)} /\ late' = late
          BY <4>1, Zenon DEF ReplicateOnce
        <4>3. request(last).type = "AppendRequest"
          BY Zenon
        <4> HIDE DEF request
        <4> QED
          BY <4>2, <4>3, Zenon
      <3> QED
        BY <3>1, Zenon DEF NoVote
    <2>2. CASE Crash(s)
      BY <2>2, Zenon DEF Crash, Lose
    <2>3. CASE UNCHANGED <<msgs, late>>
      BY <2>3, Zenon
    <2> QED
      BY <2>1, <2>2, <2>3, Zenon DEF CheckQuorumStepDown, HandleProposal, ApplyCommitted,
           FlushCommitIndex, Start
  <1> QED
    BY <1>1, <1>3, <1>4, <1>5, QuietStep, Zenon

\* handleAppendEntries: only the leader of the request's own term stays leader.
LEMMA ObservedLeader ==
    ASSUME TypeOK, NEW m, m.to \in Server, m.term \in Nat, ObserveLeader(m.to, m)
    PROVE  \A s \in Server : state'[s] = "Leader" => state[s] = "Leader" /\ term'[s] = term[s]
  <1>1. CASE m.term > term[m.to] \/ state[m.to] = "Candidate"
    <2>1. state' = [state EXCEPT ![m.to] = "Follower"]
      BY <1>1, Zenon DEF ObserveLeader
    <2> QED
      BY <2>1, StepsDown, Zenon DEF ObserveLeader
  <1>2. CASE ~(m.term > term[m.to]) /\ state[m.to] # "Candidate"
    <2>1. state' = state /\ m.term = term[m.to]
      BY <1>2 DEF ObserveLeader, TypeOK
    <2> QED
      BY <2>1, StepsDown, Zenon DEF ObserveLeader
  <1> QED
    BY <1>1, <1>2, Zenon

\* The AppendEntries handlers drop a vote only when they adopt a newer term.
LEMMA QuietAppend ==
    ASSUME RoleInv, TypeOK', NEW m \in msgs \cup late,
           HandleAppendEntries(m) \/ HandleAppendResponse(m)
    PROVE  RoleInv'
  <1> USE DEF termVars, voteVars, history
  <1>1. /\ m \in Message
        /\ term \in [Server -> Nat] /\ votedFor \in [Server -> Server \cup {Nil}]
    BY Zenon DEF RoleInv, TypeOK
  <1>2. m.to \in Server /\ m.term \in Nat
    BY <1>1, MessageFields, Zenon
  <1>3. UNCHANGED <<votes, elections, ballots, leaders>>
    BY Zenon DEF HandleAppendEntries, HandleAppendResponse
  <1>6. \A s \in Server : state'[s] = "Leader" => state[s] = "Leader" /\ term'[s] = term[s]
    <2>1. CASE HandleAppendEntries(m)
      <3>1. CASE RefuseStaleAppend(m)
        BY <3>1, Zenon DEF RefuseStaleAppend
      <3>2. CASE ObserveLeader(m.to, m)
        BY <1>2, <3>2, ObservedLeader, Zenon DEF RoleInv
      <3> QED
        BY <2>1, <3>1, <3>2, Zenon DEF HandleAppendEntries
    <2>2. CASE HandleAppendResponse(m)
      <3>1. CASE AppendStepDown(m.to, m)
        BY <1>1, <1>2, <3>1, Zenon DEF AppendStepDown, RoleInv, TypeOK
      <3>2. CASE UNCHANGED <<state, termVars>>
        BY <3>2, Zenon
      <3> QED
        BY <2>2, <3>1, <3>2, Zenon DEF HandleAppendResponse, AppendDiscarded
    <2> QED
      BY <2>1, <2>2, Zenon
  <1>4. \A s \in Server :
           \/ term'[s] > term[s]
           \/ term'[s] = term[s] /\ votedFor'[s] = votedFor[s]
    <2>1. CASE HandleAppendEntries(m)
      <3>1. CASE RefuseStaleAppend(m)
        BY <3>1, Zenon DEF RefuseStaleAppend
      <3>2. CASE ObserveLeader(m.to, m)
        BY <1>1, <1>2, <3>2 DEF ObserveLeader
      <3> QED
        BY <2>1, <3>1, <3>2, Zenon DEF HandleAppendEntries
    <2>2. CASE HandleAppendResponse(m)
      <3>1. CASE AppendStepDown(m.to, m)
        BY <1>1, <1>2, <3>1, Zenon DEF AppendStepDown
      <3>2. CASE UNCHANGED termVars
        BY <3>2, Zenon
      <3> QED
        BY <2>2, <3>1, <3>2, Zenon DEF HandleAppendResponse, AppendDiscarded
    <2> QED
      BY <2>1, <2>2, Zenon
  <1>5. \A x \in msgs' \cup late' : x \in msgs \cup late \/ NoVote(x)
    <2>1. CASE HandleAppendEntries(m)
      <3>1. \E answers :
               /\ Answer(m, answers)
               /\ \A x \in answers : x.type = "AppendResponse"
        <4>1. ASSUME NEW t, NEW success, NEW index, NEW conflictTerm,
                     AnswerAppend(m, t, success, index, conflictTerm)
              PROVE  \E answers :
                        /\ Answer(m, answers)
                        /\ \A x \in answers : x.type = "AppendResponse"
          <5>1. \A x \in {AppendResponse(m, t, success, index, conflictTerm)} :
                   x.type = "AppendResponse"
            BY DEF AppendResponse
          <5> QED
            BY <4>1, <5>1 DEF AnswerAppend
        <4> QED
          BY <2>1, <4>1, Zenon DEF HandleAppendEntries, RefuseStaleAppend, RefuseAppend,
               AcceptAppend, RefuseOverwrite, StoreEntries
      <3> QED
        BY <3>1, Zenon DEF Answer, NoVote
    <2>2. CASE HandleAppendResponse(m)
      BY <2>2, Zenon DEF HandleAppendResponse
    <2> QED
      BY <2>1, <2>2, Zenon
  <1> QED
    BY <1>3, <1>4, <1>5, <1>6, QuietStep, Zenon

\* Starting an election keeps the invariant: the self-vote is the first vote of a new term.
LEMMA RoleElections ==
    ASSUME RoleInv, TypeOK', NEW s \in Server,
           ElectionTimeout(s) \/ TimeoutNow(s)
    PROVE  RoleInv'
  <1>1. late' = late
    BY Zenon DEF ElectionTimeout, TimeoutNow
  <1>2. CASE \E transfer \in BOOLEAN : StartElection(s, transfer, msgs)
    BY <1>1, <1>2, ElectionStep, Zenon
  <1>3. CASE ElectionTimeout(s) /\ PreVote /\ QuorumSize # 1
    <2>1. /\ UNCHANGED <<term, votedFor, votes, elections, ballots, leaders>>
          /\ state' = [state EXCEPT ![s] = "Candidate"]
          /\ msgs' = msgs \cup {VoteRequest(s, v, term[s] + 1, TRUE, FALSE) :
                                   v \in Voters \ {s}}
      BY <1>3, Zenon DEF ElectionTimeout, StartPreVote, termVars
    <2>2. \A m \in msgs' \cup late' : m \in msgs \cup late \/ NoVote(m)
      BY <1>1, <2>1 DEF VoteRequest, NoVote
    <2>3. \A x \in Server : state'[x] = "Leader" => state[x] = "Leader"
      BY <2>1, Zenon DEF RoleInv, TypeOK
    <2> QED
      BY <2>1, <2>2, <2>3, QuietStep, Zenon
  <1> QED
    BY <1>2, <1>3, Zenon DEF ElectionTimeout, StartPreVote, TimeoutNow

\* handleRequestVote keeps the invariant: a grant is a new ballot or repeats one.
LEMMA RoleVoteRequests ==
    ASSUME RoleInv, TypeOK', NEW m \in msgs \cup late,
           HandlePreVoteRequest(m) \/ HandleRequestVote(m)
    PROVE  RoleInv'
  <1>1. m \in Message /\ term \in [Server -> Nat] /\ votedFor \in [Server -> Server \cup {Nil}]
    BY Zenon DEF RoleInv, TypeOK
  <1>2. m.to \in Server /\ m.term \in Nat /\ term[m.to] \in Nat
    BY <1>1, MessageFields, Zenon
  <1>3. ASSUME NEW t, NEW granted, AnswerVote(m, t, granted), m.preVote \/ ~granted
        PROVE  \A x \in msgs' \cup late' : x \in msgs \cup late \/ NoVote(x)
    BY <1>3 DEF AnswerVote, Answer, VoteResponse, NoVote
  <1>4. CASE HandlePreVoteRequest(m)
    <2>1. UNCHANGED <<state, term, votedFor, votes, elections, ballots, leaders>>
      BY <1>4, Zenon DEF HandlePreVoteRequest, termVars, voteVars, history
    <2>2. \A x \in msgs' \cup late' : x \in msgs \cup late \/ NoVote(x)
      BY <1>3, <1>4, Zenon DEF HandlePreVoteRequest
    <2> QED
      BY <2>1, <2>2, QuietStep, Zenon
  <1>5. CASE HandleRequestVote(m)
    <2>1. UNCHANGED <<votes, elections, leaders>> /\ m.type = "VoteRequest" /\ ~m.preVote
      BY <1>5, Zenon DEF HandleRequestVote, voteVars
    <2>2. CASE RefuseVote(m)
      <3>1. UNCHANGED <<state, term, votedFor, ballots>>
        BY <2>2, Zenon DEF RefuseVote, termVars
      <3>2. \A x \in msgs' \cup late' : x \in msgs \cup late \/ NoVote(x)
        BY <1>3, <2>2, Zenon DEF RefuseVote
      <3> QED
        BY <2>1, <3>1, <3>2, QuietStep, Zenon
    <2>3. CASE ConsiderVote(m) /\ MayVote(m.to, m) /\ LogOK(m, log[m.to])
      <3>1. /\ m.term >= term[m.to]
            /\ term' = [term EXCEPT ![m.to] = m.term]
            /\ votedFor' = [votedFor EXCEPT ![m.to] = m.from]
            /\ state' = [state EXCEPT ![m.to] = IF m.term > term[m.to] THEN "Follower" ELSE @]
            /\ ballots' = ballots \cup {Ballot(m.term, m.to, m.from)}
            /\ AnswerVote(m, m.term, TRUE)
        BY <2>3, Zenon DEF ConsiderVote, Ballot
      <3> QED
        BY <2>1, <2>3, <3>1, GrantStep, Zenon
    <2>4. CASE ConsiderVote(m) /\ ~(MayVote(m.to, m) /\ LogOK(m, log[m.to]))
      <3>1. /\ m.term >= term[m.to]
            /\ term' = [term EXCEPT ![m.to] = m.term]
            /\ votedFor' = [votedFor EXCEPT ![m.to] =
                               IF m.term > term[m.to] THEN Nil ELSE votedFor[m.to]]
            /\ state' = [state EXCEPT ![m.to] = IF m.term > term[m.to] THEN "Follower" ELSE @]
            /\ ballots' = ballots
            /\ AnswerVote(m, term[m.to], FALSE)
        BY <2>4, Zenon DEF ConsiderVote
      <3>2. \A s \in Server :
               \/ term'[s] > term[s]
               \/ term'[s] = term[s] /\ votedFor'[s] = votedFor[s]
        BY <1>1, <1>2, <3>1
      <3>3. \A x \in msgs' \cup late' : x \in msgs \cup late \/ NoVote(x)
        BY <1>3, <3>1, Zenon
      <3>5. \/ state' = [state EXCEPT ![m.to] = "Follower"]
            \/ m.term = term[m.to] /\ state' = state
        BY <1>2, <3>1, VoterSteps, Zenon DEF RoleInv
      <3>4. \A s \in Server : state'[s] = "Leader" => state[s] = "Leader" /\ term'[s] = term[s]
        BY <1>2, <3>1, <3>5, StepsDown, Zenon DEF RoleInv
      <3> QED
        BY <2>1, <3>1, <3>2, <3>3, <3>4, QuietStep, Zenon
    <2> QED
      BY <1>5, <2>2, <2>3, <2>4, Zenon DEF HandleRequestVote
  <1> QED
    BY <1>4, <1>5, Zenon

\* Counting a vote keeps the invariant: it is backed by a ballot of the current term.
LEMMA RoleVoteResponses ==
    ASSUME RoleInv, TypeOK', NEW m \in msgs \cup late,
           HandlePreVoteResponse(m) \/ HandleVoteResponse(m) \/ DiscardVoteResponse(m)
    PROVE  RoleInv'
  <1>1. m \in Message /\ term \in [Server -> Nat] /\ votedFor \in [Server -> Server \cup {Nil}]
    BY Zenon DEF RoleInv, TypeOK
  <1>2. m.to \in Server /\ m.term \in Nat /\ term[m.to] \in Nat
    BY <1>1, MessageFields, Zenon
  <1>3. late' = late
    BY Zenon DEF HandlePreVoteResponse, HandleVoteResponse, DiscardVoteResponse
  <1>4. ASSUME m.term > term[m.to],
               term' = [term EXCEPT ![m.to] = m.term],
               msgs' = msgs \ {m},
               state' = [state EXCEPT ![m.to] = "Follower"],
               UNCHANGED <<votes, elections, ballots, leaders>>,
               \A s \in Server \ {m.to} : votedFor'[s] = votedFor[s]
        PROVE  RoleInv'
    <2>1. \A s \in Server :
             \/ term'[s] > term[s]
             \/ term'[s] = term[s] /\ votedFor'[s] = votedFor[s]
      BY <1>1, <1>2, <1>4, Zenon
    <2>2. \A x \in msgs' \cup late' : x \in msgs \cup late
      BY <1>3, <1>4, Zenon
    <2>3. \A s \in Server : state'[s] = "Leader" => state[s] = "Leader" /\ term'[s] = term[s]
      BY <1>1, <1>2, <1>4, Zenon DEF RoleInv, TypeOK
    <2> QED
      BY <1>4, <2>1, <2>2, <2>3, QuietStep, Zenon
  <1>5. ASSUME msgs' = msgs \ {m},
               UNCHANGED <<state, term, votedFor, votes, elections, ballots, leaders>>
        PROVE  RoleInv'
    <2>1. \A s \in Server : term'[s] = term[s] /\ votedFor'[s] = votedFor[s]
      BY <1>5, Zenon
    <2>2. \A s \in Server : votes'[s] \subseteq votes[s]
      BY <1>5, Zenon
    <2>3. \A x \in msgs' \cup late' : x \in msgs \cup late
      BY <1>3, <1>5, Zenon
    <2> QED
      BY <1>5, <2>1, <2>2, <2>3, QuietStep, Zenon
  <1>6. CASE HandlePreVoteResponse(m)
    <2>1. CASE m.term > term[m.to]
      <3>1. /\ term' = [term EXCEPT ![m.to] = m.term]
            /\ votedFor' = [votedFor EXCEPT ![m.to] = Nil]
            /\ state' = [state EXCEPT ![m.to] = "Follower"]
            /\ msgs' = msgs \ {m}
            /\ UNCHANGED <<votes, elections, ballots, leaders>>
        <4>1. ~(m.term <= term[m.to])
          BY <1>2, <2>1
        <4> QED
          BY <1>6, <4>1, Zenon DEF HandlePreVoteResponse
      <3> QED
        BY <1>1, <1>4, <2>1, <3>1, Zenon
    <2>2. CASE StartElection(m.to, FALSE, msgs \ {m})
      <3> DEFINE rest == msgs \ {m}
      <3>1. StartElection(m.to, FALSE, rest) /\ rest \subseteq msgs
        BY <2>2, Zenon
      <3> HIDE DEF rest
      <3> QED
        BY <1>2, <1>3, <3>1, ElectionStep, Zenon
    <2>3. CASE /\ msgs' = msgs \ {m}
               /\ UNCHANGED <<state, term, votedFor, votes, elections, ballots, leaders>>
      BY <1>5, <2>3, Zenon
    <2> QED
      BY <1>6, <2>1, <2>2, <2>3, Zenon DEF HandlePreVoteResponse, termVars
  <1>7. CASE HandleVoteResponse(m)
    <2>1. /\ m.type = "VoteResponse" /\ ~m.preVote
          /\ msgs' = msgs \ {m} /\ UNCHANGED <<elections, ballots>>
      BY <1>7, Zenon DEF HandleVoteResponse
    <2>2. CASE m.term > term[m.to]
      <3>1. /\ term' = [term EXCEPT ![m.to] = m.term]
            /\ state' = [state EXCEPT ![m.to] = "Follower"]
            /\ votedFor' = [votedFor EXCEPT ![m.to] = Nil]
            /\ UNCHANGED <<votes, leaders>>
        BY <1>2, <1>7, <2>2 DEF HandleVoteResponse, VoteCounts
      <3> QED
        BY <1>1, <1>4, <2>1, <2>2, <3>1, Zenon
    <2>3. CASE ~(m.term > term[m.to])
      <3>1. /\ VoteCounts(m.to, m)
            /\ votes' = [votes EXCEPT ![m.to] = @ \cup {m.from}]
            /\ \/ UNCHANGED <<state, leaders>>
               \/ /\ state' = [state EXCEPT ![m.to] = "Leader"]
                  /\ leaders' = leaders \cup {<<term[m.to], m.to>>}
            /\ UNCHANGED <<term, votedFor>>
        BY <1>7, <2>3, Zenon DEF HandleVoteResponse, BecomeLeader, termVars
      <3> QED
        BY <1>3, <2>1, <3>1, CountStep, Zenon
    <2> QED
      BY <2>2, <2>3, Zenon
  <1>8. CASE DiscardVoteResponse(m)
    BY <1>5, <1>8, Zenon DEF DiscardVoteResponse, termVars, voteVars, history
  <1> QED
    BY <1>6, <1>7, <1>8, Zenon

\* The invariant holds initially: nobody has voted.
LEMMA RoleInit == Init => RoleInv
  <1> SUFFICES ASSUME Init PROVE RoleInv
    OBVIOUS
  <1>1. TypeOK
    BY TypeInit, Zenon
  <1>2. BallotsRemembered /\ SelfFirst /\ RequestsBacked /\ GrantsBacked
    BY Zenon DEF Init, BallotsRemembered, SelfFirst, RequestsBacked, GrantsBacked
  <1>3. VotesBacked /\ LeadersElected
    BY Zenon DEF Init, VotesBacked, LeadersElected
  <1> QED
    BY <1>1, <1>2, <1>3, Zenon DEF RoleInv

\* Every step keeps the invariant.
LEMMA RoleNext == RoleInv /\ [Next]_vars => RoleInv'
  <1> SUFFICES ASSUME RoleInv, [Next]_vars PROVE RoleInv'
    OBVIOUS
  <1>1. TypeOK'
    BY TypeNext, Zenon DEF RoleInv
  <1>2. ASSUME NEW s \in Server, ElectionTimeout(s) \/ TimeoutNow(s)
        PROVE  RoleInv'
    BY <1>1, <1>2, RoleElections, Zenon
  <1>3. ASSUME NEW s \in Server,
               \/ CheckQuorumStepDown(s)
               \/ \E v \in Value : HandleProposal(s, v)
               \/ \E f \in Server : ReplicateOnce(s, f)
               \/ ApplyCommitted(s)
               \/ FlushCommitIndex(s)
               \/ Crash(s)
               \/ Start(s)
        PROVE  RoleInv'
    BY <1>1, <1>3, QuietServer, Zenon
  <1>4. ASSUME NEW m \in msgs \cup late, Handle(m)
        PROVE  RoleInv'
    <2>1. CASE HandlePreVoteRequest(m) \/ HandleRequestVote(m)
      BY <1>1, <2>1, RoleVoteRequests, Zenon
    <2>2. CASE \/ HandlePreVoteResponse(m)
               \/ HandleVoteResponse(m)
               \/ DiscardVoteResponse(m)
      BY <1>1, <2>2, RoleVoteResponses, Zenon
    <2>3. CASE HandleAppendEntries(m) \/ HandleAppendResponse(m)
      BY <1>1, <2>3, QuietAppend, Zenon
    <2> QED
      BY <1>4, <2>1, <2>2, <2>3, Zenon DEF Handle
  <1>5. ASSUME NEW m \in msgs, FailRPC(m)
        PROVE  RoleInv'
    <2>1. UNCHANGED <<state, term, votedFor, votes, elections, ballots, leaders>>
      BY <1>5, Zenon DEF FailRPC, termVars, voteVars, history
    <2>2. \A x \in msgs' \cup late' : x \in msgs \cup late
      BY <1>5, Zenon DEF FailRPC
    <2> QED
      BY <1>1, <2>1, <2>2, QuietStep, Zenon
  <1>6. CASE UNCHANGED vars
    <2>1. UNCHANGED <<state, term, votedFor, votes, elections, ballots, leaders, msgs, late>>
      BY <1>6, Zenon DEF vars, termVars, voteVars, history
    <2> QED
      BY <1>1, <2>1, QuietStep, Zenon
  <1> QED
    BY <1>2, <1>3, <1>4, <1>5, <1>6, Zenon DEF Next

\* Only requests outlive their caller.
LateRequests == \A m \in late : m.type \in {"VoteRequest", "AppendRequest"}

\* Only requests are delayed.
LEMMA LateNext ==
    ASSUME LateRequests, [Next]_vars
    PROVE  LateRequests'
  <1>1. ASSUME NEW s \in Server, ElectionTimeout(s) \/ TimeoutNow(s)
        PROVE  late' = late
    BY <1>1, Zenon DEF ElectionTimeout, TimeoutNow
  <1>2. ASSUME NEW s \in Server,
               \/ CheckQuorumStepDown(s)
               \/ \E v \in Value : HandleProposal(s, v)
               \/ \E f \in Server : ReplicateOnce(s, f)
               \/ ApplyCommitted(s)
               \/ FlushCommitIndex(s)
               \/ Start(s)
        PROVE  late' = late
    BY <1>2, Zenon DEF CheckQuorumStepDown, HandleProposal, ReplicateOnce, ApplyCommitted,
                       FlushCommitIndex, Start
  <1>3. ASSUME NEW s \in Server, Crash(s)
        PROVE  LateRequests'
    BY <1>3, Zenon DEF Crash, Lose, Asked, LateRequests
  <1>4. ASSUME NEW m \in msgs \cup late, Handle(m)
        PROVE  late' \subseteq late
    <2>1. ASSUME NEW answers, Answer(m, answers)
          PROVE  late' \subseteq late
      BY <2>1, Zenon DEF Answer
    <2>2. CASE HandlePreVoteRequest(m) \/ HandleRequestVote(m)
      BY <2>1, <2>2, Zenon DEF HandlePreVoteRequest, HandleRequestVote, RefuseVote, ConsiderVote,
                               AnswerVote
    <2>3. CASE HandleAppendEntries(m)
      BY <2>1, <2>3, Zenon DEF HandleAppendEntries, RefuseStaleAppend, RefuseAppend,
                               AcceptAppend, RefuseOverwrite, StoreEntries, AnswerAppend
    <2>4. CASE \/ HandlePreVoteResponse(m) \/ HandleVoteResponse(m)
               \/ DiscardVoteResponse(m) \/ HandleAppendResponse(m)
      BY <2>4, Zenon DEF HandlePreVoteResponse, HandleVoteResponse, DiscardVoteResponse,
                         HandleAppendResponse
    <2> QED
      BY <1>4, <2>2, <2>3, <2>4, Zenon DEF Handle
  <1>5. ASSUME NEW m \in msgs, FailRPC(m)
        PROVE  LateRequests'
    BY <1>5, Zenon DEF FailRPC, Asked, LateRequests
  <1>6. CASE UNCHANGED vars
    BY <1>6, Zenon DEF vars, LateRequests
  <1> QED
    BY <1>1, <1>2, <1>3, <1>4, <1>5, <1>6, Zenon DEF Next, LateRequests

\* In every reachable state the votes, roles and messages are backed by the history.
THEOREM RolesHold == Spec => [](RoleInv /\ LateRequests)
  <1>1. Init => LateRequests
    BY Zenon DEF Init, LateRequests
  <1>2. RoleInv /\ LateRequests /\ [Next]_vars => RoleInv' /\ LateRequests'
    BY RoleNext, LateNext, Zenon
  <1> QED
    BY <1>1, <1>2, RoleInit, PTL DEF Spec
=============================================================================
