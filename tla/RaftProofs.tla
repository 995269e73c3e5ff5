----------------------------- MODULE RaftProofs -----------------------------
(***************************************************************************)
(* What is proved of Raft for every set of servers, every log and every    *)
(* bound: it implements Consensus, and so no term has two leaders, logs    *)
(* agree, and what is committed is never lost or applied differently.      *)
(***************************************************************************)
EXTENDS RaftRoles, RaftConsensus

-----------------------------------------------------------------------------
(* Raft implements Consensus: one lemma per kind of step.                  *)

\* Where a single vote is enough, whoever casts it is a majority.
LoneVoterWins == QuorumSize = 1 => \A s \in Server : {s} \in Majorities

\* No AppendEntries request and no acknowledgement is new.
MessagesLost ==
    /\ \A m \in msgs' \cup late' : m.type = "AppendRequest" => m \in msgs \cup late
    /\ \A m \in msgs' : m.type = "AppendResponse" /\ m.success => m \in msgs

\* What a leader counts is what it counted before, or nothing.
TrackersLost ==
    \A s, f \in Server :
        state'[s] = "Leader" =>
            \/ matchIndex'[s][f] = 0
            \/ /\ state[s] = "Leader" /\ term'[s] = term[s]
               /\ matchIndex'[s][f] = matchIndex[s][f]

\* Nobody becomes a leader, and a leader that hears of a newer term is none.
NoNewLeader ==
    \A s \in Server : state'[s] = "Leader" => state[s] = "Leader" /\ term'[s] = term[s]

\* What Consensus knows and most steps leave alone.
Untouched == UNCHANGED <<log, elections, ballots, leaders, commitIndex, storedCommit, applied>>

\* The commit index a restart, an apply and a follower end up with.
LEMMA Capped ==
    ASSUME NEW n \in Nat, NEW k \in Nat
    PROVE  /\ 0 \in Nat /\ 0 <= k
           /\ (IF k > n THEN n ELSE k) \in Nat
           /\ (IF k > n THEN n ELSE k) <= k
  OBVIOUS

\* The entry after the applied ones, where one is committed.
LEMMA Succeeds ==
    ASSUME NEW a \in Nat, NEW c \in Nat, NEW n \in Nat, a < c, a < n
    PROVE  a + 1 \in 1..n /\ a + 1 <= c
  OBVIOUS

\* The commit index a follower takes from a leader.
LEMMA Raised ==
    ASSUME NEW m \in Nat, NEW c \in Nat, NEW n \in Nat
    PROVE  LET r == IF m > c THEN IF m < n THEN m ELSE n ELSE c
           IN  r \in Nat /\ (r <= c \/ (r <= m /\ r <= n))
  OBVIOUS

\* An acknowledgement is on its way or counted.
LEMMA AcksFrom ==
    ASSUME NEW A,
           \A m \in msgs' : m.type = "AppendResponse" /\ m.success /\ m.lastSent > 0 =>
               [voter |-> m.from, term |-> m.reqTerm, index |-> m.lastSent] \in A,
           \A s, f \in Server : state'[s] = "Leader" /\ s # f /\ matchIndex'[s][f] > 0 =>
               [voter |-> f, term |-> term'[s], index |-> matchIndex'[s][f]] \in A
    PROVE  Acks' \subseteq A
  <1>1. \A m \in Told' : [voter |-> m.from, term |-> m.reqTerm, index |-> m.lastSent] \in A
    BY Zenon DEF Told
  <1>2. \A p \in Counted' :
           [voter |-> p[2], term |-> term'[p[1]], index |-> matchIndex'[p[1]][p[2]]] \in A
    BY Zenon DEF Counted
  <1> QED
    BY <1>1, <1>2, Zenon DEF Acks

\* The acknowledgements there are.
LEMMA AckTold ==
    ASSUME NEW m \in msgs, m.type = "AppendResponse", m.success, m.lastSent > 0
    PROVE  [voter |-> m.from, term |-> m.reqTerm, index |-> m.lastSent] \in Acks
  <1>1. m \in Told
    BY Zenon DEF Told
  <1> QED
    BY <1>1, Zenon DEF Acks

\* So is what a leader counted.
LEMMA AckCounted ==
    ASSUME NEW s \in Server, NEW f \in Server, state[s] = "Leader", s # f, matchIndex[s][f] > 0
    PROVE  [voter |-> f, term |-> term[s], index |-> matchIndex[s][f]] \in Acks
  <1> DEFINE p == <<s, f>>
  <1>1. p \in Counted /\ p[1] = s /\ p[2] = f
    BY Zenon DEF Counted
  <1> HIDE DEF p
  <1>2. [voter |-> p[2], term |-> term[p[1]], index |-> matchIndex[p[1]][p[2]]] \in Acks
    BY <1>1, Zenon DEF Acks
  <1> QED
    BY <1>1, <1>2, Zenon

\* Losing messages and trackers is a lossy step.
LEMMA RequestsLost ==
    ASSUME MessagesLost
    PROVE  Requests' \subseteq Requests
  BY Zenon DEF MessagesLost, Requests

\* Where messages and trackers only lose, so do the acknowledgements.
LEMMA LossyStep ==
    ASSUME MessagesLost, TrackersLost
    PROVE  C!Lossy
  <1>1. \A m \in msgs' : m.type = "AppendResponse" /\ m.success /\ m.lastSent > 0 =>
           [voter |-> m.from, term |-> m.reqTerm, index |-> m.lastSent] \in Acks
    BY AckTold, Zenon DEF MessagesLost
  <1>2. ASSUME NEW s \in Server, NEW f \in Server,
               state'[s] = "Leader", s # f, matchIndex'[s][f] > 0
        PROVE  [voter |-> f, term |-> term'[s], index |-> matchIndex'[s][f]] \in Acks
    <2>1. /\ state[s] = "Leader" /\ term'[s] = term[s]
          /\ matchIndex'[s][f] = matchIndex[s][f]
      BY <1>2 DEF TrackersLost
    <2> QED
      BY <1>2, <2>1, AckCounted, Zenon
  <1>3. Acks' \subseteq Acks
    BY <1>1, <1>2, AcksFrom, Zenon
  <1> QED
    BY <1>3, RequestsLost, Zenon DEF C!Lossy

\* A step without a new leader keeps the trackers of the leaders.
LEMMA TrackersKept ==
    ASSUME NoNewLeader, matchIndex' = matchIndex
    PROVE  TrackersLost
  BY Zenon DEF NoNewLeader, TrackersLost

\* A step that only takes a server to a newer term, or not even that.
LEMMA ObserveStep ==
    ASSUME TypeOK, MessagesLost, TrackersLost, Untouched,
           NEW s \in Server, NEW t \in Nat, t >= term[s], term' = [term EXCEPT ![s] = t]
    PROVE  C!Next
  <1>1. term'[s] = t /\ term' = [term EXCEPT ![s] = term'[s]]
    BY Zenon DEF TypeOK
  <1>2. C!Lossy
    BY LossyStep, Zenon
  <1>3. C!Observe(s)
    BY <1>1, <1>2, Zenon DEF C!Observe, Untouched
  <1> QED
    BY <1>3, Zenon DEF C!Next

\* A step that leaves terms, logs and the history alone is one of Consensus.
LEMMA QuietC ==
    ASSUME TypeOK, MessagesLost, TrackersLost, Untouched, term' = term
    PROVE  C!Next
  <1>1. PICK s \in Server : TRUE
    BY ServerAssumption, Zenon
  <1>2. term[s] \in Nat /\ term' = [term EXCEPT ![s] = term[s]] /\ term[s] >= term[s]
    BY DEF TypeOK
  <1> QED
    BY <1>2, ObserveStep, Zenon

\* What a leader counts after a step, Consensus knows of.
LEMMA AckCountedNext ==
    ASSUME NEW s \in Server, NEW f \in Server,
           state'[s] = "Leader", s # f, matchIndex'[s][f] > 0
    PROVE  [voter |-> f, term |-> term'[s], index |-> matchIndex'[s][f]] \in Acks'
  <1> DEFINE p == <<s, f>>
  <1>1. p \in Counted' /\ p[1] = s /\ p[2] = f
    BY Zenon DEF Counted
  <1> HIDE DEF p
  <1>2. [voter |-> p[2], term |-> term'[p[1]], index |-> matchIndex'[p[1]][p[2]]] \in Acks'
    BY <1>1, Zenon DEF Acks
  <1> QED
    BY <1>1, <1>2, Zenon

\* advanceCommitIndex commits what a majority acknowledged, and nothing else.
LEMMA AdvanceStep ==
    ASSUME TypeOK, NEW s \in Server, NEW lg \in Seq(Entry), NEW t \in Nat,
           NEW match \in [Server -> Nat], AdvanceCommitIndex(s, lg, t, match),
           log'[s] = lg, term'[s] = t, matchIndex'[s] = match,
           state'[s] = "Leader", <<t, s>> \in leaders'
    PROVE  C!Commit(s)
  <1>1. PICK c \in {commitIndex[s]} \cup
                   {i \in (commitIndex[s] + 1)..Len(lg) : Replicated(s, lg, t, match, i)} :
           commitIndex' = [commitIndex EXCEPT ![s] = c]
    BY Zenon DEF AdvanceCommitIndex
  <1>2. commitIndex[s] \in Nat /\ commitIndex'[s] = c /\ c \in Nat /\ Len(lg) \in Nat
    BY <1>1 DEF TypeOK
  <1>3. CASE c = commitIndex[s]
    BY <1>1, <1>2, <1>3 DEF C!Commit
  <1>4. CASE c # commitIndex[s]
    <2> DEFINE Q == {v \in Voters : v = s \/ match[v] >= c}
    <2>1. c \in 1..Len(lg) /\ lg[c].term = t /\ Cardinality(Q) >= QuorumSize
      BY <1>1, <1>2, <1>4 DEF Replicated
    <2>2. Q \in Majorities
      BY <2>1, Zenon DEF Majorities
    <2>3. ASSUME NEW v \in Q, v # s
          PROVE  \E a \in Acks' : a.voter = v /\ a.term = t /\ c <= a.index
      <3>1. v \in Server /\ match[v] >= c /\ match[v] \in Nat
        BY <2>3, ServerAssumption, Zenon
      <3>2. matchIndex'[s][v] > 0
        BY <1>2, <2>1, <3>1
      <3> DEFINE a == [voter |-> v, term |-> t, index |-> match[v]]
      <3>3. a \in Acks'
        BY <2>3, <3>1, <3>2, AckCountedNext, Zenon
      <3> QED
        BY <3>1, <3>3, Zenon
    <2> HIDE DEF Q
    <2>4. C!Committable(s, commitIndex[s])'
      BY <1>2, <2>1, <2>2, <2>3 DEF C!Committable, C!Elected
    <2> QED
      BY <1>1, <1>2, <2>4, Zenon DEF C!Commit
  <1> QED
    BY <1>3, <1>4, Zenon

\* becomeLeader: the log grows by the no-op and old trackers are gone.
LEMMA LeadStep ==
    ASSUME TypeOK, NEW s \in Server, NEW t \in Nat, BecomeLeader(s, t),
           term'[s] = t, \A x \in Server : x # s => term'[x] = term[x]
    PROVE  C!Lead(s, t) /\ TrackersLost
  <1> DEFINE lg == Append(log[s], [term |-> t, val |-> Noop])
             match == [f \in Server |-> 0]
  <1>1. /\ DOMAIN state = Server /\ DOMAIN log = Server /\ DOMAIN matchIndex = Server
        /\ log[s] \in Seq(Entry) /\ commitIndex \in [Server -> Nat]
    BY Zenon DEF TypeOK
  <1>2. [term |-> t, val |-> Noop] \in Entry
    BY Zenon DEF Entry
  <1>3. lg \in Seq(Entry) /\ match \in [Server -> Nat]
    BY <1>1, <1>2
  <1>4. /\ state' = [state EXCEPT ![s] = "Leader"]
        /\ matchIndex' = [matchIndex EXCEPT ![s] = match]
        /\ log' = [log EXCEPT ![s] = lg]
        /\ leaders' = leaders \cup {<<t, s>>}
    BY Zenon DEF BecomeLeader
  <1>5. /\ state'[s] = "Leader" /\ matchIndex'[s] = match /\ log'[s] = lg
        /\ <<t, s>> \in leaders'
    BY <1>1, <1>4, Zenon
  <1>6. C!Commit(s)
    <2>1. CASE QuorumSize = 1
      <3>1. AdvanceCommitIndex(s, lg, t, match)
        BY <2>1, Zenon DEF BecomeLeader
      <3> HIDE DEF lg, match
      <3> QED
        BY <1>3, <1>5, <3>1, AdvanceStep, Zenon
    <2>2. CASE QuorumSize # 1
      <3>1. commitIndex' = commitIndex
        BY <2>2, Zenon DEF BecomeLeader
      <3> QED
        BY <1>1, <3>1 DEF C!Commit
    <2> QED
      BY <2>1, <2>2, Zenon
  <1>7. C!Extend(s, t)
    BY <1>4, Zenon DEF C!Extend
  <1>8. TrackersLost
    <2>1. \A x \in Server : x # s => state'[x] = state[x] /\ matchIndex'[x] = matchIndex[x]
      BY <1>1, <1>4, Zenon
    <2>2. \A f \in Server : matchIndex'[s][f] = 0
      BY <1>5, Zenon
    <2> QED
      BY <2>1, <2>2, Zenon DEF TrackersLost
  <1> QED
    BY <1>4, <1>6, <1>7, <1>8, Zenon DEF C!Lead

\* startElectionWith is a campaign, won at once by a lone voter.
LEMMA CampaignStep ==
    ASSUME TypeOK, LoneVoterWins, NEW s \in Server, NEW transfer, NEW rest,
           rest \subseteq msgs, StartElection(s, transfer, rest),
           UNCHANGED <<late, storedCommit, applied>>
    PROVE  C!Next
  <1> DEFINE t == term[s] + 1
  <1>1. t \in Nat /\ DOMAIN term = Server /\ DOMAIN state = Server
    BY DEF TypeOK
  <1>2. /\ term' = [term EXCEPT ![s] = t]
        /\ elections' = elections \cup {[term |-> t, cand |-> s, log |-> log[s]]}
        /\ ballots' = ballots \cup {[term |-> t, voter |-> s, cand |-> s]}
    BY Zenon DEF StartElection
  <1>3. term'[s] = t /\ \A x \in Server : x # s => term'[x] = term[x]
    BY <1>1, <1>2, Zenon
  <1>4. MessagesLost
    <2>1. \A m \in msgs' : m \in msgs \/ m.type = "VoteRequest"
      <3>1. CASE QuorumSize = 1
        BY <3>1, Zenon DEF StartElection
      <3>2. CASE QuorumSize # 1
        BY <3>2 DEF StartElection, VoteRequest
      <3> QED
        BY <3>1, <3>2, Zenon
    <2> QED
      BY <2>1, Zenon DEF MessagesLost
  <1>5. CASE QuorumSize = 1
    <2>1. {s} \in Majorities
      BY <1>5, Zenon DEF LoneVoterWins
    <2>2. BecomeLeader(s, t)
      BY <1>5, Zenon DEF StartElection
    <2> HIDE DEF t
    <2>3. C!Lead(s, t) /\ TrackersLost
      BY <1>1, <1>3, <2>2, LeadStep, Zenon
    <2>4. C!Lossy
      BY <1>4, <2>3, LossyStep, Zenon
    <2> USE DEF t
    <2>5. C!Campaign(s)
      BY <1>2, <2>1, <2>3, <2>4, Zenon DEF C!Campaign
    <2> QED
      BY <2>5, Zenon DEF C!Next
  <1>6. CASE QuorumSize # 1
    <2>1. UNCHANGED <<matchIndex, log, commitIndex, leaders>>
      BY <1>6, Zenon DEF StartElection, leaderVars
    <2>2. state' = [state EXCEPT ![s] = "Candidate"]
      BY <1>6, Zenon DEF StartElection
    <2>3. NoNewLeader
      BY <1>1, <1>3, <2>2, Zenon DEF NoNewLeader
    <2>4. C!Lossy
      BY <1>4, <2>1, <2>3, TrackersKept, LossyStep, Zenon
    <2>5. C!Campaign(s)
      BY <1>2, <2>1, <2>4, Zenon DEF C!Campaign
    <2> QED
      BY <2>5, Zenon DEF C!Next
  <1> QED
    BY <1>5, <1>6, Zenon

\* tickFollower, tickCandidate and HandleTimeoutNowRPC.
LEMMA ElectionsC ==
    ASSUME TypeOK, LoneVoterWins, NEW s \in Server,
           ElectionTimeout(s) \/ TimeoutNow(s)
    PROVE  C!Next
  <1>1. UNCHANGED <<late, storedCommit, applied>>
    BY Zenon DEF ElectionTimeout, TimeoutNow
  <1>2. CASE \E transfer : StartElection(s, transfer, msgs)
    BY <1>1, <1>2, CampaignStep, Zenon
  <1>3. CASE ElectionTimeout(s) /\ PreVote /\ QuorumSize # 1
    <2>1. /\ UNCHANGED <<term, elections, ballots, leaders, log, commitIndex, matchIndex>>
          /\ state' = [state EXCEPT ![s] = "Candidate"]
          /\ msgs' = msgs \cup {VoteRequest(s, v, term[s] + 1, TRUE, FALSE) :
                                   v \in Voters \ {s}}
      BY <1>3, Zenon DEF ElectionTimeout, StartPreVote, termVars, leaderVars
    <2>2. MessagesLost
      BY <1>1, <2>1 DEF VoteRequest, MessagesLost
    <2>3. NoNewLeader
      BY <2>1, Zenon DEF TypeOK, NoNewLeader
    <2>4. Untouched
      BY <1>1, <2>1, Zenon DEF Untouched
    <2> QED
      BY <2>1, <2>2, <2>3, <2>4, TrackersKept, QuietC, Zenon
  <1> QED
    BY <1>2, <1>3, Zenon DEF ElectionTimeout, StartPreVote, TimeoutNow

\* The answer to a vote request is no acknowledgement.
LEMMA VoteAnswered ==
    ASSUME NEW m, NEW t, NEW granted, AnswerVote(m, t, granted)
    PROVE  MessagesLost
  BY DEF AnswerVote, Answer, VoteResponse, MessagesLost

\* A granted vote goes to a candidate whose log the request describes.
LEMMA VoteStep ==
    ASSUME RoleInv, NEW m \in msgs \cup late, m.type = "VoteRequest", ~m.preVote,
           MayVote(m.to, m), LogOK(m, log[m.to]), m.term >= term[m.to],
           term' = [term EXCEPT ![m.to] = m.term],
           ballots' = ballots \cup {Ballot(m.term, m.to, m.from)},
           MessagesLost, TrackersLost,
           UNCHANGED <<log, elections, leaders, commitIndex, storedCommit, applied>>
    PROVE  C!Next
  <1> DEFINE v == m.to
  <1>1. v \in Server /\ m.from \in Server /\ m.term \in Nat /\ Nil \notin Server
    BY MessageFields, ServerAssumption, Zenon DEF RoleInv, TypeOK
  <1>2. PICK e \in elections : Describes(m, e)
    BY Zenon DEF RoleInv, RequestsBacked
  <1>3. \A b \in ballots : b.voter = v /\ b.term = e.term => b.cand = e.cand
    <2> SUFFICES ASSUME NEW b \in ballots, b.voter = v, b.term = m.term
                 PROVE  b.cand = m.from
      BY <1>2, Zenon DEF Describes
    <2>1. b.term <= term[v] /\ (b.term = term[v] => votedFor[v] = b.cand)
      BY Zenon DEF RoleInv, BallotsRemembered
    <2>2. term[v] \in Nat /\ b.cand \in Server
      BY <1>1, Zenon DEF RoleInv, TypeOK
    <2>3. m.term = term[v]
      BY <1>1, <2>1, <2>2
    <2>4. votedFor[v] = b.cand
      BY <2>1, <2>3, Zenon
    <2> QED
      BY <1>1, <2>2, <2>3, <2>4 DEF MayVote
  <1>4. C!UpToDate(e.log, log[v])
    BY <1>2, Zenon DEF Describes, LogOK, C!UpToDate, C!LastTerm, LastTerm
  <1>5. C!Lossy
    BY LossyStep, Zenon
  <1>6. C!Vote(v, e)
    BY <1>2, <1>3, <1>4, <1>5, Zenon DEF C!Vote, Describes, Ballot
  <1> QED
    BY <1>1, <1>6, Zenon DEF C!Next

\* handleRequestVote.
LEMMA VoteRequestsC ==
    ASSUME RoleInv, NEW m \in msgs \cup late, HandlePreVoteRequest(m) \/ HandleRequestVote(m)
    PROVE  C!Next
  <1>1. TypeOK /\ m.to \in Server /\ m.term \in Nat
    BY MessageFields, Zenon DEF RoleInv, TypeOK
  <1>2. UNCHANGED <<log, elections, leaders, commitIndex, storedCommit, applied, matchIndex>>
    BY Zenon DEF HandlePreVoteRequest, HandleRequestVote, commitVars, leaderVars, history
  <1>3. \E t, granted : AnswerVote(m, t, granted)
    BY Zenon DEF HandlePreVoteRequest, HandleRequestVote, RefuseVote, ConsiderVote
  <1>4. MessagesLost
    BY <1>3, VoteAnswered, Zenon
  <1>5. CASE UNCHANGED <<state, term, ballots>>
    <2>1. Untouched /\ TrackersLost
      BY <1>2, <1>5, Zenon DEF Untouched, TrackersLost
    <2> QED
      BY <1>1, <1>4, <1>5, <2>1, QuietC, Zenon
  <1>6. CASE HandleRequestVote(m) /\ ConsiderVote(m)
    <2>1. /\ m.type = "VoteRequest" /\ ~m.preVote
          /\ m.term >= term[m.to]
          /\ term' = [term EXCEPT ![m.to] = m.term]
          /\ state' = [state EXCEPT ![m.to] = IF m.term > term[m.to] THEN "Follower" ELSE @]
      BY <1>6, Zenon DEF HandleRequestVote, ConsiderVote
    <2>2. \/ state' = [state EXCEPT ![m.to] = "Follower"]
          \/ m.term = term[m.to] /\ state' = state
      BY <1>1, <2>1, VoterSteps, Zenon
    <2>3. NoNewLeader
      BY <1>1, <2>1, <2>2, StepsDown, Zenon DEF NoNewLeader
    <2>4. TrackersLost
      BY <1>2, <2>3, TrackersKept, Zenon
    <2>5. CASE MayVote(m.to, m) /\ LogOK(m, log[m.to])
      <3>1. ballots' = ballots \cup {Ballot(m.term, m.to, m.from)}
        BY <1>6, <2>5, Zenon DEF ConsiderVote, Ballot
      <3> QED
        BY <1>2, <1>4, <2>1, <2>4, <2>5, <3>1, VoteStep, Zenon
    <2>6. CASE ~(MayVote(m.to, m) /\ LogOK(m, log[m.to]))
      <3>1. ballots' = ballots
        BY <1>6, <2>6, Zenon DEF ConsiderVote
      <3>2. Untouched
        BY <1>2, <3>1, Zenon DEF Untouched
      <3> QED
        BY <1>1, <1>4, <2>1, <2>4, <3>2, ObserveStep, Zenon
    <2> QED
      BY <2>5, <2>6, Zenon
  <1> QED
    BY <1>5, <1>6, Zenon DEF HandlePreVoteRequest, HandleRequestVote, RefuseVote, termVars, history

\* A majority of counted votes is a majority of ballots.
LEMMA WinStep ==
    ASSUME RoleInv, NEW m \in msgs \cup late, m.type = "VoteResponse", ~m.preVote,
           VoteCounts(m.to, m), HasVoteQuorum(votes[m.to] \cup {m.from}),
           BecomeLeader(m.to, term[m.to]), MessagesLost,
           UNCHANGED <<term, elections, ballots, storedCommit, applied>>
    PROVE  C!Next
  <1> DEFINE s == m.to
             Q == (votes[s] \cup {m.from}) \cap Voters
  <1>1. TypeOK /\ s \in Server /\ term[s] \in Nat
    BY MessageFields, Zenon DEF RoleInv, TypeOK
  <1>2. Q \in Majorities
    BY Zenon DEF HasVoteQuorum, Majorities
  <1>3. Ballot(term[s], m.from, s) \in ballots
    BY Zenon DEF RoleInv, GrantsBacked, VoteCounts
  <1>4. Ballot(term[s], s, s) \in ballots
    <2>1. /\ Ballot(term[s], m.from, s).term = term[s]
          /\ Ballot(term[s], m.from, s).cand = s
      BY Zenon DEF Ballot
    <2> QED
      BY <1>3, <2>1, Zenon DEF RoleInv, SelfFirst
  <1>5. \A v \in Q : Ballot(term[s], v, s) \in ballots
    BY <1>1, <1>3, <1>4, Zenon DEF RoleInv, VotesBacked
  <1>6. C!Lead(s, term[s]) /\ TrackersLost
    BY <1>1, LeadStep, Zenon
  <1>7. C!Lossy
    BY <1>6, LossyStep, Zenon
  <1> HIDE DEF Q
  <1>8. C!Win(s)
    BY <1>2, <1>5, <1>6, <1>7, Zenon DEF C!Win, Ballot
  <1> QED
    BY <1>1, <1>8, Zenon DEF C!Next

\* sendPreVoteRequest and sendVoteRequest, on the reply.
LEMMA VoteResponsesC ==
    ASSUME RoleInv, LoneVoterWins, NEW m \in msgs \cup late,
           HandlePreVoteResponse(m) \/ HandleVoteResponse(m) \/ DiscardVoteResponse(m)
    PROVE  C!Next
  <1>1. TypeOK /\ m.to \in Server /\ m.term \in Nat /\ term[m.to] \in Nat
    BY MessageFields, Zenon DEF RoleInv, TypeOK
  <1>2. UNCHANGED <<late, storedCommit, applied>>
    BY Zenon DEF HandlePreVoteResponse, HandleVoteResponse, DiscardVoteResponse,
                 commitVars, history
  <1>3. CASE /\ m.term > term[m.to]
             /\ term' = [term EXCEPT ![m.to] = m.term]
             /\ state' = [state EXCEPT ![m.to] = "Follower"]
             /\ msgs' = msgs \ {m}
             /\ UNCHANGED <<log, elections, ballots, leaders, commitIndex, matchIndex>>
    <2>1. m.term >= term[m.to]
      BY <1>1, <1>3
    <2>2. NoNewLeader
      BY <1>1, <1>3, <2>1, StepsDown, Zenon DEF NoNewLeader
    <2>3. MessagesLost /\ Untouched
      BY <1>2, <1>3, Zenon DEF MessagesLost, Untouched
    <2> QED
      BY <1>1, <1>3, <2>1, <2>2, <2>3, TrackersKept, ObserveStep, Zenon
  <1>4. CASE /\ msgs' = msgs \ {m}
             /\ UNCHANGED <<state, term, log, elections, ballots, leaders, commitIndex,
                            matchIndex>>
    <2>1. MessagesLost /\ Untouched /\ TrackersLost
      BY <1>2, <1>4, Zenon DEF MessagesLost, Untouched, TrackersLost
    <2> QED
      BY <1>1, <1>4, <2>1, QuietC, Zenon
  <1>5. CASE HandlePreVoteResponse(m)
    <2>1. CASE StartElection(m.to, FALSE, msgs \ {m})
      <3> DEFINE rest == msgs \ {m}
      <3>1. StartElection(m.to, FALSE, rest) /\ rest \subseteq msgs
        BY <2>1, Zenon
      <3> HIDE DEF rest
      <3> QED
        BY <1>1, <1>2, <3>1, CampaignStep, Zenon
    <2> QED
      BY <1>3, <1>4, <1>5, <2>1, Zenon DEF HandlePreVoteResponse, termVars, leaderVars
  <1>6. CASE HandleVoteResponse(m)
    <2>1. /\ m.type = "VoteResponse" /\ ~m.preVote
          /\ msgs' = msgs \ {m} /\ UNCHANGED <<elections, ballots>>
      BY <1>6, Zenon DEF HandleVoteResponse
    <2>2. CASE /\ VoteCounts(m.to, m) /\ HasVoteQuorum(votes[m.to] \cup {m.from})
               /\ BecomeLeader(m.to, term[m.to])
               /\ term' = term
      <3>1. MessagesLost
        BY <1>2, <2>1, Zenon DEF MessagesLost
      <3> QED
        BY <1>2, <2>1, <2>2, <3>1, WinStep, Zenon
    <2> QED
      BY <1>3, <1>4, <1>6, <2>1, <2>2, Zenon DEF HandleVoteResponse, termVars, leaderVars
  <1>7. CASE DiscardVoteResponse(m)
    BY <1>4, <1>7, Zenon DEF DiscardVoteResponse, termVars, commitVars, leaderVars, history
  <1> QED
    BY <1>5, <1>6, <1>7, Zenon

\* The steps of a leader's own goroutines.
LEMMA ProposalC ==
    ASSUME RoleInv, LoneVoterWins, NEW s \in Server, NEW v \in Value,
           HandleProposal(s, v)
    PROVE  C!Next
  <1> USE DEF termVars, commitVars, leaderVars, history
  <1> DEFINE entry == [term |-> term[s], val |-> v]
             lg == Append(log[s], entry)
  <1>1. /\ TypeOK /\ log[s] \in Seq(Entry) /\ term[s] \in Nat /\ DOMAIN log = Server
        /\ commitIndex \in [Server -> Nat]
    BY Zenon DEF RoleInv, TypeOK
  <1>2. /\ state[s] = "Leader"
        /\ log' = [log EXCEPT ![s] = lg]
        /\ commitIndex' = IF QuorumSize = 1 THEN [commitIndex EXCEPT ![s] = Len(lg)]
                                            ELSE commitIndex
        /\ UNCHANGED <<state, term, storedCommit, matchIndex, msgs, late,
                       elections, ballots, leaders, applied>>
    BY Zenon DEF HandleProposal
  <1>3. <<term[s], s>> \in leaders
    BY <1>2, Zenon DEF RoleInv, LeadersElected
  <1>4. C!Lossy
    BY <1>2, LossyStep, Zenon DEF MessagesLost, TrackersLost
  <1>5. /\ Len(lg) \in Nat /\ Len(lg) \in 1..Len(lg) /\ lg[Len(lg)] = entry
        /\ log'[s] = lg
    BY <1>1, <1>2
  <1>6. entry.term = term[s]
    OBVIOUS
  <1>7. C!Extend(s, term[s])
    BY <1>2, Zenon DEF C!Extend
  <1> HIDE DEF lg, entry
  <1>8. C!Commit(s)
    <2>1. CASE QuorumSize # 1
      BY <1>1, <1>2, <2>1 DEF C!Commit
    <2>2. CASE QuorumSize = 1
      <3>1. commitIndex' = [commitIndex EXCEPT ![s] = Len(lg)] /\ commitIndex'[s] = Len(lg)
        BY <1>1, <1>2, <2>2, Zenon
      <3>2. {s} \in Majorities
        BY <2>2, Zenon DEF LoneVoterWins
      <3>3. C!Committable(s, commitIndex[s])'
        BY <1>2, <1>3, <1>5, <1>6, <3>1, <3>2, Zenon DEF C!Committable, C!Elected
      <3> QED
        BY <1>5, <3>1, <3>3, Zenon DEF C!Commit
    <2> QED
      BY <2>1, <2>2, Zenon
  <1>9. C!Propose(s)
    BY <1>2, <1>3, <1>4, <1>7, <1>8, Zenon DEF C!Propose, C!Elected
  <1> QED
    BY <1>9, Zenon DEF C!Next

\* replicateOnce sends a stretch of the leader's log.
LEMMA ReplicateC ==
    ASSUME RoleInv, NEW s \in Server, NEW f \in Server, ReplicateOnce(s, f)
    PROVE  C!Next
  <1> USE DEF termVars, commitVars, leaderVars, history
  <1> DEFINE prev == nextIndex[s][f] - 1
             request(last) ==
                 [type |-> "AppendRequest", from |-> s, to |-> f, term |-> term[s],
                  prevIndex |-> prev, prevTerm |-> IF prev = 0 THEN 0 ELSE log[s][prev].term,
                  entries |-> SubSeq(log[s], nextIndex[s][f], last),
                  commit |-> commitIndex[s]]
  <1>1. prev \in Nat /\ prev + 1 = nextIndex[s][f]
    <2>1. nextIndex[s][f] \in Nat \ {0}
      BY Zenon DEF RoleInv, TypeOK
    <2> QED
      BY <2>1
  <1>2. /\ state[s] = "Leader" /\ f # s
        /\ UNCHANGED <<state, term, log, commitIndex, storedCommit, matchIndex, late,
                       elections, ballots, leaders, applied>>
    BY Zenon DEF ReplicateOnce
  <1>3. PICK last \in prev..Len(log[s]) : msgs' = msgs \cup {request(last)}
    BY Zenon DEF ReplicateOnce
  <1>4. <<term[s], s>> \in leaders
    BY <1>2, Zenon DEF RoleInv, LeadersElected
  <1>5. prev \in 0..Len(log[s])
    <2>1. Len(log[s]) \in Nat
      BY DEF RoleInv, TypeOK
    <2> HIDE DEF request, prev
    <2> QED
      BY <1>1, <1>3, <2>1
  <1>6. request(last) = C!Stretch(s, f, prev, last)
    BY <1>1, Zenon DEF C!Stretch
  <1>7. request(last).type = "AppendRequest"
    OBVIOUS
  <1> HIDE DEF request, prev
  <1>8. Requests' \subseteq Requests \cup {request(last)}
    BY <1>2, <1>3, Zenon DEF Requests
  <1>9. Acks' \subseteq Acks
    <2>1. \A m \in msgs' : m.type = "AppendResponse" /\ m.success => m \in msgs
      BY <1>3, <1>7, Zenon
    <2>2. \A m \in msgs' : m.type = "AppendResponse" /\ m.success /\ m.lastSent > 0 =>
             [voter |-> m.from, term |-> m.reqTerm, index |-> m.lastSent] \in Acks
      BY <2>1, AckTold, Zenon
    <2>3. \A l, x \in Server : state'[l] = "Leader" /\ l # x /\ matchIndex'[l][x] > 0 =>
             [voter |-> x, term |-> term'[l], index |-> matchIndex'[l][x]] \in Acks
      BY <1>2, AckCounted, Zenon
    <2> QED
      BY <2>2, <2>3, AcksFrom, Zenon
  <1>10. C!Send(s, f)
    BY <1>2, <1>3, <1>4, <1>5, <1>6, <1>8, <1>9, Zenon DEF C!Send, C!Elected
  <1> QED
    BY <1>10, Zenon DEF C!Next

\* checkQuorum, applyCommitted, flushCommitIndex, crash and restart.
LEMMA ServerC ==
    ASSUME RoleInv, NEW s \in Server,
           \/ CheckQuorumStepDown(s)
           \/ ApplyCommitted(s)
           \/ FlushCommitIndex(s)
           \/ Crash(s)
           \/ Start(s)
    PROVE  C!Next
  <1> USE DEF termVars, commitVars, leaderVars, history
  <1>1. /\ commitIndex \in [Server -> Nat]
        /\ DOMAIN state = Server
        /\ matchIndex \in [Server -> [Server -> Nat]]
    BY Zenon DEF RoleInv, TypeOK
  <1>8. /\ Len(log[s]) \in Nat /\ applyIndex[s] \in Nat /\ commitIndex[s] \in Nat
        /\ storedCommit[s] \in Nat
    BY DEF RoleInv, TypeOK
  <1>2. UNCHANGED <<term, log, elections, ballots, leaders>>
    BY Zenon DEF CheckQuorumStepDown, ApplyCommitted, FlushCommitIndex, Crash, Lose, Start
  <1>3. C!Lossy
    <2>1. MessagesLost
      <3>1. CASE Crash(s)
        BY <3>1, Zenon DEF Crash, Lose, MessagesLost
      <3>2. CASE UNCHANGED <<msgs, late>>
        BY <3>2, Zenon DEF MessagesLost
      <3> QED
        BY <3>1, <3>2, Zenon DEF CheckQuorumStepDown, ApplyCommitted, FlushCommitIndex, Start
    <2>2. TrackersLost
      <3>1. \/ state' = state
            \/ \E role \in {"Follower", "Learner", "Down"} : state' = [state EXCEPT ![s] = role]
        BY Zenon DEF CheckQuorumStepDown, ApplyCommitted, FlushCommitIndex, Crash, Lose, Start
      <3>2. NoNewLeader
        BY <1>1, <1>2, <3>1, Zenon DEF NoNewLeader
      <3>3. \/ matchIndex' = matchIndex
            \/ matchIndex' = [matchIndex EXCEPT ![s] = [f \in Server |-> 0]]
        BY Zenon DEF CheckQuorumStepDown, ApplyCommitted, FlushCommitIndex, Crash, Lose, Start
      <3>4. \A x, f \in Server : matchIndex'[x][f] = 0 \/ matchIndex'[x][f] = matchIndex[x][f]
        <4>1. CASE matchIndex' = [matchIndex EXCEPT ![s] = [f \in Server |-> 0]]
          BY <1>1, <4>1, Zenon
        <4> QED
          BY <3>3, <4>1, Zenon
      <3> QED
        BY <3>2, <3>4, Zenon DEF NoNewLeader, TrackersLost
    <2> QED
      BY <2>1, <2>2, LossyStep, Zenon
  <1>4. CASE CheckQuorumStepDown(s)
    <2>1. UNCHANGED <<commitIndex, storedCommit, applied>>
      BY <1>4, Zenon DEF CheckQuorumStepDown
    <2>2. C!Decide(s)
      BY <1>1, <1>2, <1>3, <2>1 DEF C!Decide, C!Commit
    <2> QED
      BY <2>2, Zenon DEF C!Next
  <1>5. CASE ApplyCommitted(s)
    <2> DEFINE i == applyIndex[s] + 1
    <2>1. /\ UNCHANGED <<commitIndex, storedCommit>>
          /\ applied' = applied \cup {<<i, log[s][i]>>}
          /\ applyIndex[s] < commitIndex[s] /\ applyIndex[s] < Len(log[s])
      BY <1>5, Zenon DEF ApplyCommitted
    <2>2. i \in 1..Len(log[s]) /\ i <= commitIndex[s]
      BY <1>8, <2>1, Succeeds, Zenon
    <2> HIDE DEF i
    <2>3. C!Apply(s)
      BY <1>2, <1>3, <2>1, <2>2, Zenon DEF C!Apply
    <2> QED
      BY <2>3, Zenon DEF C!Next
  <1>6. CASE FlushCommitIndex(s)
    <2>1. /\ storedCommit' = [storedCommit EXCEPT ![s] = commitIndex[s]]
          /\ UNCHANGED <<commitIndex, applied>>
      BY <1>6, Zenon DEF FlushCommitIndex
    <2>2. C!Flush(s)
      BY <1>2, <1>3, <2>1, Zenon DEF C!Flush
    <2> QED
      BY <2>2, Zenon DEF C!Next
  <1>7. CASE Crash(s) \/ Start(s)
    <2> DEFINE cap == IF storedCommit[s] > Len(log[s]) THEN Len(log[s]) ELSE storedCommit[s]
    <2>1. /\ UNCHANGED <<storedCommit, applied>>
          /\ \/ commitIndex' = [commitIndex EXCEPT ![s] = 0]
             \/ commitIndex' = [commitIndex EXCEPT ![s] = cap]
      BY <1>7, Zenon DEF Crash, Lose, Start
    <2>3. cap \in Nat /\ cap <= storedCommit[s] /\ 0 <= storedCommit[s] /\ 0 \in Nat
      BY <1>8, Capped, Zenon
    <2> HIDE DEF cap
    <2>4. /\ commitIndex'[s] \in Nat /\ commitIndex'[s] <= storedCommit[s]
          /\ commitIndex' = [commitIndex EXCEPT ![s] = commitIndex'[s]]
      BY <1>1, <2>1, <2>3, Zenon
    <2>2. C!Decide(s)
      BY <1>2, <1>3, <2>1, <2>4, Zenon DEF C!Decide, C!Commit
    <2> QED
      BY <2>2, Zenon DEF C!Next
  <1> QED
    BY <1>4, <1>5, <1>6, <1>7, Zenon

\* A refusal is no acknowledgement.
LEMMA AppendRefused ==
    ASSUME NEW m, NEW t, NEW index, NEW conflict, AnswerAppend(m, t, FALSE, index, conflict)
    PROVE  MessagesLost
  <1> DEFINE r == AppendResponse(m, t, FALSE, index, conflict)
  <1>1. /\ \A x \in msgs' \cup late' : x \in msgs \cup late \/ x = r
        /\ \A x \in msgs' : x \in msgs \/ x = r
    BY Zenon DEF AnswerAppend, Answer
  <1>2. r.type = "AppendResponse"
    BY Zenon DEF AppendResponse
  <1>3. r.success = FALSE
    BY Zenon DEF AppendResponse
  <1> HIDE DEF r
  <1> QED
    BY <1>1, <1>2, <1>3, Zenon DEF MessagesLost

\* The acknowledgement of a request names the last index it carried.
LEMMA AppendConfirmed ==
    ASSUME NEW m \in Message, m.type = "AppendRequest", NEW index,
           AnswerAppend(m, m.term, TRUE, index, 0)
    PROVE  LET ack == [voter |-> m.to, term |-> m.term, index |-> m.prevIndex + Len(m.entries)]
           IN  /\ \A x \in msgs' \cup late' : x.type = "AppendRequest" => x \in msgs \cup late
               /\ \A x \in msgs' :
                     x.type = "AppendResponse" /\ x.success /\ x.lastSent > 0 =>
                        \/ x \in msgs
                        \/ [voter |-> x.from, term |-> x.reqTerm, index |-> x.lastSent] = ack
  <1> DEFINE r == AppendResponse(m, m.term, TRUE, index, 0)
             ack == [voter |-> m.to, term |-> m.term, index |-> m.prevIndex + Len(m.entries)]
  <1>1. \A x \in msgs' \cup late' : x \in msgs \cup late \/ x = r
    BY Zenon DEF AnswerAppend, Answer
  <1>2. \A x \in msgs' : x \in msgs \/ x = r
    BY Zenon DEF AnswerAppend, Answer
  <1>3. r.type = "AppendResponse" /\ r.from = m.to /\ r.reqTerm = m.term
    BY Zenon DEF AppendResponse
  <1>4. r.lastSent > 0 => r.lastSent = m.prevIndex + Len(m.entries)
    BY DEF AppendResponse
  <1> HIDE DEF r
  <1>5. r.lastSent > 0 =>
           [voter |-> r.from, term |-> r.reqTerm, index |-> r.lastSent] = ack
    BY <1>3, <1>4, Zenon
  <1> HIDE DEF ack
  <1>6. \A x \in msgs' \cup late' : x.type = "AppendRequest" => x \in msgs \cup late
    BY <1>1, <1>3, Zenon
  <1>7. \A x \in msgs' : x.type = "AppendResponse" /\ x.success /\ x.lastSent > 0 =>
           \/ x \in msgs
           \/ [voter |-> x.from, term |-> x.reqTerm, index |-> x.lastSent] = ack
    BY <1>2, <1>5, Zenon
  <1> USE DEF ack
  <1> QED
    BY <1>6, <1>7, Zenon

\* handleAppendEntries, success.
LEMMA StoreStep ==
    ASSUME TypeOK, NEW m \in msgs \cup late, m.type = "AppendRequest",
           ObserveLeader(m.to, m), PrevMatches(m.to, m), StoreEntries(m.to, m),
           UNCHANGED <<matchIndex, elections, ballots, leaders, storedCommit, applied>>
    PROVE  C!Next
  <1> DEFINE s == m.to
             last == m.prevIndex + Len(m.entries)
             ack == [voter |-> s, term |-> m.term, index |-> last]
  <1>1. /\ m \in Message /\ s \in Server /\ m.term \in Nat
        /\ m.prevIndex \in Nat /\ Len(m.entries) \in Nat /\ m.commit \in Nat
        /\ commitIndex \in [Server -> Nat]
    BY MessageFields DEF TypeOK
  <1>2. m.term >= term[s] /\ term' = [term EXCEPT ![s] = m.term]
    BY Zenon DEF ObserveLeader
  <1>3. C!Merged(s, m) = Merged(s, m) /\ C!PrevMatches(s, m)
    BY Zenon DEF C!Merged, Merged, C!Present, Present, C!PrevMatches, PrevMatches
  <1>4. log' = [log EXCEPT ![s] = C!Merged(s, m)]
    BY <1>3, Zenon DEF StoreEntries
  <1>5. /\ commitIndex' = [commitIndex EXCEPT ![s] = commitIndex'[s]]
        /\ commitIndex'[s] \in Nat
        /\ \/ commitIndex'[s] <= commitIndex[s]
           \/ commitIndex'[s] <= m.commit /\ commitIndex'[s] <= last
    <2> DEFINE c == IF m.commit > commitIndex[s]
                    THEN IF m.commit < last THEN m.commit ELSE last
                    ELSE commitIndex[s]
    <2>1. commitIndex' = [commitIndex EXCEPT ![s] = c]
      BY <1>1, Zenon DEF StoreEntries
    <2>3. last \in Nat /\ commitIndex[s] \in Nat
      BY <1>1
    <2> HIDE DEF last
    <2>2. c \in Nat /\ (c <= commitIndex[s] \/ (c <= m.commit /\ c <= last))
      BY <1>1, <2>3, Raised, Zenon
    <2> HIDE DEF c
    <2> QED
      BY <1>1, <2>1, <2>2, Zenon
  <1>6. NoNewLeader
    BY <1>1, ObservedLeader, Zenon DEF NoNewLeader
  <1>7. /\ \A x \in msgs' \cup late' : x.type = "AppendRequest" => x \in msgs \cup late
        /\ \A x \in msgs' :
              x.type = "AppendResponse" /\ x.success /\ x.lastSent > 0 =>
                 \/ x \in msgs
                 \/ [voter |-> x.from, term |-> x.reqTerm, index |-> x.lastSent] = ack
    BY <1>1, AppendConfirmed, Zenon DEF StoreEntries
  <1>8. Requests' \subseteq Requests
    BY <1>7, Zenon DEF Requests
  <1> HIDE DEF ack
  <1>9. Acks' \subseteq Acks \cup {ack}
    <2> DEFINE A == Acks \cup {ack}
    <2>1. \A x \in msgs' : x.type = "AppendResponse" /\ x.success /\ x.lastSent > 0 =>
             [voter |-> x.from, term |-> x.reqTerm, index |-> x.lastSent] \in A
      BY <1>7, AckTold, Zenon
    <2>2. \A l, x \in Server : state'[l] = "Leader" /\ l # x /\ matchIndex'[l][x] > 0 =>
             [voter |-> x, term |-> term'[l], index |-> matchIndex'[l][x]] \in A
      BY <1>6, AckCounted, Zenon DEF NoNewLeader
    <2> HIDE DEF A
    <2>3. Acks' \subseteq A
      BY <2>1, <2>2, AcksFrom, Zenon
    <2> QED
      BY <2>3, Zenon DEF A
  <1>10. m \in Requests
    BY Zenon DEF Requests
  <1>11. C!Store(s, m)
    BY <1>2, <1>3, <1>4, <1>5, <1>8, <1>9, Zenon DEF C!Store, ack
  <1> QED
    BY <1>1, <1>10, <1>11, Zenon DEF C!Next

\* handleAppendEntries.
LEMMA AppendEntriesC ==
    ASSUME TypeOK, NEW m \in msgs \cup late, HandleAppendEntries(m)
    PROVE  C!Next
  <1> USE DEF termVars, leaderVars, history
  <1>1. m.to \in Server /\ m.term \in Nat
    BY MessageFields, Zenon DEF TypeOK
  <1>2. /\ m.type = "AppendRequest"
        /\ UNCHANGED <<matchIndex, elections, ballots, leaders, storedCommit, applied>>
    BY Zenon DEF HandleAppendEntries
  <1>3. CASE RefuseStaleAppend(m)
    <2>1. MessagesLost
      BY <1>3, AppendRefused, Zenon DEF RefuseStaleAppend
    <2>2. UNCHANGED <<state, term, log, commitIndex>>
      BY <1>3, Zenon DEF RefuseStaleAppend
    <2>3. TrackersLost /\ Untouched
      BY <1>2, <2>2, Zenon DEF TrackersLost, Untouched
    <2> QED
      BY <2>1, <2>2, <2>3, QuietC, Zenon
  <1>4. CASE ObserveLeader(m.to, m) /\ (RefuseAppend(m.to, m) \/ RefuseOverwrite(m.to, m))
    <2>1. MessagesLost /\ UNCHANGED <<log, commitIndex>>
      <3>1. CASE RefuseAppend(m.to, m)
        BY <3>1, AppendRefused, Zenon DEF RefuseAppend
      <3>2. CASE RefuseOverwrite(m.to, m)
        BY <3>2, AppendRefused, Zenon DEF RefuseOverwrite
      <3> QED
        BY <1>4, <3>1, <3>2, Zenon
    <2>2. NoNewLeader
      BY <1>1, <1>4, ObservedLeader, Zenon DEF NoNewLeader
    <2>3. TrackersLost /\ Untouched
      BY <1>2, <2>1, <2>2, TrackersKept, Zenon DEF Untouched
    <2>4. m.term >= term[m.to] /\ term' = [term EXCEPT ![m.to] = m.term]
      BY <1>4, Zenon DEF ObserveLeader
    <2> QED
      BY <1>1, <2>1, <2>3, <2>4, ObserveStep, Zenon
  <1>5. CASE ObserveLeader(m.to, m) /\ PrevMatches(m.to, m) /\ StoreEntries(m.to, m)
    BY <1>2, <1>5, StoreStep, Zenon
  <1> QED
    BY <1>3, <1>4, <1>5, Zenon DEF HandleAppendEntries, AcceptAppend

\* An acknowledgement moves from the message to the tracker.
LEMMA AckStep ==
    ASSUME RoleInv, NEW m \in msgs, m.type = "AppendResponse", AppendAcked(m.to, m),
           state[m.to] = "Leader", m.reqTerm = term[m.to],
           msgs' = msgs \ {m},
           UNCHANGED <<state, term, late, log, elections, ballots, leaders, storedCommit, applied>>
    PROVE  C!Next
  <1> DEFINE s == m.to
             f == m.from
             match == IF m.lastSent > 0 /\ m.lastSent > matchIndex[s][f]
                      THEN [matchIndex[s] EXCEPT ![f] = m.lastSent]
                      ELSE matchIndex[s]
  <1>1. /\ TypeOK /\ s \in Server /\ f \in Server /\ m.lastSent \in Nat
        /\ matchIndex \in [Server -> [Server -> Nat]]
        /\ term[s] \in Nat /\ log[s] \in Seq(Entry)
    BY MessageFields, Zenon DEF RoleInv, TypeOK
  <1>2. /\ m.success
        /\ matchIndex' = [matchIndex EXCEPT ![s] = match]
        /\ AdvanceCommitIndex(s, log[s], term[s], match)
    BY Zenon DEF AppendAcked, LastAcked
  <1>3. match \in [Server -> Nat]
    BY <1>1, Zenon
  <1>4. \A x \in Server : match[x] = matchIndex[s][x] \/ (x = f /\ match[x] = m.lastSent)
    BY <1>1, Zenon
  <1> HIDE DEF match
  <1>5. matchIndex'[s] = match /\ \A l \in Server : l # s => matchIndex'[l] = matchIndex[l]
    BY <1>1, <1>2, Zenon
  <1>6. <<term[s], s>> \in leaders
    BY <1>1, Zenon DEF RoleInv, LeadersElected
  <1>7. C!Commit(s)
    BY <1>1, <1>2, <1>3, <1>5, <1>6, AdvanceStep, Zenon
  <1>8. MessagesLost
    BY Zenon DEF MessagesLost
  <1>9. Acks' \subseteq Acks
    <2>1. \A x \in msgs' : x.type = "AppendResponse" /\ x.success /\ x.lastSent > 0 =>
             [voter |-> x.from, term |-> x.reqTerm, index |-> x.lastSent] \in Acks
      BY AckTold, Zenon
    <2>2. ASSUME NEW l \in Server, NEW x \in Server,
                 state'[l] = "Leader", l # x, matchIndex'[l][x] > 0
          PROVE  [voter |-> x, term |-> term'[l], index |-> matchIndex'[l][x]] \in Acks
      <3>1. CASE matchIndex'[l][x] = matchIndex[l][x]
        BY <2>2, <3>1, AckCounted, Zenon
      <3>2. CASE l = s /\ x = f /\ matchIndex'[l][x] = m.lastSent
        BY <1>2, <2>2, <3>2, AckTold, Zenon
      <3> QED
        BY <1>4, <1>5, <3>1, <3>2, Zenon
    <2> QED
      BY <2>1, <2>2, AcksFrom, Zenon
  <1>10. C!Decide(s)
    BY <1>7, <1>8, <1>9, RequestsLost, Zenon DEF C!Decide, C!Lossy
  <1> QED
    BY <1>1, <1>10, Zenon DEF C!Next

\* replicateOnce, on the reply.
LEMMA AppendResponsesC ==
    ASSUME RoleInv, LateRequests, NEW m \in msgs \cup late, HandleAppendResponse(m)
    PROVE  C!Next
  <1> USE DEF termVars, leaderVars, history
  <1>1. /\ TypeOK /\ m.to \in Server /\ m.term \in Nat
    BY MessageFields, Zenon DEF RoleInv, TypeOK
  <1>2. /\ m.type = "AppendResponse" /\ msgs' = msgs \ {m}
        /\ UNCHANGED <<log, storedCommit, late, elections, ballots, leaders, applied>>
    BY Zenon DEF HandleAppendResponse
  <1>3. m \in msgs
    BY <1>2, Zenon DEF LateRequests
  <1>4. MessagesLost
    BY <1>2, Zenon DEF MessagesLost
  <1>5. CASE UNCHANGED <<state, term, matchIndex, commitIndex>>
    <2>1. TrackersLost /\ Untouched
      BY <1>2, <1>5, Zenon DEF TrackersLost, Untouched
    <2> QED
      BY <1>1, <1>4, <1>5, <2>1, QuietC, Zenon
  <1>6. CASE AppendStepDown(m.to, m)
    <2>1. /\ m.term > term[m.to]
          /\ term' = [term EXCEPT ![m.to] = m.term]
          /\ state' = [state EXCEPT ![m.to] = "Follower"]
          /\ UNCHANGED <<matchIndex, commitIndex>>
      BY <1>6, Zenon DEF AppendStepDown
    <2>2. m.term >= term[m.to]
      BY <1>1, <2>1 DEF TypeOK
    <2>3. NoNewLeader
      BY <1>1, <2>1, <2>2, StepsDown, Zenon DEF NoNewLeader
    <2>4. TrackersLost /\ Untouched
      BY <1>2, <2>1, <2>3, TrackersKept, Zenon DEF Untouched
    <2> QED
      BY <1>1, <1>4, <2>1, <2>2, <2>4, ObserveStep, Zenon
  <1>7. CASE /\ AppendAcked(m.to, m) /\ state[m.to] = "Leader" /\ m.reqTerm = term[m.to]
             /\ UNCHANGED <<state, term>>
    BY <1>2, <1>3, <1>7, AckStep, Zenon
  <1> QED
    BY <1>5, <1>6, <1>7, Zenon DEF HandleAppendResponse, AppendDiscarded, AppendRejected

\* Both start with nothing said, voted or stored.
LEMMA InitC == Init => C!Init
  <1> SUFFICES ASSUME Init PROVE C!Init
    OBVIOUS
  <1>1. Requests = {}
    BY Zenon DEF Init, Requests
  <1>2. Told = {} /\ Counted = {}
    BY Zenon DEF Init, Told, Counted
  <1>3. Acks = {}
    BY <1>2, Zenon DEF Acks
  <1> QED
    BY <1>1, <1>3, Zenon DEF Init, C!Init

\* Every step of Raft is a step of Consensus or changes nothing there.
LEMMA NextC ==
    ASSUME LoneVoterWins, RoleInv, LateRequests, [Next]_vars
    PROVE  [C!Next]_(C!vars)
  <1>1. ASSUME NEW s \in Server, ElectionTimeout(s) \/ TimeoutNow(s)
        PROVE  C!Next
    BY <1>1, ElectionsC, Zenon DEF RoleInv
  <1>2. ASSUME NEW s \in Server, NEW v \in Value, HandleProposal(s, v)
        PROVE  C!Next
    BY <1>2, ProposalC, Zenon
  <1>3. ASSUME NEW s \in Server, NEW f \in Server, ReplicateOnce(s, f)
        PROVE  C!Next
    BY <1>3, ReplicateC, Zenon
  <1>4. ASSUME NEW s \in Server,
               \/ CheckQuorumStepDown(s) \/ ApplyCommitted(s) \/ FlushCommitIndex(s)
               \/ Crash(s) \/ Start(s)
        PROVE  C!Next
    BY <1>4, ServerC, Zenon
  <1>5. ASSUME NEW m \in msgs \cup late, Handle(m)
        PROVE  C!Next
    <2>1. CASE HandlePreVoteRequest(m) \/ HandleRequestVote(m)
      BY <2>1, VoteRequestsC, Zenon
    <2>2. CASE HandlePreVoteResponse(m) \/ HandleVoteResponse(m) \/ DiscardVoteResponse(m)
      BY <2>2, VoteResponsesC, Zenon
    <2>3. CASE HandleAppendEntries(m)
      BY <2>3, AppendEntriesC, Zenon DEF RoleInv
    <2>4. CASE HandleAppendResponse(m)
      BY <2>4, AppendResponsesC, Zenon
    <2> QED
      BY <1>5, <2>1, <2>2, <2>3, <2>4, Zenon DEF Handle
  <1>6. ASSUME NEW m \in msgs, FailRPC(m)
        PROVE  C!Next
    <2>1. /\ MessagesLost
          /\ UNCHANGED <<state, term, matchIndex, log, elections, ballots, leaders,
                         commitIndex, storedCommit, applied>>
      BY <1>6, Zenon DEF FailRPC, MessagesLost, termVars, leaderVars, commitVars, history
    <2>2. TrackersLost /\ Untouched
      BY <2>1, Zenon DEF TrackersLost, Untouched
    <2> QED
      BY <2>1, <2>2, QuietC, Zenon DEF RoleInv
  <1>7. CASE UNCHANGED vars
    <2>1. UNCHANGED <<state, term, log, elections, ballots, leaders, commitIndex,
                      storedCommit, applied, matchIndex, msgs, late>>
      BY <1>7, Zenon DEF vars, termVars, leaderVars, commitVars, history
    <2>2. Requests' = Requests /\ Acks' = Acks
      BY <2>1, Zenon DEF Requests, Acks, Told, Counted
    <2> QED
      BY <2>1, <2>2, Zenon DEF C!vars
  <1> QED
    BY <1>1, <1>2, <1>3, <1>4, <1>5, <1>6, <1>7, Zenon DEF Next

-----------------------------------------------------------------------------
(* The theorems.                                                           *)

INSTANCE FiniteSetTheorems

\* A lone voter wins without asking anybody.  That is safe only if no learner
\* can do the same.
LoneVoterHasNoLearner == Cardinality(Voters) = 1 => Server = Voters

\* A majority of one is the lone voter, which is the server itself.
LEMMA LoneVoter == LoneVoterHasNoLearner => LoneVoterWins
  <1> SUFFICES ASSUME LoneVoterHasNoLearner, QuorumSize = 1, NEW s \in Server
               PROVE  {s} \in Majorities
    BY Zenon DEF LoneVoterWins
  <1>1. IsFiniteSet(Voters) /\ Cardinality(Voters) \in Nat
    BY ServerAssumption, FS_Subset, FS_CardinalityType, Zenon
  <1>2. Cardinality(Voters) # 0
    BY <1>1, ServerAssumption, FS_EmptySet, Zenon
  <1>3. Cardinality(Voters) = 1
    BY <1>1, <1>2 DEF QuorumSize
  <1>4. Server = Voters
    BY <1>3, Zenon DEF LoneVoterHasNoLearner
  <1>5. PICK v : Voters = {v}
    BY <1>1, <1>3, FS_Singleton, Zenon
  <1>6. Voters = {s}
    BY <1>4, <1>5, Zenon
  <1> QED
    BY <1>3, <1>6 DEF Majorities

\* Two majorities of the voters share one.
LEMMA MajoritiesMeet == C!QuorumsMeet
  <1>1. IsFiniteSet(Voters) /\ Cardinality(Voters) \in Nat
    BY ServerAssumption, FS_Subset, FS_CardinalityType, Zenon
  <1>2. ASSUME NEW P \in Majorities, NEW Q \in Majorities
        PROVE  P \cap Q # {}
    <2>1. /\ P \in SUBSET Voters /\ Q \in SUBSET Voters
          /\ Cardinality(P) >= QuorumSize /\ Cardinality(Q) >= QuorumSize
      BY Zenon DEF Majorities
    <2>2. Cardinality(P) \in Nat /\ Cardinality(Q) \in Nat
      BY <1>1, <2>1, FS_Subset, FS_CardinalityType, Zenon
    <2>3. Cardinality(P) + Cardinality(Q) > Cardinality(Voters)
      BY <1>1, <2>1, <2>2 DEF QuorumSize
    <2> QED
      BY <1>1, <2>1, <2>3, FS_MajoritiesIntersect, Zenon
  <1>3. Majorities \subseteq SUBSET Server
    BY ServerAssumption, Zenon DEF Majorities
  <1> QED
    BY <1>2, <1>3, Zenon DEF C!QuorumsMeet

\* The detailed model implements the abstract one, for every configuration and
\* every bound: each critical section of raft.go is a step of Consensus or none.
THEOREM RaftImplementsConsensus ==
    ASSUME LoneVoterHasNoLearner
    PROVE  Spec => ImplementsConsensus
  <1>1. RoleInv /\ LateRequests /\ [Next]_vars => [C!Next]_(C!vars)
    BY LoneVoter, NextC, Zenon
  <1> QED
    BY <1>1, RolesHold, InitC, PTL DEF Spec, ImplementsConsensus, C!Spec

\* What is proved of Consensus, for the state of Raft.
P == INSTANCE CommitProofs WITH
        Quorum <- Majorities, Value <- Value \cup {Noop}, requests <- Requests, acks <- Acks

\* Both names of the abstract specification mean the same.
LEMMA SameSpec == C!Spec => P!Spec
  <1>1. C!Init => P!Init
    BY Zenon DEF C!Init, P!Init
  <1>2. [C!Next]_(C!vars) => [P!Next]_(P!vars)
    BY Zenon DEF C!Next, C!vars, C!Lossy, C!Committable, C!Elected, C!Commit, C!Decide, C!Flush,
           C!Apply, C!Observe, C!Extend, C!Lead, C!Campaign, C!Vote, C!UpToDate, C!LastTerm,
           C!Win, C!Propose, C!Stretch, C!Send, C!PrevMatches, C!Present, C!Merged, C!Store,
           P!Next, P!vars, P!Lossy, P!Committable, P!Elected, P!Commit, P!Decide, P!Flush,
           P!Apply, P!Observe, P!Extend, P!Lead, P!Campaign, P!Vote, P!UpToDate, P!LastTerm,
           P!Win, P!Propose, P!Stretch, P!Send, P!PrevMatches, P!Present, P!Merged, P!Store
  <1> QED
    BY <1>1, <1>2, PTL DEF C!Spec, P!Spec

\* What is proved of Consensus holds of Raft.
LEMMA Agreed ==
    ASSUME LoneVoterHasNoLearner
    PROVE  Spec => /\ [](RoleInv /\ P!Inv)
                   /\ [](P!ElectionSafety /\ P!LogMatching)
                   /\ [](P!LeaderCompleteness /\ P!StateMachineSafety /\ P!AcksTruthful)
                   /\ [][P!Next]_(P!vars)
  <1>1. P!QuorumsMeet
    BY MajoritiesMeet, Zenon DEF C!QuorumsMeet, P!QuorumsMeet
  <1>2. P!Spec => [](P!ElectionSafety /\ P!LogMatching)
    BY <1>1, P!LogsAgree, Zenon
  <1>3. P!Spec => [](P!Inv /\ P!LogMatching /\ P!LeaderCompleteness /\ P!StateMachineSafety
                     /\ P!AcksTruthful)
    BY <1>1, P!Agreement, Zenon
  <1>4. P!Spec => [][P!Next]_(P!vars)
    BY PTL DEF P!Spec
  <1>5. Spec => C!Spec
    BY RaftImplementsConsensus, Zenon DEF ImplementsConsensus
  <1> QED
    BY <1>2, <1>3, <1>4, <1>5, SameSpec, RolesHold, PTL

\* SPEC.md:231, for every configuration and every bound: no term has two leaders.
THEOREM OneLeaderPerTerm ==
    ASSUME LoneVoterHasNoLearner
    PROVE  Spec => []ElectionSafety
  <1>1. P!ElectionSafety => ElectionSafety
    BY Zenon DEF P!ElectionSafety, ElectionSafety
  <1> QED
    BY <1>1, Agreed, PTL

\* handleAppendEntries: logs with a common entry agree up to it.
THEOREM LogsMatch ==
    ASSUME LoneVoterHasNoLearner
    PROVE  Spec => []LogMatching
  <1>1. P!LogMatching => LogMatching
    BY Zenon DEF P!LogMatching, LogMatching
  <1> QED
    BY <1>1, Agreed, PTL

\* A leader's log holds all that was committed up to its term.
THEOREM LeadersAreComplete ==
    ASSUME LoneVoterHasNoLearner
    PROVE  Spec => []LeaderCompleteness
  <1>1. RoleInv /\ P!LeaderCompleteness => LeaderCompleteness
    BY Zenon DEF P!LeaderCompleteness, P!Elected, LeaderCompleteness, RoleInv, LeadersElected
  <1> QED
    BY <1>1, Agreed, PTL

\* applyCommitted: state machines apply the same entries at the same indexes.
THEOREM StateMachinesAgree ==
    ASSUME LoneVoterHasNoLearner
    PROVE  Spec => []StateMachineSafety
  <1>1. P!StateMachineSafety => StateMachineSafety
    BY Zenon DEF P!StateMachineSafety, StateMachineSafety
  <1> QED
    BY <1>1, Agreed, PTL

\* replicateOnce: what a leader counts is there.
THEOREM MatchIndexIsTrue ==
    ASSUME LoneVoterHasNoLearner
    PROVE  Spec => []MatchIndexTruthful
  <1>1. RoleInv /\ P!AcksTruthful => MatchIndexTruthful
    <2> SUFFICES ASSUME RoleInv, P!AcksTruthful, NEW l \in Server, NEW f \in Server,
                        state[l] = "Leader", f # l, term[f] = term[l]
                 PROVE  /\ matchIndex[l][f] <= Len(log[f])
                        /\ matchIndex[l][f] <= Len(log[l])
                        /\ \A i \in 1..matchIndex[l][f] : log[f][i] = log[l][i]
      BY Zenon DEF MatchIndexTruthful
    <2> DEFINE n == matchIndex[l][f]
    <2>1. /\ n \in Nat /\ Len(log[f]) \in Nat /\ Len(log[l]) \in Nat
      BY DEF RoleInv, TypeOK
    <2>2. P!Elected(l)
      BY Zenon DEF RoleInv, LeadersElected, P!Elected
    <2>3. CASE n > 0
      <3> DEFINE a == [voter |-> f, term |-> term[l], index |-> n]
      <3>1. a \in Acks
        BY <2>3, AckCounted, Zenon
      <3>2. P!Ack(f, term[l], n)
        BY <2>1, <2>3, <3>1 DEF P!Ack
      <3> HIDE DEF n, a
      <3>3. n <= Len(log[f]) /\ n <= Len(log[l]) /\ \A i \in 1..n : log[f][i] = log[l][i]
        BY <2>1, <2>2, <3>2, Zenon DEF P!AcksTruthful
      <3> QED
        BY <3>3, Zenon DEF n
    <2>4. CASE n = 0
      BY <2>1, <2>4
    <2> QED
      BY <2>1, <2>3, <2>4
  <1> QED
    BY <1>1, Agreed, PTL

\* raft.go:3187, for every configuration: a committed entry is never rewritten.
THEOREM CommittedEntriesStay ==
    ASSUME LoneVoterHasNoLearner
    PROVE  Spec => CommittedNeverRewritten
  <1>1. P!QuorumsMeet
    BY MajoritiesMeet, Zenon DEF C!QuorumsMeet, P!QuorumsMeet
  <1>2. P!Inv /\ [P!Next]_(P!vars) => P!CommittedStays
    BY <1>1, P!CommittedKept, Zenon
  <1>3. P!CommittedStays =>
           \A s \in Server :
               /\ commitIndex[s] <= Len(log'[s])
               /\ \A i \in 1..commitIndex[s] : log'[s][i] = log[s][i]
    BY Zenon DEF P!CommittedStays
  <1> QED
    BY <1>2, <1>3, Agreed, PTL DEF CommittedNeverRewritten
=============================================================================
