----------------------------- MODULE RaftTyping -----------------------------
(***************************************************************************)
(* The types of Raft, proved for every set of servers, every log and every *)
(* bound.                                                                  *)
(***************************************************************************)
EXTENDS Raft, TLAPS

-----------------------------------------------------------------------------
(* Types of the operators.                                                 *)

\* A log has a length, and an entry at every index up to it.
LEMMA LengthNat == ASSUME NEW S, NEW q \in Seq(S) PROVE Len(q) \in Nat
  OBVIOUS

\* An element of a sequence is a member of its set.
LEMMA EntryAt == ASSUME NEW S, NEW q \in Seq(S), NEW i \in 1..Len(q) PROVE q[i] \in S
  OBVIOUS

\* What a member of Message is, by its type field.
LEMMA MessageFields ==
    ASSUME NEW m \in Message
    PROVE  /\ m.from \in Server /\ m.to \in Server /\ m.term \in Nat
           /\ m.type = "VoteRequest" =>
                /\ m.lastIndex \in Nat /\ m.lastTerm \in Nat
                /\ m.preVote \in BOOLEAN /\ m.transfer \in BOOLEAN
           /\ m.type = "VoteResponse" =>
                m.granted \in BOOLEAN /\ m.preVote \in BOOLEAN
           /\ m.type = "AppendRequest" =>
                /\ m.prevIndex \in Nat /\ m.prevTerm \in Nat
                /\ m.entries \in Seq(Entry) /\ m.commit \in Nat
           /\ m.type = "AppendResponse" =>
                /\ m.success \in BOOLEAN /\ m.index \in Nat
                /\ m.conflictTerm \in Nat /\ m.reqTerm \in Nat /\ m.lastSent \in Nat
           /\ m.type \in {"VoteRequest", "VoteResponse", "AppendRequest", "AppendResponse"}
  BY Zenon DEF Message

\* The last term of a log, 0 when it is empty, is a term.
LEMMA LastTermType ==
    ASSUME NEW lg \in Seq(Entry)
    PROVE  LastTerm(lg) \in Nat
  <1>1. CASE lg = << >>
    BY <1>1, Zenon DEF LastTerm
  <1>2. CASE lg # << >>
    <2>1. Len(lg) \in 1..Len(lg)
      BY <1>2
    <2>2. lg[Len(lg)] \in Entry
      BY <2>1
    <2> QED
      BY <1>2, <2>2, Zenon DEF LastTerm, Entry
  <1> QED
    BY <1>1, <1>2, Zenon

\* What startElectionWith and startPreVote send is a message.
LEMMA VoteRequestType ==
    ASSUME TypeOK, NEW s \in Server, NEW v \in Server, NEW t \in Nat,
           NEW pre \in BOOLEAN, NEW transfer \in BOOLEAN
    PROVE  VoteRequest(s, v, t, pre, transfer) \in Message
  <1>1. log[s] \in Seq(Entry) /\ Len(log[s]) \in Nat
    BY DEF TypeOK
  <1>2. LastTerm(log[s]) \in Nat
    BY <1>1, LastTermType, Zenon
  <1> QED
    BY <1>1, <1>2, Zenon DEF VoteRequest, Message

\* What handleRequestVote answers is a message.
LEMMA VoteResponseType ==
    ASSUME NEW m \in Message, m.type = "VoteRequest", NEW t \in Nat,
           NEW granted \in BOOLEAN
    PROVE  VoteResponse(m, t, granted) \in Message
  BY MessageFields, Zenon DEF VoteResponse, Message

\* What handleAppendEntries answers is a message.
LEMMA AppendResponseType ==
    ASSUME NEW m \in Message, m.type = "AppendRequest", NEW t \in Nat,
           NEW success \in BOOLEAN, NEW index \in Nat, NEW conflictTerm \in Nat
    PROVE  AppendResponse(m, t, success, index, conflictTerm) \in Message
  <1>1. /\ m.from \in Server /\ m.to \in Server /\ m.term \in Nat
        /\ m.prevIndex \in Nat /\ Len(m.entries) \in Nat
    BY MessageFields
  <1> QED
    BY <1>1 DEF AppendResponse, Message

\* Answering keeps the messages typed.
LEMMA AnswerType ==
    ASSUME msgs \subseteq Message, late \subseteq Message, NEW m, NEW answers,
           answers \subseteq Message, Answer(m, answers)
    PROVE  msgs' \subseteq Message /\ late' \subseteq Message
  BY Zenon DEF Answer

\* Answering a vote request leaves only messages in flight.
LEMMA AnswerVoteType ==
    ASSUME msgs \subseteq Message, late \subseteq Message, NEW m \in Message,
           m.type = "VoteRequest", NEW t \in Nat, NEW granted \in BOOLEAN,
           AnswerVote(m, t, granted)
    PROVE  msgs' \subseteq Message /\ late' \subseteq Message
  BY VoteResponseType, AnswerType, Zenon DEF AnswerVote

\* Answering an AppendEntries request leaves only messages in flight.
LEMMA AnswerAppendType ==
    ASSUME msgs \subseteq Message, late \subseteq Message, NEW m \in Message,
           m.type = "AppendRequest", NEW t \in Nat, NEW success \in BOOLEAN,
           NEW index \in Nat, NEW conflictTerm \in Nat,
           AnswerAppend(m, t, success, index, conflictTerm)
    PROVE  msgs' \subseteq Message /\ late' \subseteq Message
  BY AppendResponseType, AnswerType DEF AnswerAppend

\* advanceCommitIndex leaves commit indexes natural numbers.
LEMMA AdvanceType ==
    ASSUME TypeOK, NEW s \in Server, NEW lg \in Seq(Entry), NEW t, NEW match,
           AdvanceCommitIndex(s, lg, t, match)
    PROVE  commitIndex' \in [Server -> Nat]
  <1>1. commitIndex \in [Server -> Nat] /\ Len(lg) \in Nat
    BY DEF TypeOK
  <1> QED
    BY <1>1 DEF AdvanceCommitIndex

\* becomeLeader keeps the types of everything it sets.
LEMMA BecomeLeaderType ==
    ASSUME TypeOK, NEW s \in Server, NEW t \in Nat, BecomeLeader(s, t)
    PROVE  /\ state' \in [Server -> {"Follower", "Candidate", "Leader", "Learner", "Down"}]
           /\ leaderID' \in [Server -> Server \cup {Nil}]
           /\ log' \in [Server -> Seq(Entry)]
           /\ commitIndex' \in [Server -> Nat]
           /\ nextIndex' \in [Server -> [Server -> Nat \ {0}]]
           /\ matchIndex' \in [Server -> [Server -> Nat]]
           /\ leaders' \subseteq Nat \X Server
  <1> DEFINE e  == [term |-> t, val |-> Noop]
             lg == Append(log[s], e)
  <1>1. log[s] \in Seq(Entry) /\ Len(log[s]) \in Nat
    BY DEF TypeOK
  <1>2. lg \in Seq(Entry)
    BY <1>1 DEF Entry
  <1>3. commitIndex' \in [Server -> Nat]
    <2>1. CASE QuorumSize = 1
      <3> DEFINE match == [f \in Server |-> 0]
      <3>1. AdvanceCommitIndex(s, lg, t, match)
        BY <2>1, Zenon DEF BecomeLeader
      <3> QED
        BY <1>2, <3>1, AdvanceType, Zenon
    <2>2. CASE QuorumSize # 1
      BY <2>2, Zenon DEF BecomeLeader, TypeOK
    <2> QED
      BY <2>1, <2>2, Zenon
  <1>4. log' \in [Server -> Seq(Entry)]
    BY <1>2, Zenon DEF BecomeLeader, TypeOK
  <1>5. [f \in Server |-> Len(log[s]) + 1] \in [Server -> Nat \ {0}]
    BY <1>1
  <1>6. nextIndex' \in [Server -> [Server -> Nat \ {0}]]
    BY <1>5, Zenon DEF BecomeLeader, TypeOK, InitialNext
  <1>7. matchIndex' \in [Server -> [Server -> Nat]]
    <2>1. [f \in Server |-> 0] \in [Server -> Nat]
      OBVIOUS
    <2> QED
      BY <2>1, Zenon DEF BecomeLeader, TypeOK
  <1>8. /\ state' \in [Server -> {"Follower", "Candidate", "Leader", "Learner", "Down"}]
        /\ leaderID' \in [Server -> Server \cup {Nil}]
    BY Zenon DEF BecomeLeader, TypeOK
  <1>9. leaders' \subseteq Nat \X Server
    <2>1. leaders \subseteq Nat \X Server /\ leaders' = leaders \cup {<<t, s>>}
      BY Zenon DEF BecomeLeader, TypeOK
    <2>2. <<t, s>> \in Nat \X Server
      OBVIOUS
    <2> QED
      BY <2>1, <2>2, Zenon
  <1> QED
    BY <1>3, <1>4, <1>6, <1>7, <1>8, <1>9, Zenon

\* The types of the variables that an election sets.
ElectionTypes ==
    /\ state \in [Server -> {"Follower", "Candidate", "Leader", "Learner", "Down"}]
    /\ term \in [Server -> Nat]
    /\ votedFor \in [Server -> Server \cup {Nil}]
    /\ leaderID \in [Server -> Server \cup {Nil}]
    /\ votes \in [Server -> SUBSET Server]
    /\ inPreVote \in [Server -> BOOLEAN]
    /\ log \in [Server -> Seq(Entry)]
    /\ commitIndex \in [Server -> Nat]
    /\ nextIndex \in [Server -> [Server -> Nat \ {0}]]
    /\ matchIndex \in [Server -> [Server -> Nat]]
    /\ msgs \subseteq Message
    /\ elections \subseteq [term : Nat, cand : Server, log : Seq(Entry)]
    /\ ballots \subseteq [term : Nat, voter : Server, cand : Server]
    /\ leaders \subseteq Nat \X Server

\* The types of the others.
OtherTypes ==
    /\ preVotes \in [Server -> SUBSET Server]
    /\ storedCommit \in [Server -> Nat]
    /\ applyIndex \in [Server -> Nat]
    /\ late \subseteq Message
    /\ crashes \in Nat
    /\ deadlines \in Nat
    /\ applied \subseteq Nat \X Entry

\* startElectionWith keeps the types, in both of its outcomes.
LEMMA StartElectionType ==
    ASSUME TypeOK, NEW s \in Server, NEW transfer \in BOOLEAN, NEW rest,
           rest \subseteq Message, StartElection(s, transfer, rest)
    PROVE  ElectionTypes'
  <1> DEFINE t == term[s] + 1
  <1>1. t \in Nat
    BY DEF TypeOK
  <1>2. /\ term' \in [Server -> Nat]
        /\ votedFor' \in [Server -> Server \cup {Nil}]
        /\ votes' \in [Server -> SUBSET Server]
        /\ inPreVote' \in [Server -> BOOLEAN]
        /\ elections' \subseteq [term : Nat, cand : Server, log : Seq(Entry)]
        /\ ballots' \subseteq [term : Nat, voter : Server, cand : Server]
    <2>1. term' \in [Server -> Nat] /\ votedFor' \in [Server -> Server \cup {Nil}]
      BY <1>1, Zenon DEF StartElection, TypeOK
    <2>2. votes' \in [Server -> SUBSET Server]
      BY Zenon DEF StartElection, TypeOK
    <2>3. inPreVote' \in [Server -> BOOLEAN]
      BY Zenon DEF StartElection, TypeOK
    <2>4. ballots' \subseteq [term : Nat, voter : Server, cand : Server]
      BY <1>1 DEF StartElection, TypeOK
    <2>5. elections' \subseteq [term : Nat, cand : Server, log : Seq(Entry)]
      <3>1. [term |-> t, cand |-> s, log |-> log[s]]
               \in [term : Nat, cand : Server, log : Seq(Entry)]
        BY <1>1, Zenon DEF TypeOK
      <3> QED
        BY <3>1, Zenon DEF StartElection, TypeOK
    <2> QED
      BY <2>1, <2>2, <2>3, <2>4, <2>5, Zenon
  <1>3. CASE QuorumSize = 1
    <2>1. BecomeLeader(s, t) /\ msgs' = rest
      BY <1>3, Zenon DEF StartElection
    <2> QED
      BY <1>1, <1>2, <2>1, BecomeLeaderType, Zenon DEF ElectionTypes
  <1>4. CASE QuorumSize # 1
    <2>1. \A v \in Voters \ {s} : VoteRequest(s, v, t, FALSE, transfer) \in Message
      BY <1>1, VoteRequestType, ServerAssumption, Zenon
    <2>2. msgs' = rest \cup {VoteRequest(s, v, t, FALSE, transfer) : v \in Voters \ {s}}
      BY <1>4, Zenon DEF StartElection
    <2>3. msgs' \subseteq Message
      BY <2>1, <2>2, Zenon
    <2>4. /\ state' \in [Server -> {"Follower", "Candidate", "Leader", "Learner", "Down"}]
          /\ leaderID' \in [Server -> Server \cup {Nil}]
      BY <1>4, Zenon DEF StartElection, TypeOK
    <2>5. UNCHANGED <<nextIndex, matchIndex, log, commitIndex, leaders>>
      BY <1>4, Zenon DEF StartElection, leaderVars
    <2> QED
      BY <1>2, <2>3, <2>4, <2>5, Zenon DEF TypeOK, ElectionTypes
  <1> QED
    BY <1>3, <1>4, Zenon

-----------------------------------------------------------------------------
(* Type correctness.                                                       *)

\* Starting an election, by the timer or by TimeoutNow, keeps the types.
LEMMA TypeElections ==
    ASSUME TypeOK, NEW s \in Server, ElectionTimeout(s) \/ TimeoutNow(s)
    PROVE  TypeOK'
  <1>1. msgs \subseteq Message /\ preVotes \in [Server -> SUBSET Server]
    BY Zenon DEF TypeOK
  <1>2. UNCHANGED <<storedCommit, applyIndex, late, crashes, deadlines, applied>>
    BY Zenon DEF ElectionTimeout, TimeoutNow
  <1>3. CASE \E transfer \in BOOLEAN :
               /\ StartElection(s, transfer, msgs)
               /\ preVotes' \in {preVotes, [preVotes EXCEPT ![s] = {s}]}
    <2>1. PICK transfer \in BOOLEAN : StartElection(s, transfer, msgs)
      BY <1>3, Zenon
    <2>2. preVotes' \in [Server -> SUBSET Server]
      BY <1>1, <1>3, Zenon
    <2>3. OtherTypes'
      BY <1>2, <2>2, Zenon DEF TypeOK, OtherTypes
    <2>4. ElectionTypes'
      BY <1>1, <2>1, StartElectionType, Zenon
    <2> QED
      BY <2>3, <2>4, Zenon DEF TypeOK, ElectionTypes, OtherTypes
  <1>4. CASE ElectionTimeout(s) /\ PreVote /\ QuorumSize # 1
    <2>1. /\ state' = [state EXCEPT ![s] = "Candidate"]
          /\ inPreVote' = [inPreVote EXCEPT ![s] = TRUE]
          /\ preVotes' = [preVotes EXCEPT ![s] = {s}]
          /\ msgs' = msgs \cup {VoteRequest(s, v, term[s] + 1, TRUE, FALSE) :
                                   v \in Voters \ {s}}
          /\ UNCHANGED <<term, votedFor, leaderID, votes, elections, ballots, nextIndex,
                         matchIndex, log, commitIndex, leaders>>
      BY <1>4, Zenon DEF ElectionTimeout, StartPreVote, termVars, leaderVars
    <2>2. \A v \in Voters \ {s} :
             VoteRequest(s, v, term[s] + 1, TRUE, FALSE) \in Message
      <3>1. term[s] + 1 \in Nat
        BY DEF TypeOK
      <3> QED
        BY <3>1, VoteRequestType, ServerAssumption, Zenon
    <2>3. msgs' \subseteq Message
      BY <1>1, <2>1, <2>2, Zenon
    <2>4. inPreVote' \in [Server -> BOOLEAN]
      BY <2>1, Zenon DEF TypeOK
    <2>5. preVotes' \in [Server -> SUBSET Server]
      BY <1>1, <2>1, Zenon
    <2>6. state' \in [Server -> {"Follower", "Candidate", "Leader", "Learner", "Down"}]
      BY <2>1, Zenon DEF TypeOK
    <2> QED
      BY <1>2, <2>1, <2>3, <2>4, <2>5, <2>6, Zenon DEF TypeOK
  <1> QED
    BY <1>3, <1>4, Zenon DEF ElectionTimeout, StartPreVote, TimeoutNow

\* handleRequestVote keeps the types, on both of its paths.
LEMMA TypeVoteRequests ==
    ASSUME TypeOK, NEW m \in msgs \cup late,
           HandlePreVoteRequest(m) \/ HandleRequestVote(m)
    PROVE  TypeOK'
  <1>1. /\ m \in Message
        /\ msgs \subseteq Message /\ late \subseteq Message
    BY Zenon DEF TypeOK
  <1>2. m.type = "VoteRequest"
    BY Zenon DEF HandlePreVoteRequest, HandleRequestVote
  <1>3. m.to \in Server /\ m.from \in Server /\ m.term \in Nat
    BY <1>1, MessageFields, Zenon
  <1>4. term[m.to] \in Nat
    BY <1>3, Zenon DEF TypeOK
  <1>5. CASE HandlePreVoteRequest(m)
    <2>1. \E grant \in BOOLEAN : AnswerVote(m, term[m.to], grant)
      BY <1>5, Zenon DEF HandlePreVoteRequest
    <2>2. msgs' \subseteq Message /\ late' \subseteq Message
      BY <1>1, <1>2, <1>4, <2>1, AnswerVoteType, Zenon
    <2> QED
      BY <1>5, <2>2, Zenon DEF HandlePreVoteRequest, TypeOK, termVars, voteVars,
           commitVars, leaderVars, bounds, history
  <1>6. CASE HandleRequestVote(m)
    <2>1. UNCHANGED <<leaderID, voteVars, log, commitVars, leaderVars, bounds,
                      elections, leaders, applied>>
      BY <1>6, Zenon DEF HandleRequestVote
    <2>2. CASE RefuseVote(m)
      <3>1. msgs' \subseteq Message /\ late' \subseteq Message
        BY <1>1, <1>2, <1>4, <2>2, AnswerVoteType, Zenon DEF RefuseVote
      <3>2. UNCHANGED <<state, term, votedFor, ballots>>
        BY <2>2, Zenon DEF RefuseVote, termVars
      <3> QED
        BY <2>1, <3>1, <3>2, Zenon DEF TypeOK, voteVars, commitVars, leaderVars, bounds
    <2>3. CASE ConsiderVote(m)
      <3>1. PICK grant \in BOOLEAN :
              /\ votedFor' = [votedFor EXCEPT ![m.to] =
                    IF grant THEN m.from
                    ELSE IF m.term > term[m.to] THEN Nil ELSE votedFor[m.to]]
              /\ ballots' = IF grant
                            THEN ballots \cup {[term |-> m.term, voter |-> m.to,
                                                cand |-> m.from]}
                            ELSE ballots
              /\ AnswerVote(m, IF grant THEN m.term ELSE term[m.to], grant)
        <4>1. (MayVote(m.to, m) /\ LogOK(m, log[m.to])) \in BOOLEAN
          BY Zenon DEF MayVote, LogOK
        <4> QED
          BY <2>3, <4>1, Zenon DEF ConsiderVote
      <3>2. msgs' \subseteq Message /\ late' \subseteq Message
        BY <1>1, <1>2, <1>3, <1>4, <3>1, AnswerVoteType, Zenon
      <3>3. ballots' \subseteq [term : Nat, voter : Server, cand : Server]
        <4>1. ballots \subseteq [term : Nat, voter : Server, cand : Server]
          BY Zenon DEF TypeOK
        <4>2. [term |-> m.term, voter |-> m.to, cand |-> m.from]
                \in [term : Nat, voter : Server, cand : Server]
          BY <1>3, Zenon
        <4> QED
          BY <3>1, <4>1, <4>2, Zenon
      <3>4. votedFor' \in [Server -> Server \cup {Nil}]
        BY <1>3, <3>1, Zenon DEF TypeOK
      <3>5. /\ term' \in [Server -> Nat]
            /\ state' \in [Server -> {"Follower", "Candidate", "Leader", "Learner", "Down"}]
        BY <1>3, <2>3, Zenon DEF ConsiderVote, TypeOK
      <3> QED
        BY <2>1, <3>2, <3>3, <3>4, <3>5, Zenon
        DEF TypeOK, voteVars, commitVars, leaderVars, bounds
    <2> QED
      BY <1>6, <2>2, <2>3, Zenon DEF HandleRequestVote
  <1> QED
    BY <1>5, <1>6, Zenon

\* A vote reply with a newer term: it is adopted and the vote is dropped.
LEMMA TypeVoteResponses ==
    ASSUME TypeOK, NEW m \in msgs \cup late,
           HandlePreVoteResponse(m) \/ HandleVoteResponse(m) \/ DiscardVoteResponse(m)
    PROVE  TypeOK'
  <1>1. /\ m \in Message
        /\ msgs \subseteq Message /\ msgs \ {m} \subseteq Message
    BY Zenon DEF TypeOK
  <1>2. m.to \in Server /\ m.from \in Server /\ m.term \in Nat
    BY <1>1, MessageFields, Zenon
  <1>3. /\ state \in [Server -> {"Follower", "Candidate", "Leader", "Learner", "Down"}]
        /\ term \in [Server -> Nat]
        /\ votedFor \in [Server -> Server \cup {Nil}]
        /\ votes \in [Server -> SUBSET Server]
        /\ preVotes \in [Server -> SUBSET Server]
        /\ inPreVote \in [Server -> BOOLEAN]
    BY Zenon DEF TypeOK
  <1>4. CASE HandlePreVoteResponse(m)
    <2>1. UNCHANGED <<storedCommit, applyIndex, late, crashes, deadlines, applied>>
      BY <1>4, Zenon DEF HandlePreVoteResponse
    <2>2. preVotes' \in {preVotes, [preVotes EXCEPT ![m.to] = @ \cup {m.from}]}
      BY <1>4, Zenon DEF HandlePreVoteResponse
    <2>3. OtherTypes'
      <3>1. preVotes' \in [Server -> SUBSET Server]
        BY <1>2, <1>3, <2>2
      <3> QED
        BY <2>1, <3>1, Zenon DEF TypeOK, OtherTypes
    <2>4. ASSUME StartElection(m.to, FALSE, msgs \ {m})
          PROVE  ElectionTypes'
      <3> DEFINE rest == msgs \ {m}
      <3>1. rest \subseteq Message /\ StartElection(m.to, FALSE, rest)
        BY <1>1, <2>4, Zenon
      <3> HIDE DEF rest
      <3> QED
        BY <1>2, <3>1, StartElectionType, Zenon
    <2>5. ASSUME term' \in {term, [term EXCEPT ![m.to] = m.term]},
                 state' \in {state, [state EXCEPT ![m.to] = "Follower"]},
                 votedFor' \in {votedFor, [votedFor EXCEPT ![m.to] = Nil]},
                 inPreVote' \in {inPreVote, [inPreVote EXCEPT ![m.to] = FALSE]},
                 msgs' = msgs \ {m},
                 UNCHANGED <<leaderID, votes, elections, ballots, leaderVars, log,
                             commitIndex, leaders>>
          PROVE  ElectionTypes'
      <3>1. inPreVote' \in [Server -> BOOLEAN]
        BY <1>3, <2>5, Zenon
      <3>2. /\ term' \in [Server -> Nat]
            /\ votedFor' \in [Server -> Server \cup {Nil}]
            /\ state' \in [Server -> {"Follower", "Candidate", "Leader", "Learner", "Down"}]
        BY <1>2, <1>3, <2>5, Zenon
      <3>3. /\ msgs' \subseteq Message
            /\ UNCHANGED <<leaderID, votes, elections, ballots, nextIndex, matchIndex, log,
                           commitIndex, leaders>>
        BY <1>1, <2>5, Zenon DEF leaderVars
      <3>4. /\ leaderID' \in [Server -> Server \cup {Nil}]
            /\ votes' \in [Server -> SUBSET Server]
            /\ log' \in [Server -> Seq(Entry)]
            /\ commitIndex' \in [Server -> Nat]
            /\ nextIndex' \in [Server -> [Server -> Nat \ {0}]]
            /\ matchIndex' \in [Server -> [Server -> Nat]]
            /\ elections' \subseteq [term : Nat, cand : Server, log : Seq(Entry)]
            /\ ballots' \subseteq [term : Nat, voter : Server, cand : Server]
            /\ leaders' \subseteq Nat \X Server
        BY <3>3, Zenon DEF TypeOK
      <3> QED
        BY <3>1, <3>2, <3>3, <3>4, Zenon DEF ElectionTypes
    <2>6. \/ StartElection(m.to, FALSE, msgs \ {m})
          \/ /\ term' = [term EXCEPT ![m.to] = m.term]
             /\ state' = [state EXCEPT ![m.to] = "Follower"]
             /\ votedFor' = [votedFor EXCEPT ![m.to] = Nil]
             /\ inPreVote' = [inPreVote EXCEPT ![m.to] = FALSE]
             /\ msgs' = msgs \ {m}
             /\ UNCHANGED <<leaderID, votes, preVotes, elections, ballots, leaderVars,
                            log, commitIndex, leaders>>
          \/ /\ msgs' = msgs \ {m}
             /\ UNCHANGED <<state, termVars, leaderID, votes, inPreVote,
                            elections, ballots, leaderVars, log, commitIndex,
                            leaders>>
      BY <1>4, Zenon DEF HandlePreVoteResponse
    <2>7. ElectionTypes'
      <3>1. CASE /\ msgs' = msgs \ {m}
                 /\ UNCHANGED <<state, termVars, leaderID, votes, inPreVote,
                                elections, ballots, leaderVars, log, commitIndex,
                            leaders>>
        BY <2>5, <3>1, Zenon DEF termVars
      <3>2. CASE /\ term' = [term EXCEPT ![m.to] = m.term]
                 /\ state' = [state EXCEPT ![m.to] = "Follower"]
                 /\ votedFor' = [votedFor EXCEPT ![m.to] = Nil]
                 /\ inPreVote' = [inPreVote EXCEPT ![m.to] = FALSE]
                 /\ msgs' = msgs \ {m}
                 /\ UNCHANGED <<leaderID, votes, preVotes, elections, ballots, leaderVars,
                                log, commitIndex, leaders>>
        BY <2>5, <3>2, Zenon
      <3> QED
        BY <2>4, <2>6, <3>1, <3>2, Zenon
    <2> QED
      BY <2>3, <2>7, Zenon DEF TypeOK, ElectionTypes, OtherTypes
  <1>5. CASE HandleVoteResponse(m)
    <2>1. UNCHANGED <<inPreVote, preVotes, storedCommit, applyIndex, late, bounds,
                      elections, ballots, applied>>
      BY <1>5, Zenon DEF HandleVoteResponse
    <2>2. votes' \in {votes, [votes EXCEPT ![m.to] = @ \cup {m.from}]}
      BY <1>5, Zenon DEF HandleVoteResponse
    <2>3. votes' \in [Server -> SUBSET Server]
      BY <1>2, <1>3, <2>2
    <2>4. /\ term' \in {term, [term EXCEPT ![m.to] = m.term]}
          /\ votedFor' \in {votedFor, [votedFor EXCEPT ![m.to] = Nil]}
      BY <1>5, Zenon DEF HandleVoteResponse, termVars
    <2>5. term' \in [Server -> Nat] /\ votedFor' \in [Server -> Server \cup {Nil}]
      BY <1>2, <1>3, <2>4, Zenon
    <2>6. msgs' \subseteq Message
      BY <1>1, <1>5, Zenon DEF HandleVoteResponse
    <2>7. OtherTypes' /\ UNCHANGED <<inPreVote, elections, ballots>>
      BY <2>1, Zenon DEF TypeOK, OtherTypes, bounds
    <2>8. CASE BecomeLeader(m.to, term[m.to])
      <3>1. term[m.to] \in Nat
        BY <1>2, <1>3, Zenon
      <3>2. /\ state' \in [Server -> {"Follower", "Candidate", "Leader", "Learner", "Down"}]
            /\ leaderID' \in [Server -> Server \cup {Nil}]
            /\ log' \in [Server -> Seq(Entry)]
            /\ commitIndex' \in [Server -> Nat]
            /\ nextIndex' \in [Server -> [Server -> Nat \ {0}]]
            /\ matchIndex' \in [Server -> [Server -> Nat]]
            /\ leaders' \subseteq Nat \X Server
        BY <1>2, <2>8, <3>1, BecomeLeaderType, Zenon
      <3>3. ElectionTypes'
        BY <2>3, <2>5, <2>6, <2>7, <3>2, Zenon DEF TypeOK, ElectionTypes
      <3> QED
        BY <2>7, <3>3, Zenon DEF TypeOK, ElectionTypes, OtherTypes
    <2>9. CASE /\ state' \in {state, [state EXCEPT ![m.to] = "Follower"]}
               /\ UNCHANGED <<leaderID, leaderVars, log, commitIndex, leaders>>
      <3>1. state' \in [Server -> {"Follower", "Candidate", "Leader", "Learner", "Down"}]
        BY <1>2, <1>3, <2>9, Zenon
      <3>2. ElectionTypes'
        BY <2>3, <2>5, <2>6, <2>7, <2>9, <3>1, Zenon DEF TypeOK, ElectionTypes, leaderVars
      <3> QED
        BY <2>7, <3>2, Zenon DEF TypeOK, ElectionTypes, OtherTypes
    <2> QED
      BY <1>5, <2>8, <2>9, Zenon DEF HandleVoteResponse
  <1>6. CASE DiscardVoteResponse(m)
    BY <1>1, <1>6, Zenon DEF DiscardVoteResponse, TypeOK, termVars, voteVars, commitVars,
         leaderVars, bounds, history
  <1> QED
    BY <1>4, <1>5, <1>6, Zenon

\* The steps of one server that look at no message keep the types.
LEMMA TypeSteps ==
    ASSUME TypeOK, NEW s \in Server,
           \/ CheckQuorumStepDown(s)
           \/ \E v \in Value : HandleProposal(s, v)
           \/ ApplyCommitted(s)
           \/ FlushCommitIndex(s)
           \/ Crash(s)
           \/ Start(s)
    PROVE  TypeOK'
  <1> USE DEF termVars, voteVars, commitVars, leaderVars, bounds, history
  <1>1. log[s] \in Seq(Entry) /\ Len(log[s]) \in Nat /\ term[s] \in Nat
    BY DEF TypeOK
  <1>2. CASE CheckQuorumStepDown(s)
    BY <1>2, Zenon DEF CheckQuorumStepDown, TypeOK
  <1>3. ASSUME NEW v \in Value, HandleProposal(s, v)
        PROVE  TypeOK'
    <2> DEFINE lg == Append(log[s], [term |-> term[s], val |-> v])
    <2>1. lg \in Seq(Entry) /\ Len(lg) \in Nat
      BY <1>1 DEF Entry
    <2>2. log' \in [Server -> Seq(Entry)]
      BY <1>3, <2>1, Zenon DEF HandleProposal, TypeOK
    <2>3. commitIndex' \in [Server -> Nat]
      BY <1>3, <2>1, Zenon DEF HandleProposal, TypeOK
    <2> QED
      BY <1>3, <2>2, <2>3, Zenon DEF HandleProposal, TypeOK
  <1>4. CASE ApplyCommitted(s)
    <2>1. /\ applyIndex[s] \in Nat /\ applyIndex[s] < Len(log[s])
          /\ applyIndex' = [applyIndex EXCEPT ![s] = applyIndex[s] + 1]
          /\ applyIndex \in [Server -> Nat]
      BY <1>4, Zenon DEF ApplyCommitted, TypeOK
    <2>6. applyIndex[s] + 1 \in 1..Len(log[s]) /\ applyIndex[s] + 1 \in Nat
      BY <1>1, <2>1
    <2>2. log[s][applyIndex[s] + 1] \in Entry
      BY <1>1, <2>6, EntryAt, Zenon
    <2>3. <<applyIndex[s] + 1, log[s][applyIndex[s] + 1]>> \in Nat \X Entry
      BY <2>2, <2>6, Zenon
    <2>4. applied' \subseteq Nat \X Entry
      BY <1>4, <2>3, Zenon DEF ApplyCommitted, TypeOK
    <2>5. applyIndex' \in [Server -> Nat]
      BY <2>1, <2>6, Zenon
    <2> QED
      BY <1>4, <2>4, <2>5, Zenon DEF ApplyCommitted, TypeOK
  <1>5. CASE FlushCommitIndex(s)
    BY <1>5, Zenon DEF FlushCommitIndex, TypeOK
  <1>6. CASE Crash(s)
    <2>1. 0 \in Nat /\ 1 \in Nat \ {0}
      OBVIOUS
    <2>2. [f \in Server |-> 0] \in [Server -> Nat] /\ [f \in Server |-> 1] \in [Server -> Nat \ {0}]
      BY <2>1, Zenon
    <2>3. /\ state' \in [Server -> {"Follower", "Candidate", "Leader", "Learner", "Down"}]
          /\ leaderID' \in [Server -> Server \cup {Nil}]
          /\ votes' \in [Server -> SUBSET Server] /\ preVotes' \in [Server -> SUBSET Server]
          /\ inPreVote' \in [Server -> BOOLEAN]
      BY <1>6, Zenon DEF Crash, Lose, TypeOK
    <2>4. /\ commitIndex' \in [Server -> Nat] /\ applyIndex' \in [Server -> Nat]
          /\ nextIndex' \in [Server -> [Server -> Nat \ {0}]]
          /\ matchIndex' \in [Server -> [Server -> Nat]]
      BY <1>6, <2>1, <2>2, Zenon DEF Crash, Lose, TypeOK
    <2>5. msgs' \subseteq Message /\ late' \subseteq Message
      BY <1>6, Zenon DEF Crash, Lose, TypeOK
    <2>6. crashes \in Nat /\ crashes' = crashes + 1
      BY <1>6, Zenon DEF Crash, Lose, TypeOK
    <2>7. crashes' \in Nat
      BY <2>6
    <2> QED
      BY <1>6, <2>3, <2>4, <2>5, <2>7, Zenon DEF Crash, Lose, TypeOK
  <1>7. CASE Start(s)
    <2>1. commitIndex' \in [Server -> Nat]
      BY <1>1, <1>7, Zenon DEF Start, TypeOK
    <2> QED
      BY <1>7, <2>1, Zenon DEF Start, TypeOK
  <1> QED
    BY <1>2, <1>3, <1>4, <1>5, <1>6, <1>7, Zenon

\* A failing RPC keeps the types.
LEMMA TypeFailRPC ==
    ASSUME TypeOK, NEW m \in msgs, FailRPC(m)
    PROVE  TypeOK'
  <1>1. msgs' \subseteq Message /\ late' \subseteq Message /\ deadlines' \in Nat
    BY DEF FailRPC, TypeOK
  <1> QED
    BY <1>1, Zenon DEF FailRPC, TypeOK, termVars, voteVars, commitVars, leaderVars, history

\* Sending an AppendEntries request keeps the types.
LEMMA TypeReplicateOnce ==
    ASSUME TypeOK, NEW s \in Server, NEW f \in Server, ReplicateOnce(s, f)
    PROVE  TypeOK'
  <1> DEFINE next == nextIndex[s][f]
             prev == next - 1
  <1>1. /\ log[s] \in Seq(Entry) /\ Len(log[s]) \in Nat /\ term[s] \in Nat
        /\ next \in Nat \ {0} /\ prev \in Nat /\ commitIndex[s] \in Nat
        /\ msgs \subseteq Message
    <2>1. nextIndex[s] \in [Server -> Nat \ {0}]
      BY Zenon DEF TypeOK
    <2>2. next \in Nat \ {0}
      BY <2>1, Zenon
    <2>3. prev \in Nat
      BY <2>2
    <2>4. /\ log[s] \in Seq(Entry) /\ term[s] \in Nat /\ commitIndex[s] \in Nat
          /\ msgs \subseteq Message
      BY Zenon DEF TypeOK
    <2>5. Len(log[s]) \in Nat
      BY <2>4
    <2> QED
      BY <2>2, <2>3, <2>4, <2>5, Zenon
  <1>2. PICK last \in prev..Len(log[s]) :
           msgs' = msgs \cup {
             [type |-> "AppendRequest", from |-> s, to |-> f,
              term |-> term[s], prevIndex |-> prev,
              prevTerm |-> IF prev = 0 THEN 0 ELSE log[s][prev].term,
              entries |-> SubSeq(log[s], next, last),
              commit |-> commitIndex[s]]}
    BY Zenon DEF ReplicateOnce
  <1>3. SubSeq(log[s], next, last) \in Seq(Entry)
    <2>1. \A i \in next..last : log[s][i] \in Entry
      BY <1>1
    <2> QED
      BY <1>1, <2>1
  <1>4. prev # 0 => log[s][prev].term \in Nat
    <2> SUFFICES ASSUME prev # 0 PROVE log[s][prev].term \in Nat
      OBVIOUS
    <2>1. prev \in 1..Len(log[s])
      BY <1>1, <1>2
    <2>2. log[s][prev] \in Entry
      BY <1>1, <2>1
    <2> QED
      BY <2>2, Zenon DEF Entry
  <1> DEFINE prevTerm == IF prev = 0 THEN 0 ELSE log[s][prev].term
             entries  == SubSeq(log[s], next, last)
             request  == [type |-> "AppendRequest", from |-> s, to |-> f,
                          term |-> term[s], prevIndex |-> prev,
                          prevTerm |-> prevTerm, entries |-> entries,
                          commit |-> commitIndex[s]]
  <1>5. msgs' \subseteq Message
    <2>1. prevTerm \in Nat /\ entries \in Seq(Entry) /\ prev \in Nat
      BY <1>1, <1>3, <1>4, Zenon
    <2>2. msgs' = msgs \cup {request}
      BY <1>2, Zenon
    <2> HIDE DEF prev, prevTerm, entries
    <2>3. request \in Message
      BY <1>1, <2>1, Zenon DEF Message
    <2> QED
      BY <1>1, <2>2, <2>3, Zenon
  <1> QED
    BY <1>5, Zenon DEF ReplicateOnce, TypeOK, termVars, voteVars, commitVars, leaderVars,
         bounds, history

\* The log a follower ends up with after storing a request's entries.
LEMMA MergedType ==
    ASSUME TypeOK, NEW m \in Message, m.type = "AppendRequest", NEW s \in Server,
           PrevMatches(s, m)
    PROVE  Merged(s, m) \in Seq(Entry)
  <1>1. /\ log[s] \in Seq(Entry) /\ Len(log[s]) \in Nat
        /\ m.prevIndex \in Nat /\ m.entries \in Seq(Entry) /\ Len(m.entries) \in Nat
        /\ m.prevIndex <= Len(log[s])
    BY MessageFields DEF TypeOK, PrevMatches
  <1>2. \A k \in 1..Len(log[s]) : log[s][k] \in Entry
    BY <1>1
  <1>3. \A i \in 1..Len(m.entries) : m.entries[i] \in Entry
    BY <1>1
  <1> DEFINE n == m.prevIndex + Len(m.entries)
             e(k) == IF \A i \in 1..(k - m.prevIndex) : Present(s, m, i)
                     THEN log[s][k]
                     ELSE m.entries[k - m.prevIndex]
  <1>4. ASSUME NEW k \in 1..n
        PROVE  e(k) \in Entry
    <2>1. CASE k <= m.prevIndex
      <3>1. k \in 1..Len(log[s]) /\ 1..(k - m.prevIndex) = {}
        BY <1>1, <2>1
      <3> QED
        BY <1>2, <3>1, Zenon
    <2>2. CASE k > m.prevIndex
      <3>1. k - m.prevIndex \in 1..Len(m.entries)
        BY <1>1, <2>2
      <3>2. k - m.prevIndex \in 1..(k - m.prevIndex)
        BY <1>1, <2>2
      <3>3. Present(s, m, k - m.prevIndex) => k \in 1..Len(log[s])
        BY <1>1 DEF Present
      <3> QED
        BY <1>2, <1>3, <3>1, <3>2, <3>3, Zenon
    <2> QED
      BY <1>1, <2>1, <2>2
  <1>5. [k \in 1..n |-> e(k)] \in Seq(Entry)
    <2>1. n \in Nat
      BY <1>1
    <2> HIDE DEF n, e
    <2> QED
      BY <1>4, <2>1
  <1> QED
    BY <1>1, <1>5, Zenon DEF Merged

\* handleAppendEntries keeps the types, whatever it answers.
LEMMA TypeAppendEntries ==
    ASSUME TypeOK, NEW m \in msgs \cup late, HandleAppendEntries(m)
    PROVE  TypeOK'
  <1> DEFINE s == m.to
  <1>1. /\ m \in Message
        /\ msgs \subseteq Message /\ late \subseteq Message
    BY Zenon DEF TypeOK
  <1>2. m.type = "AppendRequest"
    BY Zenon DEF HandleAppendEntries
  <1>3. /\ s \in Server /\ m.from \in Server /\ m.term \in Nat
        /\ m.prevIndex \in Nat /\ m.entries \in Seq(Entry) /\ Len(m.entries) \in Nat
        /\ m.commit \in Nat
    BY <1>1, <1>2, MessageFields
  <1>4. /\ term[s] \in Nat /\ log[s] \in Seq(Entry) /\ Len(log[s]) \in Nat
        /\ commitIndex[s] \in Nat
    BY <1>3 DEF TypeOK
  <1>8. Len(log[s]) \in Nat
    BY <1>4, Zenon
  <1>5. UNCHANGED <<voteVars, storedCommit, applyIndex, leaderVars, bounds, history>>
    BY Zenon DEF HandleAppendEntries
  <1>6. CASE RefuseStaleAppend(m)
    <2>1. msgs' \subseteq Message /\ late' \subseteq Message
      BY <1>1, <1>2, <1>4, <1>6, AnswerAppendType, Zenon DEF RefuseStaleAppend
    <2>2. UNCHANGED <<state, term, votedFor, leaderID, log, commitIndex>>
      BY <1>6, Zenon DEF RefuseStaleAppend, termVars
    <2> QED
      BY <1>5, <2>1, <2>2, Zenon DEF TypeOK, voteVars, leaderVars, bounds, history
  <1>7. CASE ObserveLeader(s, m) /\ (RefuseAppend(s, m) \/ AcceptAppend(s, m))
    <2>1. /\ state' \in [Server -> {"Follower", "Candidate", "Leader", "Learner", "Down"}]
          /\ term' \in [Server -> Nat]
      BY <1>3, <1>7, Zenon DEF ObserveLeader, TypeOK
    <2>2. /\ votedFor' \in [Server -> Server \cup {Nil}]
          /\ leaderID' \in [Server -> Server \cup {Nil}]
      BY <1>3, <1>7, Zenon DEF ObserveLeader, TypeOK
    <2>3. /\ log' \in [Server -> Seq(Entry)]
          /\ commitIndex' \in [Server -> Nat]
          /\ msgs' \subseteq Message /\ late' \subseteq Message
      <3>1. ASSUME UNCHANGED <<log, commitIndex>>
            PROVE  log' \in [Server -> Seq(Entry)] /\ commitIndex' \in [Server -> Nat]
        BY <3>1, Zenon DEF TypeOK
      <3>2. ASSUME RefuseAppend(s, m)
            PROVE  \E index, conflictTerm \in Nat :
                      AnswerAppend(m, term[s], FALSE, index, conflictTerm)
        <4>1. CASE m.prevIndex > Len(log[s])
          <5>1. AnswerAppend(m, term[s], FALSE, Len(log[s]) + 1, 0)
            BY <3>2, <4>1, Zenon DEF RefuseAppend
          <5>2. Len(log[s]) + 1 \in Nat /\ 0 \in Nat
            BY <1>8
          <5> QED
            BY <5>1, <5>2, Zenon
        <4>2. CASE ~(m.prevIndex > Len(log[s]))
          <5>1. PICK first \in 1..m.prevIndex :
                   AnswerAppend(m, term[s], FALSE, first, log[s][m.prevIndex].term)
            BY <3>2, <4>2, Zenon DEF RefuseAppend
          <5>5. m.prevIndex \in Nat
            BY <1>3, Zenon
          <5>2. m.prevIndex \in 1..Len(log[s]) /\ first \in Nat
            BY <1>8, <4>2, <5>5
          <5>3. log[s][m.prevIndex] \in Entry
            BY <1>4, <5>2, EntryAt, Zenon
          <5>4. log[s][m.prevIndex].term \in Nat
            BY <5>3, Zenon DEF Entry
          <5> QED
            BY <5>1, <5>2, <5>4, Zenon
        <4> QED
          BY <4>1, <4>2, Zenon
      <3>3. CASE RefuseAppend(s, m)
        <4>1. UNCHANGED <<log, commitIndex>>
          BY <3>3, Zenon DEF RefuseAppend
        <4>2. msgs' \subseteq Message /\ late' \subseteq Message
          BY <1>1, <1>2, <1>4, <3>2, <3>3, AnswerAppendType, Zenon
        <4> QED
          BY <3>1, <4>1, <4>2, Zenon
      <3>4. CASE RefuseOverwrite(s, m)
        <4>1. UNCHANGED <<log, commitIndex>>
          BY <3>4, Zenon DEF RefuseOverwrite
        <4>2. commitIndex[s] + 1 \in Nat
          BY <1>4
        <4>3. msgs' \subseteq Message /\ late' \subseteq Message
          BY <1>1, <1>2, <1>4, <3>4, <4>2, AnswerAppendType, Zenon DEF RefuseOverwrite
        <4> QED
          BY <3>1, <4>1, <4>3, Zenon
      <3>5. CASE PrevMatches(s, m) /\ StoreEntries(s, m)
        <4>1. Merged(s, m) \in Seq(Entry)
          BY <1>1, <1>2, <1>3, <3>5, MergedType, Zenon
        <4>2. Len(Merged(s, m)) \in Nat
          BY <4>1
        <4>3. msgs' \subseteq Message /\ late' \subseteq Message
          BY <1>1, <1>2, <1>3, <3>5, <4>2, AnswerAppendType, Zenon DEF StoreEntries
        <4>4. log' \in [Server -> Seq(Entry)]
          BY <1>3, <3>5, <4>1, Zenon DEF StoreEntries, TypeOK
        <4>5. commitIndex' \in [Server -> Nat]
          <5> DEFINE lastReq == m.prevIndex + Len(m.entries)
                     c == IF m.commit > commitIndex[s]
                          THEN IF m.commit < lastReq THEN m.commit ELSE lastReq
                          ELSE commitIndex[s]
          <5>1. commitIndex' = [commitIndex EXCEPT ![s] = c]
            BY <3>5, Zenon DEF StoreEntries
          <5>2. c \in Nat
            BY <1>3, <1>4
          <5> HIDE DEF c
          <5> QED
            BY <5>1, <5>2, Zenon DEF TypeOK
        <4> QED
          BY <4>3, <4>4, <4>5, Zenon
      <3> QED
        BY <1>7, <3>3, <3>4, <3>5, Zenon DEF AcceptAppend
    <2> QED
      BY <1>5, <2>1, <2>2, <2>3, Zenon DEF TypeOK, voteVars, leaderVars, bounds, history
  <1> QED
    BY <1>6, <1>7, Zenon DEF HandleAppendEntries

\* The handling of an AppendEntries reply keeps the types.
LEMMA TypeAppendResponse ==
    ASSUME TypeOK, NEW m \in msgs \cup late, HandleAppendResponse(m)
    PROVE  TypeOK'
  <1> DEFINE s == m.to
             f == m.from
  <1>1. m \in Message /\ msgs \subseteq Message
    BY Zenon DEF TypeOK
  <1>2. /\ s \in Server /\ f \in Server /\ m.term \in Nat
        /\ m.lastSent \in Nat /\ m.index \in Nat /\ m.conflictTerm \in Nat
    BY <1>1, MessageFields, Zenon DEF HandleAppendResponse
  <1>3. /\ log[s] \in Seq(Entry) /\ Len(log[s]) \in Nat
        /\ nextIndex \in [Server -> [Server -> Nat \ {0}]]
        /\ matchIndex \in [Server -> [Server -> Nat]]
        /\ nextIndex[s][f] \in Nat \ {0}
        /\ matchIndex[s] \in [Server -> Nat] /\ matchIndex[s][f] \in Nat
    <2>1. /\ log \in [Server -> Seq(Entry)]
          /\ nextIndex \in [Server -> [Server -> Nat \ {0}]]
          /\ matchIndex \in [Server -> [Server -> Nat]]
      BY Zenon DEF TypeOK
    <2>2. /\ log[s] \in Seq(Entry)
          /\ nextIndex[s] \in [Server -> Nat \ {0}]
          /\ matchIndex[s] \in [Server -> Nat]
      BY <1>2, <2>1, Zenon
    <2>3. nextIndex[s][f] \in Nat \ {0} /\ matchIndex[s][f] \in Nat
      BY <1>2, <2>2, Zenon
    <2>4. Len(log[s]) \in Nat
      BY <2>2, LengthNat, Zenon
    <2> QED
      BY <2>1, <2>2, <2>3, <2>4, Zenon
  <1>4. /\ UNCHANGED <<voteVars, log, storedCommit, applyIndex, late, bounds, history>>
        /\ msgs' \subseteq Message
    BY <1>1, Zenon DEF HandleAppendResponse
  <1>5. CASE AppendDiscarded(s, m)
    BY <1>4, <1>5, Zenon DEF AppendDiscarded, TypeOK, termVars, leaderVars, voteVars, bounds, history
  <1>6. CASE AppendStepDown(s, m)
    <2>1. /\ state' \in [Server -> {"Follower", "Candidate", "Leader", "Learner", "Down"}]
          /\ term' \in [Server -> Nat]
          /\ votedFor' \in [Server -> Server \cup {Nil}]
          /\ leaderID' \in [Server -> Server \cup {Nil}]
      BY <1>2, <1>6, Zenon DEF AppendStepDown, TypeOK
    <2>2. UNCHANGED <<nextIndex, matchIndex, commitIndex>>
      BY <1>6, Zenon DEF AppendStepDown, leaderVars
    <2> QED
      BY <1>4, <2>1, <2>2, Zenon DEF TypeOK, voteVars, bounds, history
  <1>7. CASE /\ AppendAcked(s, m) \/ AppendRejected(s, m)
             /\ UNCHANGED <<state, termVars, leaderID>>
    <2>1. /\ nextIndex' \in [Server -> [Server -> Nat \ {0}]]
          /\ matchIndex' \in [Server -> [Server -> Nat]]
          /\ commitIndex' \in [Server -> Nat]
      <3>1. CASE AppendAcked(s, m)
        <4> DEFINE match == IF m.lastSent > 0 /\ LastAcked(s, m) > matchIndex[s][f]
                            THEN [matchIndex[s] EXCEPT ![f] = LastAcked(s, m)]
                            ELSE matchIndex[s]
        <4>1. match \in [Server -> Nat]
          BY <1>2, <1>3, Zenon DEF LastAcked
        <4>2. /\ matchIndex' = [matchIndex EXCEPT ![s] = match]
              /\ nextIndex' = IF m.lastSent > 0
                              THEN [nextIndex EXCEPT ![s][f] = match[f] + 1]
                              ELSE nextIndex
              /\ AdvanceCommitIndex(s, log[s], term[s], match)
          BY <3>1, Zenon DEF AppendAcked
        <4> HIDE DEF match
        <4>3. match[f] + 1 \in Nat \ {0}
          BY <1>2, <4>1
        <4>4. nextIndex' \in [Server -> [Server -> Nat \ {0}]]
          BY <1>2, <1>3, <4>2, <4>3, Zenon
        <4>5. matchIndex' \in [Server -> [Server -> Nat]]
          BY <1>3, <4>1, <4>2, Zenon
        <4> QED
          BY <1>2, <1>3, <4>2, <4>4, <4>5, AdvanceType, Zenon
      <3>2. CASE AppendRejected(s, m)
        <4> DEFINE next == nextIndex[s][f]
                   less == IF next > 1 THEN next - 1 ELSE next
                   hint(last) == IF m.conflictTerm > 0 /\ last > 0 THEN last + 1
                                 ELSE IF m.index > 0 THEN m.index ELSE less
        <4>1. \E n \in Nat \ {0} : nextIndex' = [nextIndex EXCEPT ![s][f] = n]
          <5>1. PICK last \in 0..Len(log[s]) :
                   nextIndex' = [nextIndex EXCEPT ![s][f] =
                                    IF hint(last) < next THEN hint(last) ELSE less]
            BY <3>2, Zenon DEF AppendRejected
          <5>2. less \in Nat \ {0} /\ hint(last) \in Nat \ {0}
            <6>1. last \in Nat /\ next \in Nat \ {0}
              BY <1>3
            <6> HIDE DEF next
            <6>2. less \in Nat \ {0}
              BY <6>1
            <6> HIDE DEF less
            <6> QED
              BY <1>2, <6>1, <6>2
          <5>3. (IF hint(last) < next THEN hint(last) ELSE less) \in Nat \ {0}
            BY <5>2, Zenon
          <5> DEFINE n == IF hint(last) < next THEN hint(last) ELSE less
          <5>4. nextIndex' = [nextIndex EXCEPT ![s][f] = n] /\ n \in Nat \ {0}
            BY <5>1, <5>3, Zenon
          <5> HIDE DEF n
          <5> QED
            BY <5>4, Zenon
        <4>2. nextIndex' \in [Server -> [Server -> Nat \ {0}]]
          <5>1. PICK n \in Nat \ {0} : nextIndex' = [nextIndex EXCEPT ![s][f] = n]
            BY <4>1, Zenon
          <5>2. [nextIndex[s] EXCEPT ![f] = n] \in [Server -> Nat \ {0}]
            BY <1>2, <1>3, Zenon
          <5> QED
            BY <1>2, <1>3, <5>1, <5>2, Zenon
        <4> QED
          BY <1>3, <3>2, <4>2, Zenon DEF AppendRejected, TypeOK
      <3> QED
        BY <1>7, <3>1, <3>2, Zenon
    <2> QED
      BY <1>4, <1>7, <2>1, Zenon DEF TypeOK, termVars, voteVars, bounds, history
  <1> QED
    BY <1>5, <1>6, <1>7, Zenon DEF HandleAppendResponse

\* The initial state and every step keep the types.
LEMMA TypeInit == Init => TypeOK
  <1> SUFFICES ASSUME Init PROVE TypeOK
    OBVIOUS
  <1>1. log \in [Server -> Seq(Entry)]
    BY DEF Init
  <1>2. nextIndex \in [Server -> [Server -> Nat \ {0}]]
    BY DEF Init
  <1>3. matchIndex \in [Server -> [Server -> Nat]]
    BY Zenon DEF Init
  <1>4. votes \in [Server -> SUBSET Server] /\ preVotes \in [Server -> SUBSET Server]
    BY Zenon DEF Init
  <1>5. inPreVote \in [Server -> BOOLEAN]
    BY Zenon DEF Init
  <1> QED
    BY <1>1, <1>2, <1>3, <1>4, <1>5, Zenon DEF Init, TypeOK

\* Every step keeps the types.
LEMMA TypeNext == TypeOK /\ [Next]_vars => TypeOK'
  <1> SUFFICES ASSUME TypeOK, [Next]_vars PROVE TypeOK'
    OBVIOUS
  <1>1. ASSUME NEW s \in Server, ElectionTimeout(s) \/ TimeoutNow(s)
        PROVE  TypeOK'
    BY <1>1, TypeElections, Zenon
  <1>2. ASSUME NEW s \in Server,
               \/ CheckQuorumStepDown(s)
               \/ \E v \in Value : HandleProposal(s, v)
               \/ ApplyCommitted(s)
               \/ FlushCommitIndex(s)
               \/ Crash(s)
               \/ Start(s)
        PROVE  TypeOK'
    BY <1>2, TypeSteps, Zenon
  <1>3. ASSUME NEW s \in Server, NEW f \in Server, ReplicateOnce(s, f)
        PROVE  TypeOK'
    BY <1>3, TypeReplicateOnce, Zenon
  <1>4. ASSUME NEW m \in msgs \cup late, Handle(m)
        PROVE  TypeOK'
    <2>1. CASE HandlePreVoteRequest(m) \/ HandleRequestVote(m)
      BY <2>1, TypeVoteRequests, Zenon
    <2>2. CASE \/ HandlePreVoteResponse(m)
               \/ HandleVoteResponse(m)
               \/ DiscardVoteResponse(m)
      BY <2>2, TypeVoteResponses, Zenon
    <2>3. CASE HandleAppendEntries(m)
      BY <2>3, TypeAppendEntries, Zenon
    <2>4. CASE HandleAppendResponse(m)
      BY <2>4, TypeAppendResponse, Zenon
    <2> QED
      BY <1>4, <2>1, <2>2, <2>3, <2>4, Zenon DEF Handle
  <1>5. ASSUME NEW m \in msgs, FailRPC(m)
        PROVE  TypeOK'
    BY <1>5, TypeFailRPC, Zenon
  <1>6. CASE UNCHANGED vars
    BY <1>6, Zenon DEF TypeOK, vars, termVars, voteVars, commitVars, leaderVars, bounds, history
  <1> QED
    BY <1>1, <1>2, <1>3, <1>4, <1>5, <1>6, Zenon DEF Next

\* The variables of raft.go keep their types through every handler, for any
\* number of servers and any bound.
THEOREM Typing == Spec => []TypeOK
  BY TypeInit, TypeNext, PTL DEF Spec
=============================================================================
