----------------------------- MODULE ReadsProofs -----------------------------
(***************************************************************************)
(* The two ways raft.go serves a linearizable read.  ReadIndex confirmed   *)
(* by heartbeats is fresh, for every set of voters and whatever messages   *)
(* are lost, delayed and reordered.  The leader lease of three voters is   *)
(* sound for every election timeout, drift margin and delay, as long as an *)
(* acknowledgement takes no longer than the part of the election timeout   *)
(* that the lease leaves out.                                              *)
(***************************************************************************)
EXTENDS Reads, Lease, FiniteSetTheorems, TLAPS

-----------------------------------------------------------------------------
(* Helpers                                                                 *)

\* Two majorities of the voters share one.
LEMMA QuorumsMeet ==
    ASSUME NEW p \in SUBSET Voters, NEW q \in SUBSET Voters, IsQuorum(p), IsQuorum(q)
    PROVE  \E v \in Voters : v \in p /\ v \in q
  <1>1. /\ IsFiniteSet(p) /\ IsFiniteSet(q) /\ IsFiniteSet(Voters)
    BY ReadAssumption, FS_Subset, Zenon
  <1>2. Cardinality(p) \in Nat /\ Cardinality(q) \in Nat /\ Cardinality(Voters) \in Nat
    BY <1>1, FS_CardinalityType, Zenon
  <1>3. Cardinality(p) + Cardinality(q) > Cardinality(Voters)
    BY <1>2 DEF IsQuorum
  <1> QED
    BY <1>1, <1>3, FS_MajoritiesIntersect, Zenon

\* The larger of two numbers is a number.
LEMMA MaxOfTwo ==
    ASSUME NEW a \in Nat, NEW b \in Nat
    PROVE  Max({a, b}) \in Nat
  <1>1. \E x \in {a, b} : \A y \in {a, b} : x >= y
    OBVIOUS
  <1> QED
    BY <1>1, Zenon DEF Max

\* So is the smaller.
LEMMA MinOfTwo ==
    ASSUME NEW a \in Nat, NEW b \in Nat
    PROVE  Min({a, b}) \in Nat
  <1>1. \E x \in {a, b} : \A y \in {a, b} : x <= y
    OBVIOUS
  <1> QED
    BY <1>1, Zenon DEF Min

-----------------------------------------------------------------------------
(* Types                                                                   *)

\* Heartbeats and their answers.
Message == [type : {"heartbeat", "answer"}, from : Voters, to : Voters, term : Nat,
            ok : BOOLEAN, commit : Nat, after : BOOLEAN]

\* The read that is being confirmed.
ReadRecord == [at : Voters, step : {"none", "waiting", "served"}, index : Nat,
               acks : SUBSET Voters, late : BOOLEAN, again : BOOLEAN, own : BOOLEAN,
               needs : Nat]

\* Types.
ReadTypeOK ==
    /\ vterm \in [Voters -> Nat] /\ holds \in [Voters -> Nat] /\ knows \in [Voters -> Nat]
    /\ leads \in [Voters -> BOOLEAN] /\ owns \in [Voters -> BOOLEAN]
    /\ writes \in Nat
    /\ wire \subseteq Message
    /\ read \in ReadRecord

\* No read has the type of one.
LEMMA NoReadType == NoRead \in ReadRecord
  <1>1. FirstLeader \in Voters
    BY ReadAssumption, Zenon DEF FirstLeader
  <1> QED
    BY <1>1, Zenon DEF NoRead, ReadRecord

\* Types hold at first.
LEMMA ReadTypeInit == ReadInit => ReadTypeOK
  BY NoReadType DEF ReadInit, ReadTypeOK

\* An election keeps the types.
LEMMA ElectType ==
    ASSUME ReadTypeOK, NEW n \in Voters, NEW q \in SUBSET Voters, Elect(n, q)
    PROVE  ReadTypeOK'
  <1>1. PICK u \in q :
          /\ vterm' = [v \in Voters |-> IF v \in q THEN vterm[u] + 1 ELSE vterm[v]]
          /\ leads' = [v \in Voters |-> IF v \in q THEN v = n ELSE leads[v]]
          /\ owns' = [owns EXCEPT ![n] = FALSE]
          /\ read' = [read EXCEPT !.again = @ \/ (read.step = "waiting" /\ read.at = n)]
          /\ UNCHANGED <<holds, knows, writes, wire>>
    BY Zenon DEF Elect
  <1>2. vterm' \in [Voters -> Nat]
    BY <1>1 DEF ReadTypeOK
  <1>3. leads' \in [Voters -> BOOLEAN] /\ owns' \in [Voters -> BOOLEAN]
    BY <1>1, Zenon DEF ReadTypeOK
  <1>4. read' \in ReadRecord
    BY <1>1, Zenon DEF ReadTypeOK, ReadRecord
  <1> QED
    BY <1>1, <1>2, <1>3, <1>4, Zenon DEF ReadTypeOK

\* So does a commitment,
LEMMA CommitType ==
    ASSUME ReadTypeOK, NEW n \in Voters, NEW q \in SUBSET Voters, NEW w \in {0, 1},
           CommitEntry(n, q, w)
    PROVE  ReadTypeOK'
  <1>1. writes' \in Nat /\ vterm' \in [Voters -> Nat]
    BY DEF ReadTypeOK, CommitEntry
  <1>2. holds' \in [Voters -> Nat] /\ knows' \in [Voters -> Nat]
    BY <1>1, Zenon DEF ReadTypeOK, CommitEntry
  <1>3. leads' \in [Voters -> BOOLEAN] /\ owns' \in [Voters -> BOOLEAN]
    BY Zenon DEF ReadTypeOK, CommitEntry
  <1> QED
    BY <1>1, <1>2, <1>3, Zenon DEF ReadTypeOK, CommitEntry

\* a heartbeat sent,
LEMMA SendType ==
    ASSUME ReadTypeOK, NEW n \in Voters, NEW v \in Voters, SendHeartbeat(n, v)
    PROVE  ReadTypeOK'
  <1> DEFINE m == [type |-> "heartbeat", from |-> n, to |-> v, term |-> vterm[n],
                   ok |-> TRUE, commit |-> knows[n],
                   after |-> (read.step = "waiting" /\ read.at = n)]
  <1>1. m \in Message
    BY Zenon DEF ReadTypeOK, Message
  <1>2. wire' = wire \cup {m}
    BY Zenon DEF SendHeartbeat
  <1> QED
    BY <1>1, <1>2, Zenon DEF ReadTypeOK, SendHeartbeat

\* a heartbeat received,
LEMMA HeartbeatType ==
    ASSUME ReadTypeOK, NEW m \in wire, HandleHeartbeat(m)
    PROVE  ReadTypeOK'
  <1> DEFINE v  == m.to
             ok == m.term >= vterm[v]
             a  == [type |-> "answer", from |-> v, to |-> m.from,
                    term |-> IF ok THEN m.term ELSE vterm[v], ok |-> ok,
                    commit |-> 0, after |-> m.after]
  <1>1. m \in Message
    BY Zenon DEF ReadTypeOK
  <1>2. a \in Message
    BY <1>1 DEF ReadTypeOK, Message
  <1>3. wire' = (wire \ {m}) \cup {a}
    BY Zenon DEF HandleHeartbeat
  <1>4. vterm' \in [Voters -> Nat]
    BY <1>1, Zenon DEF ReadTypeOK, HandleHeartbeat, Message
  <1>5. leads' \in [Voters -> BOOLEAN]
    BY <1>1, Zenon DEF ReadTypeOK, HandleHeartbeat
  <1>6. knows' \in [Voters -> Nat]
    <2>1. m.commit \in Nat /\ holds[v] \in Nat /\ knows[v] \in Nat
      BY <1>1, Zenon DEF ReadTypeOK, Message
    <2>2. Max({knows[v], Min({m.commit, holds[v]})}) \in Nat
      BY <2>1, MaxOfTwo, MinOfTwo, Zenon
    <2> QED
      BY <2>2, Zenon DEF ReadTypeOK, HandleHeartbeat
  <1> QED
    BY <1>2, <1>3, <1>4, <1>5, <1>6, Zenon DEF ReadTypeOK, HandleHeartbeat

\* an answer received,
LEMMA AnswerType ==
    ASSUME ReadTypeOK, NEW m \in wire, HandleAnswer(m)
    PROVE  ReadTypeOK'
  <1>1. m \in Message
    BY Zenon DEF ReadTypeOK
  <1>2. vterm' \in [Voters -> Nat]
    BY <1>1, Zenon DEF ReadTypeOK, HandleAnswer, Message
  <1>3. leads' \in [Voters -> BOOLEAN]
    BY <1>1, Zenon DEF ReadTypeOK, HandleAnswer
  <1>4. read' \in ReadRecord
    BY <1>1, Zenon DEF ReadTypeOK, HandleAnswer, Message, ReadRecord
  <1> QED
    BY <1>2, <1>3, <1>4, Zenon DEF ReadTypeOK, HandleAnswer

\* the start of a read,
LEMMA BeginType ==
    ASSUME ReadTypeOK, NEW n \in Voters, BeginRead(n)
    PROVE  ReadTypeOK'
  <1>1. read' \in ReadRecord
    BY Zenon DEF ReadTypeOK, BeginRead, ReadRecord
  <1>2. \A m \in Message : [m EXCEPT !.after = FALSE] \in Message
    BY Zenon DEF Message
  <1>3. wire' = {[m EXCEPT !.after = FALSE] : m \in wire} /\ wire \subseteq Message
    BY Zenon DEF ReadTypeOK, BeginRead
  <1>4. wire' \subseteq Message
    BY <1>2, <1>3, Zenon
  <1> QED
    BY <1>1, <1>4, Zenon DEF ReadTypeOK, BeginRead

\* its end,
LEMMA ServeType ==
    ASSUME ReadTypeOK, ServeRead \/ FailRead
    PROVE  ReadTypeOK'
  <1>1. read' \in ReadRecord
    BY NoReadType, Zenon DEF ReadTypeOK, ServeRead, FailRead, ReadRecord
  <1> QED
    BY <1>1, Zenon DEF ReadTypeOK, ServeRead, FailRead

\* and the loss of a message.
LEMMA LoseType ==
    ASSUME ReadTypeOK, NEW m \in wire, Lose(m)
    PROVE  ReadTypeOK'
  BY Zenon DEF ReadTypeOK, Lose

-----------------------------------------------------------------------------
(* Leaders and terms                                                       *)

\* A majority has reached the term of every leader.
LeadersBacked ==
    \A n \in Voters : leads[n] =>
        \E q \in SUBSET Voters : IsQuorum(q) /\ \A v \in q : vterm[v] >= vterm[n]

\* No two nodes lead in one term.
OneLeader ==
    \A n, m \in Voters : leads[n] /\ leads[m] /\ vterm[n] = vterm[m] => n = m

\* A majority has left the term of node n behind.
Overtaken(n) ==
    \E q \in SUBSET Voters : IsQuorum(q) /\ \A v \in q : vterm[v] > vterm[n]

\* A leader that committed in its term knows of every write, unless it has been
\* overtaken.
OwnersKnow ==
    \A n \in Voters : leads[n] /\ owns[n] => knows[n] = writes \/ Overtaken(n)

\* The inductive invariant of leaders.
LeaderInv == LeadersBacked /\ OneLeader /\ OwnersKnow

\* No step takes a term back.
TermsGrow == \A v \in Voters : vterm'[v] >= vterm[v]

\* A step that makes no leader, and after which those that still lead are as they
\* were, keeps the invariant.
LEMMA LeadersStay ==
    ASSUME ReadTypeOK, ReadTypeOK', LeaderInv, TermsGrow, writes' = writes,
           \A n \in Voters : leads'[n] =>
                /\ leads[n] /\ vterm'[n] = vterm[n]
                /\ owns'[n] = owns[n] /\ knows'[n] = knows[n]
    PROVE  LeaderInv'
  <1>1. \A v \in Voters : vterm[v] \in Nat /\ vterm'[v] \in Nat
    BY Zenon DEF ReadTypeOK
  <1>2. LeadersBacked'
    <2> SUFFICES ASSUME NEW n \in Voters, leads'[n]
                 PROVE  \E q \in SUBSET Voters : IsQuorum(q) /\ \A v \in q : vterm'[v] >= vterm'[n]
      BY Zenon DEF LeadersBacked, IsQuorum
    <2>1. PICK q \in SUBSET Voters : IsQuorum(q) /\ \A v \in q : vterm[v] >= vterm[n]
      BY Zenon DEF LeaderInv, LeadersBacked
    <2>2. \A v \in q : vterm'[v] >= vterm'[n]
      BY <1>1, <2>1 DEF TermsGrow
    <2> QED
      BY <2>1, <2>2, Zenon
  <1>3. OneLeader'
    BY Zenon DEF LeaderInv, OneLeader
  <1>4. OwnersKnow'
    <2> SUFFICES ASSUME NEW n \in Voters, leads'[n], owns'[n], ~Overtaken(n)'
                 PROVE  knows'[n] = writes'
      BY Zenon DEF OwnersKnow
    <2>1. ~Overtaken(n)
      <3> SUFFICES ASSUME NEW q \in SUBSET Voters, IsQuorum(q), \A v \in q : vterm[v] > vterm[n]
                   PROVE  FALSE
        BY Zenon DEF Overtaken
      <3>1. \A v \in q : vterm'[v] > vterm'[n]
        BY <1>1 DEF TermsGrow
      <3> QED
        BY <3>1, Zenon DEF Overtaken, IsQuorum
    <2> QED
      BY <2>1, Zenon DEF LeaderInv, OwnersKnow
  <1> QED
    BY <1>2, <1>3, <1>4, Zenon DEF LeaderInv

\* becomeLeader: the new term is new to the voters, and every leader has a
\* majority behind it, so no leader has the new term.
LEMMA ElectLeader ==
    ASSUME ReadTypeOK, ReadTypeOK', LeaderInv,
           NEW n \in Voters, NEW q \in SUBSET Voters, Elect(n, q)
    PROVE  LeaderInv' /\ TermsGrow
  <1>1. PICK u \in q :
          /\ n \in q /\ IsQuorum(q)
          /\ \A v \in q : vterm[v] < vterm[u] + 1
          /\ vterm' = [v \in Voters |-> IF v \in q THEN vterm[u] + 1 ELSE vterm[v]]
          /\ leads' = [v \in Voters |-> IF v \in q THEN v = n ELSE leads[v]]
          /\ owns' = [owns EXCEPT ![n] = FALSE]
          /\ UNCHANGED <<knows, writes>>
    BY Zenon DEF Elect
  <1>2. \A v \in Voters : vterm[v] \in Nat /\ vterm'[v] \in Nat
    BY Zenon DEF ReadTypeOK
  <1>3. TermsGrow
    BY <1>1, <1>2 DEF TermsGrow
  <1>4. \A m \in Voters : leads'[m] /\ m # n =>
            leads[m] /\ m \notin q /\ vterm'[m] = vterm[m] /\ owns'[m] = owns[m]
    BY <1>1, Zenon DEF ReadTypeOK
  <1>5. \A m \in Voters : leads'[m] /\ m # n => vterm[m] # vterm[u] + 1
    <2> SUFFICES ASSUME NEW m \in Voters, leads'[m], m # n, vterm[m] = vterm[u] + 1 PROVE FALSE
      OBVIOUS
    <2>1. PICK p \in SUBSET Voters : IsQuorum(p) /\ \A v \in p : vterm[v] >= vterm[m]
      BY <1>4, Zenon DEF LeaderInv, LeadersBacked
    <2>2. PICK v \in Voters : v \in p /\ v \in q
      BY <1>1, <2>1, QuorumsMeet, Zenon
    <2> QED
      BY <1>1, <1>2, <2>1, <2>2
  <1>6. vterm'[n] = vterm[u] + 1 /\ \A v \in q : vterm'[v] = vterm[u] + 1
    BY <1>1, Zenon
  <1>7. LeadersBacked'
    <2> SUFFICES ASSUME NEW m \in Voters, leads'[m]
                 PROVE  \E p \in SUBSET Voters : IsQuorum(p) /\ \A v \in p : vterm'[v] >= vterm'[m]
      BY Zenon DEF LeadersBacked, IsQuorum
    <2>1. CASE m = n
      BY <1>1, <1>2, <1>6, <2>1
    <2>2. CASE m # n
      <3>1. PICK p \in SUBSET Voters : IsQuorum(p) /\ \A v \in p : vterm[v] >= vterm[m]
        BY <1>4, <2>2, Zenon DEF LeaderInv, LeadersBacked
      <3>2. \A v \in p : vterm'[v] >= vterm'[m]
        BY <1>2, <1>3, <1>4, <2>2, <3>1 DEF TermsGrow
      <3> QED
        BY <3>1, <3>2, Zenon
    <2> QED
      BY <2>1, <2>2, Zenon
  <1>8. OneLeader'
    BY <1>4, <1>5, <1>6, Zenon DEF LeaderInv, OneLeader
  <1>9. OwnersKnow'
    <2> SUFFICES ASSUME NEW m \in Voters, leads'[m], owns'[m], ~Overtaken(m)'
                 PROVE  knows'[m] = writes'
      BY Zenon DEF OwnersKnow
    <2>1. m # n
      BY <1>1, Zenon DEF ReadTypeOK
    <2>2. ~Overtaken(m)
      <3> SUFFICES ASSUME NEW p \in SUBSET Voters, IsQuorum(p), \A v \in p : vterm[v] > vterm[m]
                   PROVE  FALSE
        BY Zenon DEF Overtaken
      <3>1. \A v \in p : vterm'[v] > vterm'[m]
        BY <1>2, <1>3, <1>4, <2>1 DEF TermsGrow
      <3> QED
        BY <3>1, Zenon DEF Overtaken, IsQuorum
    <2> QED
      BY <1>1, <1>4, <2>1, <2>2, Zenon DEF LeaderInv, OwnersKnow
  <1> QED
    BY <1>3, <1>7, <1>8, <1>9, Zenon DEF LeaderInv

\* advanceCommitIndex: another leader that is not among the majority that stores
\* the entry is of an earlier term, and is overtaken by that majority.
LEMMA CommitLeader ==
    ASSUME ReadTypeOK, ReadTypeOK', LeaderInv,
           NEW n \in Voters, NEW q \in SUBSET Voters, NEW w \in {0, 1}, CommitEntry(n, q, w)
    PROVE  LeaderInv' /\ TermsGrow
  <1>1. /\ leads[n] /\ n \in q /\ IsQuorum(q)
        /\ \A v \in q : vterm[v] <= vterm[n]
        /\ knows' = [knows EXCEPT ![n] = writes']
        /\ owns' = [owns EXCEPT ![n] = TRUE]
        /\ vterm' = [v \in Voters |-> IF v \in q THEN vterm[n] ELSE vterm[v]]
        /\ leads' = [v \in Voters |-> IF v \in q THEN v = n ELSE leads[v]]
    BY Zenon DEF CommitEntry
  <1>2. \A v \in Voters : vterm[v] \in Nat /\ vterm'[v] \in Nat
    BY Zenon DEF ReadTypeOK
  <1>3. TermsGrow
    BY <1>1, <1>2 DEF TermsGrow
  <1>4. \A m \in Voters : leads'[m] => leads[m] /\ vterm'[m] = vterm[m] /\ (m # n => m \notin q)
    BY <1>1, Zenon
  <1>5. \A m \in Voters : leads'[m] /\ m # n => vterm[m] < vterm[n]
    <2> SUFFICES ASSUME NEW m \in Voters, leads'[m], m # n, vterm[m] >= vterm[n] PROVE FALSE
      BY <1>2
    <2>1. vterm[m] > vterm[n]
      BY <1>1, <1>2, <1>4 DEF LeaderInv, OneLeader
    <2>2. PICK p \in SUBSET Voters : IsQuorum(p) /\ \A v \in p : vterm[v] >= vterm[m]
      BY <1>4, Zenon DEF LeaderInv, LeadersBacked
    <2>3. PICK v \in Voters : v \in p /\ v \in q
      BY <1>1, <2>2, QuorumsMeet, Zenon
    <2> QED
      BY <1>1, <1>2, <2>1, <2>2, <2>3
  <1>6. LeadersBacked'
    <2> SUFFICES ASSUME NEW m \in Voters, leads'[m]
                 PROVE  \E p \in SUBSET Voters : IsQuorum(p) /\ \A v \in p : vterm'[v] >= vterm'[m]
      BY Zenon DEF LeadersBacked, IsQuorum
    <2>1. PICK p \in SUBSET Voters : IsQuorum(p) /\ \A v \in p : vterm[v] >= vterm[m]
      BY <1>4, Zenon DEF LeaderInv, LeadersBacked
    <2>2. \A v \in p : vterm'[v] >= vterm'[m]
      BY <1>2, <1>3, <1>4, <2>1 DEF TermsGrow
    <2> QED
      BY <2>1, <2>2, Zenon
  <1>7. OneLeader'
    BY <1>4, Zenon DEF LeaderInv, OneLeader
  <1>8. OwnersKnow'
    <2> SUFFICES ASSUME NEW m \in Voters, leads'[m], owns'[m]
                 PROVE  knows'[m] = writes' \/ Overtaken(m)'
      BY Zenon DEF OwnersKnow
    <2>1. CASE m = n
      BY <1>1, <2>1, Zenon DEF ReadTypeOK
    <2>2. CASE m # n
      <3>1. \A v \in q : vterm'[v] > vterm'[m]
        BY <1>1, <1>2, <1>4, <1>5, <2>2, Zenon
      <3> QED
        BY <1>1, <3>1, Zenon DEF Overtaken, IsQuorum
    <2> QED
      BY <2>1, <2>2, Zenon
  <1> QED
    BY <1>3, <1>6, <1>7, <1>8, Zenon DEF LeaderInv

\* A heartbeat received keeps it.
LEMMA HeartbeatLeader ==
    ASSUME ReadTypeOK, ReadTypeOK', LeaderInv, NEW m \in wire, HandleHeartbeat(m)
    PROVE  LeaderInv' /\ TermsGrow
  <1>1. m \in Message
    BY Zenon DEF ReadTypeOK
  <1>2. TermsGrow
    BY <1>1 DEF TermsGrow, HandleHeartbeat, ReadTypeOK, Message
  <1>3. \A n \in Voters : leads'[n] =>
            leads[n] /\ vterm'[n] = vterm[n] /\ owns'[n] = owns[n] /\ knows'[n] = knows[n]
    BY <1>1, Zenon DEF HandleHeartbeat, ReadTypeOK, Message
  <1> QED
    BY <1>2, <1>3, LeadersStay, Zenon DEF HandleHeartbeat

\* So does an answer.
LEMMA AnswerLeader ==
    ASSUME ReadTypeOK, ReadTypeOK', LeaderInv, NEW m \in wire, HandleAnswer(m)
    PROVE  LeaderInv' /\ TermsGrow
  <1>1. m \in Message
    BY Zenon DEF ReadTypeOK
  <1>2. TermsGrow
    BY <1>1 DEF TermsGrow, HandleAnswer, ReadTypeOK, Message
  <1>3. \A n \in Voters : leads'[n] =>
            leads[n] /\ vterm'[n] = vterm[n] /\ owns'[n] = owns[n] /\ knows'[n] = knows[n]
    BY <1>1, Zenon DEF HandleAnswer, ReadTypeOK, Message
  <1> QED
    BY <1>2, <1>3, LeadersStay, Zenon DEF HandleAnswer

-----------------------------------------------------------------------------
(* The read                                                                *)

\* An acknowledgement in flight that the waiting read would count, of a heartbeat
\* sent after it began.
Confirms(m, v) ==
    /\ m.type = "answer" /\ m.from = v /\ m.to = read.at
    /\ m.after /\ m.ok /\ m.term = vterm[read.at]

\* The read still claims what ConfirmedReadIsFresh is about.
Claims == ~read.late /\ ~read.again /\ read.own

\* A majority that left the leader's term behind before the read began, and none
\* of which confirms the read.
Refuses(q) ==
    /\ IsQuorum(q)
    /\ \A v \in q : /\ vterm[v] > vterm[read.at] /\ v \notin read.acks
                    /\ \A m \in wire : ~Confirms(m, v)

\* A read that waits is fresh, or a majority will not confirm it.
ReadBacked ==
    read.step = "waiting" /\ Claims /\ leads[read.at] =>
        read.index >= read.needs \/ \E q \in SUBSET Voters : Refuses(q)

\* A step that leaves the read alone and adds no acknowledgement of a node that
\* has left the term.
LEMMA ReadStays ==
    ASSUME ReadTypeOK, ReadTypeOK', ReadBacked, TermsGrow, read' = read,
           leads'[read.at] => leads[read.at] /\ vterm'[read.at] = vterm[read.at],
           \A m \in wire', v \in Voters :
                m \notin wire /\ Confirms(m, v) => vterm[v] <= vterm[read.at]
    PROVE  ReadBacked'
  <1> SUFFICES ASSUME read.step = "waiting", Claims, leads'[read.at], ~(read.index >= read.needs)
               PROVE  \E q \in SUBSET Voters : Refuses(q)'
    BY Zenon DEF ReadBacked, Claims
  <1>1. PICK q \in SUBSET Voters : Refuses(q)
    BY Zenon DEF ReadBacked
  <1>2. read.at \in Voters /\ \A v \in Voters : vterm[v] \in Nat /\ vterm'[v] \in Nat
    BY Zenon DEF ReadTypeOK, ReadRecord
  <1>3. \A v \in q : vterm'[v] > vterm'[read.at] /\ v \notin read.acks
    BY <1>1, <1>2 DEF Refuses, TermsGrow
  <1>4. ASSUME NEW v \in q, NEW m \in wire', Confirms(m, v)' PROVE FALSE
    <2>1. Confirms(m, v)
      BY <1>4, Zenon DEF Confirms
    <2>2. m \notin wire
      BY <1>1, <2>1, Zenon DEF Refuses
    <2>3. vterm[v] <= vterm[read.at]
      BY <2>1, <2>2, Zenon
    <2> QED
      BY <1>1, <1>2, <2>3 DEF Refuses
  <1>5. Refuses(q)'
    BY <1>1, <1>3, <1>4, Zenon DEF Refuses, IsQuorum
  <1> QED
    BY <1>5, Zenon

\* The inductive invariant.
ReadInv == ReadTypeOK /\ LeaderInv /\ ReadBacked /\ ConfirmedReadIsFresh

\* An election leaves the read backed and fresh.
LEMMA ElectRead ==
    ASSUME ReadInv, ReadTypeOK', NEW n \in Voters, NEW q \in SUBSET Voters, Elect(n, q)
    PROVE  ReadBacked' /\ ConfirmedReadIsFresh'
  <1>1. /\ read' = [read EXCEPT !.again = @ \/ (read.step = "waiting" /\ read.at = n)]
        /\ wire' = wire /\ n \in q
    BY Zenon DEF Elect
  <1>2. read \in ReadRecord
    BY Zenon DEF ReadInv, ReadTypeOK
  <1>3. CASE read.step = "waiting" /\ read.at = n
    <2>1. read'.again /\ read'.step = "waiting"
      BY <1>1, <1>2, <1>3, Zenon DEF ReadRecord
    <2> QED
      BY <2>1, Zenon DEF ReadBacked, Claims, ConfirmedReadIsFresh
  <1>4. CASE ~(read.step = "waiting" /\ read.at = n)
    <2>1. read' = read
      BY <1>1, <1>2, <1>4, Zenon DEF ReadRecord
    <2>2. ConfirmedReadIsFresh'
      BY <2>1, Zenon DEF ReadInv, ConfirmedReadIsFresh
    <2>3. CASE read.step # "waiting"
      BY <2>1, <2>2, <2>3, Zenon DEF ReadBacked
    <2>4. CASE read.step = "waiting"
      <3>1. read.at # n /\ read.at \in Voters
        BY <1>2, <1>4, <2>4, Zenon DEF ReadRecord
      <3>2. leads'[read.at] => leads[read.at] /\ vterm'[read.at] = vterm[read.at]
        <4>1. PICK u \in q :
                /\ vterm' = [v \in Voters |-> IF v \in q THEN vterm[u] + 1 ELSE vterm[v]]
                /\ leads' = [v \in Voters |-> IF v \in q THEN v = n ELSE leads[v]]
          BY Zenon DEF Elect
        <4>2. /\ leads'[read.at] = IF read.at \in q THEN read.at = n ELSE leads[read.at]
              /\ read.at \notin q => vterm'[read.at] = vterm[read.at]
          BY <3>1, <4>1, Zenon
        <4> QED
          BY <3>1, <4>2, Zenon
      <3>3. TermsGrow
        BY ElectLeader, Zenon DEF ReadInv
      <3> QED
        BY <1>1, <2>1, <2>2, <3>2, <3>3, ReadStays, Zenon DEF ReadInv
    <2> QED
      BY <2>3, <2>4, Zenon
  <1> QED
    BY <1>3, <1>4, Zenon

\* So does a commitment,
LEMMA CommitRead ==
    ASSUME ReadInv, ReadTypeOK', NEW n \in Voters, NEW q \in SUBSET Voters, NEW w \in {0, 1},
           CommitEntry(n, q, w)
    PROVE  ReadBacked' /\ ConfirmedReadIsFresh'
  <1>1. read' = read /\ wire' = wire /\ read.at \in Voters
    BY Zenon DEF CommitEntry, ReadInv, ReadTypeOK, ReadRecord
  <1>2. leads'[read.at] => leads[read.at] /\ vterm'[read.at] = vterm[read.at]
    BY <1>1, Zenon DEF CommitEntry
  <1>3. TermsGrow
    BY CommitLeader, Zenon DEF ReadInv
  <1> QED
    BY <1>1, <1>2, <1>3, ReadStays, Zenon DEF ReadInv, ConfirmedReadIsFresh

\* a heartbeat sent,
LEMMA SendRead ==
    ASSUME ReadInv, ReadTypeOK', NEW n \in Voters, NEW v \in Voters, SendHeartbeat(n, v)
    PROVE  LeaderInv' /\ ReadBacked' /\ ConfirmedReadIsFresh'
  <1>1. UNCHANGED <<vterm, leads, holds, knows, owns, writes, read>>
    BY Zenon DEF SendHeartbeat
  <1>2. TermsGrow
    BY <1>1 DEF TermsGrow, ReadInv, ReadTypeOK
  <1>3. \A m \in wire' : m \notin wire => m.type = "heartbeat"
    BY DEF SendHeartbeat
  <1>4. LeaderInv'
    BY <1>1, <1>2, LeadersStay, Zenon DEF ReadInv
  <1>5. ReadBacked'
    BY <1>1, <1>2, <1>3, ReadStays, Zenon DEF ReadInv, Confirms
  <1> QED
    BY <1>1, <1>4, <1>5, Zenon DEF ReadInv, ConfirmedReadIsFresh

\* handleAppendEntries: a node that has left the leader's term refuses its
\* heartbeats, so what it answers does not confirm the read.
LEMMA HeartbeatRead ==
    ASSUME ReadInv, ReadTypeOK', NEW m \in wire, HandleHeartbeat(m)
    PROVE  ReadBacked' /\ ConfirmedReadIsFresh'
  <1>0. m \in Message /\ read.at \in Voters /\ read' = read
    BY Zenon DEF ReadInv, ReadTypeOK, ReadRecord, HandleHeartbeat
  <1>1. TermsGrow
    BY HeartbeatLeader, Zenon DEF ReadInv
  <1>2. leads'[read.at] => leads[read.at] /\ vterm'[read.at] = vterm[read.at]
    BY <1>0, Zenon DEF HandleHeartbeat, ReadInv, ReadTypeOK, Message
  <1>3. ASSUME NEW a \in wire', NEW v \in Voters, a \notin wire, Confirms(a, v)
        PROVE  vterm[v] <= vterm[read.at]
    <2>1. /\ a.from = m.to /\ a.ok = (m.term >= vterm[m.to])
          /\ a.term = IF m.term >= vterm[m.to] THEN m.term ELSE vterm[m.to]
      BY <1>3 DEF HandleHeartbeat
    <2>2. a.from = v /\ a.ok /\ a.term = vterm[read.at]
      BY <1>3, Zenon DEF Confirms
    <2> QED
      BY <1>0, <2>1, <2>2, Zenon DEF ReadInv, ReadTypeOK, Message
  <1>4. ReadBacked'
    BY <1>0, <1>1, <1>2, <1>3, ReadStays, Zenon DEF ReadInv
  <1> QED
    BY <1>0, <1>4, Zenon DEF ReadInv, ConfirmedReadIsFresh

\* replicateOnce: an acknowledgement that is counted either answers an earlier
\* heartbeat, which makes the read late, or comes from a node that does not refuse.
LEMMA AnswerRead ==
    ASSUME ReadInv, ReadTypeOK', NEW m \in wire, HandleAnswer(m)
    PROVE  ReadBacked' /\ ConfirmedReadIsFresh'
  <1> DEFINE n == m.to
             counts == m.ok /\ leads[n] /\ m.term = vterm[n] /\ read.at = n /\ read.step = "waiting"
  <1>0. m \in Message /\ read \in ReadRecord
    BY Zenon DEF ReadInv, ReadTypeOK
  <1>1. TermsGrow
    BY AnswerLeader, Zenon DEF ReadInv
  <1>2. leads'[read.at] => leads[read.at] /\ vterm'[read.at] = vterm[read.at]
    BY <1>0, Zenon DEF HandleAnswer, ReadInv, ReadTypeOK, Message, ReadRecord
  <1>3. wire' = wire \ {m} /\ m.type = "answer"
    BY Zenon DEF HandleAnswer
  <1>4. CASE ~counts
    <2>1. read' = read
      BY <1>4, Zenon DEF HandleAnswer
    <2> QED
      BY <1>1, <1>2, <1>3, <2>1, ReadStays, Zenon DEF ReadInv, ConfirmedReadIsFresh
  <1>5. CASE counts
    <2>1. read' = [read EXCEPT !.acks = @ \cup {m.from}, !.late = @ \/ ~m.after]
      BY <1>5, Zenon DEF HandleAnswer
    <2>2. /\ read'.acks = read.acks \cup {m.from} /\ read'.late = (read.late \/ ~m.after)
          /\ read'.at = read.at /\ read'.step = "waiting" /\ read'.again = read.again
          /\ read'.own = read.own /\ read'.index = read.index /\ read'.needs = read.needs
      BY <1>0, <1>5, <2>1, Zenon DEF ReadRecord
    <2>3. ReadBacked'
      <3> SUFFICES ASSUME Claims', leads'[read.at], ~(read.index >= read.needs)
                   PROVE  \E q \in SUBSET Voters : Refuses(q)'
        BY <2>2, Zenon DEF ReadBacked
      <3>1. Claims /\ m.after
        BY <1>0, <2>2, Zenon DEF Claims, Message
      <3>2. PICK q \in SUBSET Voters : Refuses(q)
        BY <1>2, <1>5, <3>1, Zenon DEF ReadInv, ReadBacked
      <3>3. m.from \notin q
        BY <1>3, <1>5, <3>1, <3>2, Zenon DEF Refuses, Confirms
      <3>4. read.at \in Voters /\ \A v \in Voters : vterm[v] \in Nat /\ vterm'[v] \in Nat
        BY <1>0, Zenon DEF ReadInv, ReadTypeOK, ReadRecord
      <3>5. \A v \in q : vterm'[v] > vterm'[read.at] /\ v \notin read'.acks
        BY <1>1, <1>2, <2>2, <3>2, <3>3, <3>4 DEF Refuses, TermsGrow
      <3>6. \A v \in q, a \in wire' : ~Confirms(a, v)'
        BY <1>2, <1>3, <2>2, <3>2 DEF Refuses, Confirms
      <3>7. Refuses(q)'
        BY <2>2, <3>2, <3>5, <3>6, Zenon DEF Refuses, IsQuorum
      <3> QED
        BY <3>7, Zenon
    <2> QED
      BY <2>2, <2>3, Zenon DEF ConfirmedReadIsFresh
  <1> QED
    BY <1>4, <1>5, Zenon

\* ReadIndex captures the commit index: it covers every write, or a majority has
\* left the leader's term, and no acknowledgement counts yet.
LEMMA BeginReadBacked ==
    ASSUME ReadInv, ReadTypeOK', NEW n \in Voters, BeginRead(n)
    PROVE  LeaderInv' /\ ReadBacked' /\ ConfirmedReadIsFresh'
  <1>1. /\ read'.at = n /\ read'.step = "waiting" /\ read'.index = knows[n] /\ read'.acks = {}
        /\ read'.own = owns[n] /\ read'.needs = writes /\ leads[n]
        /\ UNCHANGED <<vterm, leads, holds, knows, owns, writes>>
    BY Zenon DEF BeginRead
  <1>2. \A m \in wire' : ~m.after
    BY Zenon DEF BeginRead, ReadInv, ReadTypeOK, Message
  <1>3. TermsGrow
    BY <1>1 DEF TermsGrow, ReadInv, ReadTypeOK
  <1>4. LeaderInv'
    BY <1>1, <1>3, LeadersStay, Zenon DEF ReadInv
  <1>5. ReadBacked'
    <2> SUFFICES ASSUME owns[n], ~(knows[n] >= writes)
                 PROVE  \E q \in SUBSET Voters : Refuses(q)'
      BY <1>1, Zenon DEF ReadBacked, Claims
    <2>1. knows[n] # writes
      BY DEF ReadInv, ReadTypeOK
    <2>2. Overtaken(n)
      BY <1>1, <2>1, Zenon DEF ReadInv, LeaderInv, OwnersKnow
    <2>3. PICK q \in SUBSET Voters : IsQuorum(q) /\ \A v \in q : vterm[v] > vterm[n]
      BY <2>2, Zenon DEF Overtaken
    <2>4. Refuses(q)'
      BY <1>1, <1>2, <2>3, Zenon DEF Refuses, Confirms, IsQuorum
    <2> QED
      BY <2>4, Zenon
  <1> QED
    BY <1>1, <1>4, <1>5, Zenon DEF ConfirmedReadIsFresh

\* ReadIndex returns: the majority that confirmed meets every majority.
LEMMA ServeReadFresh ==
    ASSUME ReadInv, ReadTypeOK', ServeRead
    PROVE  LeaderInv' /\ ReadBacked' /\ ConfirmedReadIsFresh'
  <1>1. /\ read.step = "waiting" /\ leads[read.at] /\ IsQuorum(read.acks \cup {read.at})
        /\ UNCHANGED <<vterm, leads, holds, knows, owns, writes, wire>>
    BY Zenon DEF ServeRead, Confirmed
  <1>2. read \in ReadRecord
    BY Zenon DEF ReadInv, ReadTypeOK
  <1>3. /\ read'.step = "served" /\ read'.late = read.late /\ read'.again = read.again
        /\ read'.own = read.own /\ read'.index = read.index /\ read'.needs = read.needs
    BY <1>2, Zenon DEF ServeRead, ReadRecord
  <1>4. ConfirmedReadIsFresh'
    <2> SUFFICES ASSUME Claims PROVE read.index >= read.needs
      BY <1>3, Zenon DEF ConfirmedReadIsFresh, Claims
    <2>1. ASSUME NEW q \in SUBSET Voters, Refuses(q) PROVE FALSE
      <3>1. read.acks \cup {read.at} \in SUBSET Voters /\ vterm[read.at] \in Nat
        BY <1>2, Zenon DEF ReadRecord, ReadInv, ReadTypeOK
      <3>2. PICK v \in Voters : v \in read.acks \cup {read.at} /\ v \in q
        BY <1>1, <2>1, <3>1, QuorumsMeet, Zenon DEF Refuses
      <3> QED
        BY <2>1, <3>1, <3>2 DEF Refuses
    <2> QED
      BY <1>1, <2>1, Zenon DEF ReadInv, ReadBacked
  <1>5. TermsGrow
    BY <1>1 DEF TermsGrow, ReadInv, ReadTypeOK
  <1>6. LeaderInv'
    BY <1>1, <1>5, LeadersStay, Zenon DEF ReadInv
  <1> QED
    BY <1>3, <1>4, <1>6, Zenon DEF ReadBacked

\* A read that fails promises nothing.
LEMMA FailReadFresh ==
    ASSUME ReadInv, ReadTypeOK', FailRead
    PROVE  LeaderInv' /\ ReadBacked' /\ ConfirmedReadIsFresh'
  <1>1. read'.step = "none" /\ UNCHANGED <<vterm, leads, holds, knows, owns, writes, wire>>
    BY Zenon DEF FailRead, NoRead
  <1>2. TermsGrow
    BY <1>1 DEF TermsGrow, ReadInv, ReadTypeOK
  <1>3. LeaderInv'
    BY <1>1, <1>2, LeadersStay, Zenon DEF ReadInv
  <1> QED
    BY <1>1, <1>3, Zenon DEF ReadBacked, ConfirmedReadIsFresh

\* A lost message backs no read.
LEMMA LoseRead ==
    ASSUME ReadInv, ReadTypeOK', NEW m \in wire, Lose(m)
    PROVE  LeaderInv' /\ ReadBacked' /\ ConfirmedReadIsFresh'
  <1>1. UNCHANGED <<vterm, leads, holds, knows, owns, writes, read>> /\ wire' = wire \ {m}
    BY Zenon DEF Lose
  <1>2. TermsGrow
    BY <1>1 DEF TermsGrow, ReadInv, ReadTypeOK
  <1>3. LeaderInv'
    BY <1>1, <1>2, LeadersStay, Zenon DEF ReadInv
  <1>4. ReadBacked'
    BY <1>1, <1>2, ReadStays, Zenon DEF ReadInv
  <1> QED
    BY <1>1, <1>3, <1>4, Zenon DEF ReadInv, ConfirmedReadIsFresh

\* The invariant holds at first.
LEMMA ReadInvInit == ReadInit => ReadInv
  <1> SUFFICES ASSUME ReadInit PROVE ReadInv
    OBVIOUS
  <1>1. read.step = "none"
    BY Zenon DEF ReadInit, NoRead
  <1>2. ReadTypeOK
    BY ReadTypeInit, Zenon
  <1>3. LeadersBacked
    <2>1. IsFiniteSet(Voters) /\ Voters # {}
      BY ReadAssumption, Zenon
    <2>2. Cardinality(Voters) \in Nat /\ Cardinality(Voters) # 0
      BY <2>1, FS_CardinalityType, FS_EmptySet, Zenon
    <2>3. IsQuorum(Voters)
      BY <2>2 DEF IsQuorum
    <2>4. \A n, v \in Voters : vterm[v] >= vterm[n]
      BY DEF ReadInit
    <2> QED
      BY <2>3, <2>4, Zenon DEF LeadersBacked
  <1>4. OneLeader
    BY Zenon DEF ReadInit, OneLeader
  <1>5. OwnersKnow
    BY Zenon DEF ReadInit, OwnersKnow
  <1> QED
    BY <1>1, <1>2, <1>3, <1>4, <1>5, Zenon DEF ReadInv, LeaderInv, ReadBacked, ConfirmedReadIsFresh

\* For every set of voters: what ReadIndex returns covers every write answered
\* before the call, if its leader had committed an entry of its own term and was
\* not elected anew during the call, and the acknowledgements it counted answer
\* heartbeats sent after the call began.
THEOREM ReadsAreFresh == ReadSpec => []ConfirmedReadIsFresh
  <1>1. ReadInv /\ [ReadNext]_readVars => ReadInv'
    <2> SUFFICES ASSUME ReadInv, [ReadNext]_readVars PROVE ReadInv'
      OBVIOUS
    <2>0. ReadTypeOK
      BY Zenon DEF ReadInv
    <2>1. ASSUME NEW n \in Voters, NEW q \in SUBSET Voters, Elect(n, q) PROVE ReadInv'
      BY <2>0, <2>1, ElectType, ElectLeader, ElectRead, Zenon DEF ReadInv
    <2>2. ASSUME NEW n \in Voters, NEW q \in SUBSET Voters, NEW w \in {0, 1}, CommitEntry(n, q, w)
          PROVE  ReadInv'
      BY <2>0, <2>2, CommitType, CommitLeader, CommitRead, Zenon DEF ReadInv
    <2>3. ASSUME NEW n \in Voters, NEW v \in Voters, SendHeartbeat(n, v) PROVE ReadInv'
      BY <2>0, <2>3, SendType, SendRead, Zenon DEF ReadInv
    <2>4. ASSUME NEW m \in wire, HandleHeartbeat(m) PROVE ReadInv'
      BY <2>0, <2>4, HeartbeatType, HeartbeatLeader, HeartbeatRead, Zenon DEF ReadInv
    <2>5. ASSUME NEW m \in wire, HandleAnswer(m) PROVE ReadInv'
      BY <2>0, <2>5, AnswerType, AnswerLeader, AnswerRead, Zenon DEF ReadInv
    <2>6. ASSUME NEW m \in wire, Lose(m) PROVE ReadInv'
      BY <2>0, <2>6, LoseType, LoseRead, Zenon DEF ReadInv
    <2>7. ASSUME NEW n \in Voters, BeginRead(n) PROVE ReadInv'
      BY <2>0, <2>7, BeginType, BeginReadBacked, Zenon DEF ReadInv
    <2>8. CASE ServeRead
      BY <2>0, <2>8, ServeType, ServeReadFresh, Zenon DEF ReadInv
    <2>9. CASE FailRead
      BY <2>0, <2>9, ServeType, FailReadFresh, Zenon DEF ReadInv
    <2>10. CASE UNCHANGED readVars
      BY <2>10 DEF readVars, ReadInv, ReadTypeOK, LeaderInv, LeadersBacked, OneLeader, OwnersKnow,
                   Overtaken, ReadBacked, Claims, Refuses, Confirms, ConfirmedReadIsFresh
    <2> QED
      BY <2>1, <2>2, <2>3, <2>4, <2>5, <2>6, <2>7, <2>8, <2>9, <2>10, Zenon DEF ReadNext
  <1>2. ReadInv => ConfirmedReadIsFresh
    BY Zenon DEF ReadInv
  <1> QED
    BY ReadInvInit, <1>1, <1>2, PTL DEF ReadSpec

-----------------------------------------------------------------------------
(* The lease                                                               *)

\* Three voters: the leader and two followers, one of which completes a quorum.
ThreeVoters == Cardinality(Followers) = 2

\* An acknowledgement arrives within what the lease withholds of the timeout.
PromptAnswers == MaxDelay + LeaseDuration <= ElectionTimeout

-----------------------------------------------------------------------------
(* The inductive invariant of the lease                                    *)

\* Types.
LeaseTypeOK ==
    /\ now \in Nat
    /\ contact \in [Followers -> Nat]
    /\ answers \subseteq [from : Followers, sent : Nat]
    /\ expiry \in Int
    /\ elected \in BOOLEAN

\* An acknowledgement in flight was sent at a contact, and not long ago.
AnswersAreRecent ==
    \A a \in answers : a.sent <= contact[a.from] /\ now <= a.sent + MaxDelay

\* Some follower will refuse to vote until the lease has ended.
LeaseIsBacked == \E f \in Followers : expiry <= contact[f] + ElectionTimeout

\* Another leader was elected by both followers, and their timers stay run out.
ElectedByBoth == elected => \A f \in Followers : contact[f] + ElectionTimeout <= now

\* The inductive invariant of the lease.
LeaseInv ==
    /\ LeaseTypeOK
    /\ \A f \in Followers : contact[f] <= now
    /\ AnswersAreRecent /\ LeaseIsBacked /\ ElectedByBoth

\* The lease is an integer, negative if the margin exceeds the timeout.
LEMMA DurationType == LeaseDuration \in Int
  BY LeaseAssumption DEF LeaseDuration

\* A majority of three voters that leaves out the leader is both followers.
LEMMA BothFollowers ==
    ASSUME ThreeVoters, NEW q \in SUBSET Followers, Cardinality(q) >= QuorumSize
    PROVE  q = Followers
  <1>1. QuorumSize = 2
    BY DEF QuorumSize, ThreeVoters
  <1>2. IsFiniteSet(q) /\ Cardinality(q) <= Cardinality(Followers)
    BY LeaseAssumption, FS_Subset, Zenon
  <1>3. Cardinality(q) \in Nat
    BY <1>2, FS_CardinalityType, Zenon
  <1>4. Cardinality(q) = Cardinality(Followers)
    BY <1>1, <1>2, <1>3 DEF ThreeVoters
  <1> QED
    BY <1>4, LeaseAssumption, FS_Subset, Zenon

\* It holds at first.
LEMMA LeaseInvInit == ThreeVoters /\ LeaseInit => LeaseInv
  <1> SUFFICES ASSUME ThreeVoters, LeaseInit PROVE LeaseInv
    OBVIOUS
  <1>1. Followers # {}
    BY FS_EmptySet DEF ThreeVoters
  <1>2. LeaseTypeOK
    <2>1. elected \in BOOLEAN
      BY Zenon DEF LeaseInit
    <2>2. now \in Nat /\ expiry \in Int /\ contact \in [Followers -> Nat]
      BY DEF LeaseInit
    <2> QED
      BY <2>1, <2>2, Zenon DEF LeaseInit, LeaseTypeOK
  <1> QED
    BY <1>1, <1>2, LeaseAssumption
    DEF LeaseInit, LeaseInv, AnswersAreRecent, LeaseIsBacked, ElectedByBoth

-----------------------------------------------------------------------------
(* The steps                                                               *)

\* The lease is moved by an acknowledgement that was sent at a contact of its
\* follower at most MaxDelay ago; that follower refuses until it ends.
LEMMA AnswerKeeps ==
    ASSUME LeaseInv, PromptAnswers, NEW a \in answers, AnswerArrives(a)
    PROVE  LeaseInv'
  <1>1. /\ a \in [from : Followers, sent : Nat]
        /\ a.sent <= contact[a.from] /\ now <= a.sent + MaxDelay
    BY Zenon DEF LeaseInv, LeaseTypeOK, AnswersAreRecent
  <1>2. expiry' \in {expiry, now + LeaseDuration}
    BY Zenon DEF AnswerArrives
  <1>3. now + LeaseDuration <= contact[a.from] + ElectionTimeout
    BY <1>1, DurationType, LeaseAssumption DEF LeaseInv, LeaseTypeOK, PromptAnswers
  <1>4. LeaseIsBacked'
    BY <1>1, <1>2, <1>3, Zenon DEF LeaseInv, LeaseIsBacked, AnswerArrives
  <1>5. LeaseTypeOK'
    BY <1>2, DurationType DEF LeaseInv, LeaseTypeOK, AnswerArrives
  <1> QED
    BY <1>4, <1>5, Zenon DEF LeaseInv, AnswerArrives, AnswersAreRecent, ElectedByBoth

\* A heartbeat received keeps it.
LEMMA HeartbeatKeeps ==
    ASSUME LeaseInv, NEW f \in Followers, HeartbeatArrives(f)
    PROVE  LeaseInv'
  <1>1. LeaseTypeOK'
    BY DEF LeaseInv, LeaseTypeOK, HeartbeatArrives
  <1>2. \A g \in Followers : contact[g] <= contact'[g] /\ contact'[g] <= now
    BY DEF LeaseInv, LeaseTypeOK, HeartbeatArrives
  <1>3. AnswersAreRecent'
    <2> SUFFICES ASSUME NEW a \in answers'
                 PROVE  a.sent <= contact'[a.from] /\ now <= a.sent + MaxDelay
      BY Zenon DEF AnswersAreRecent, HeartbeatArrives
    <2>1. CASE a \in answers
      BY <1>2, <2>1 DEF LeaseInv, LeaseTypeOK, AnswersAreRecent, HeartbeatArrives
    <2>2. CASE a = [from |-> f, sent |-> now]
      BY <2>2, LeaseAssumption DEF LeaseInv, LeaseTypeOK, HeartbeatArrives
    <2> QED
      BY <2>1, <2>2, Zenon DEF HeartbeatArrives
  <1>4. LeaseIsBacked'
    BY <1>1, <1>2, LeaseAssumption DEF LeaseInv, LeaseTypeOK, LeaseIsBacked, HeartbeatArrives
  <1> QED
    BY <1>1, <1>2, <1>3, <1>4, Zenon DEF LeaseInv, HeartbeatArrives, ElectedByBoth

\* So does an election,
LEMMA ElectKeeps ==
    ASSUME LeaseInv, ThreeVoters, NEW q \in SUBSET Followers, ElectOther(q)
    PROVE  LeaseInv'
  <1>1. q = Followers
    BY BothFollowers, Zenon DEF ElectOther
  <1>2. LeaseTypeOK'
    BY Zenon DEF LeaseInv, LeaseTypeOK, ElectOther
  <1>3. ElectedByBoth'
    BY <1>1, LeaseAssumption, Zenon DEF ElectedByBoth, ElectOther, LeaseInv, LeaseTypeOK
  <1> QED
    BY <1>2, <1>3, Zenon DEF LeaseInv, ElectOther, AnswersAreRecent, LeaseIsBacked

\* and time that passes.
LEMMA PassKeeps ==
    ASSUME LeaseInv, Pass
    PROVE  LeaseInv'
  <1>1. LeaseTypeOK'
    BY DEF LeaseInv, LeaseTypeOK, Pass
  <1>2. AnswersAreRecent'
    BY LeaseAssumption DEF LeaseInv, LeaseTypeOK, AnswersAreRecent, Pass
  <1>3. \A f \in Followers : contact'[f] <= now'
    BY DEF LeaseInv, LeaseTypeOK, Pass
  <1>4. ElectedByBoth'
    BY LeaseAssumption DEF LeaseInv, LeaseTypeOK, ElectedByBoth, Pass
  <1> QED
    BY <1>1, <1>2, <1>3, <1>4, Zenon DEF LeaseInv, LeaseIsBacked, Pass

\* In a cluster of three voters whose acknowledgements take no longer than the
\* lease leaves out of the election timeout, no other leader is elected while
\* ReadIndex answers from the lease.
THEOREM LeaseOfThreeIsSound ==
    ASSUME ThreeVoters, PromptAnswers
    PROVE  LeaseSpec => []LeaseExcludesLeader
  <1>1. LeaseInit => LeaseInv
    BY LeaseInvInit, Zenon
  <1>2. LeaseInv /\ [LeaseNext]_leaseVars => LeaseInv'
    <2> SUFFICES ASSUME LeaseInv, [LeaseNext]_leaseVars PROVE LeaseInv'
      OBVIOUS
    <2>1. CASE Pass
      BY <2>1, PassKeeps, Zenon
    <2>2. ASSUME NEW f \in Followers, HeartbeatArrives(f) PROVE LeaseInv'
      BY <2>2, HeartbeatKeeps, Zenon
    <2>3. ASSUME NEW a \in answers, AnswerArrives(a) PROVE LeaseInv'
      BY <2>3, AnswerKeeps, Zenon
    <2>4. ASSUME NEW a \in answers, LoseAnswer(a) PROVE LeaseInv'
      BY <2>4, Zenon DEF LoseAnswer, LeaseInv, LeaseTypeOK, AnswersAreRecent, LeaseIsBacked, ElectedByBoth
    <2>5. ASSUME NEW q \in SUBSET Followers, ElectOther(q) PROVE LeaseInv'
      BY <2>5, ElectKeeps, Zenon
    <2>6. CASE UNCHANGED leaseVars
      BY <2>6, Zenon DEF leaseVars, LeaseInv, LeaseTypeOK, AnswersAreRecent, LeaseIsBacked, ElectedByBoth
    <2> QED
      BY <2>1, <2>2, <2>3, <2>4, <2>5, <2>6, Zenon DEF LeaseNext
  <1>3. LeaseInv => LeaseExcludesLeader
    BY LeaseAssumption
    DEF LeaseInv, LeaseTypeOK, LeaseIsBacked, ElectedByBoth, LeaseExcludesLeader
  <1> QED
    BY <1>1, <1>2, <1>3, PTL DEF LeaseSpec
=============================================================================
