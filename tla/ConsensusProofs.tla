-------------------------- MODULE ConsensusProofs --------------------------
(***************************************************************************)
(* The elections and the logs of Consensus, for every set of servers and   *)
(* every set of quorums any two of which meet: no term has two leaders,    *)
(* and two logs with the same entry somewhere are the same up to there.    *)
(***************************************************************************)
EXTENDS Consensus, TLAPS

\* Types.
TypeOK ==
    /\ term \in [Server -> Nat]
    /\ log \in [Server -> Seq(Entry)]
    /\ elections \subseteq Election
    /\ ballots \subseteq [term : Nat, voter : Server, cand : Server]
    /\ leaders \subseteq Nat \X Server
    /\ requests \subseteq Request
    /\ acks \subseteq [voter : Server, term : Nat, index : Nat]
    /\ commitIndex \in [Server -> Nat]
    /\ storedCommit \in [Server -> Nat]
    /\ applied \subseteq Nat \X Entry

-----------------------------------------------------------------------------
(* Elections.                                                              *)

\* The vote of v for c in term t.
Ballot(t, v, c) == [term |-> t, voter |-> v, cand |-> c]

\* A server votes once per term.
VoteOnce ==
    \A a, b \in ballots : a.term = b.term /\ a.voter = b.voter => a = b

\* A server that voted does not go back to an earlier term.
BallotsPast == \A b \in ballots : b.term <= term[b.voter]

\* Votes are cast for servers that started an election.
BallotsForElections ==
    \A b \in ballots : \E e \in elections : e.term = b.term /\ e.cand = b.cand

\* An election was won by a quorum.
LeadersBacked ==
    \A l \in leaders : \E Q \in Quorum : \A v \in Q : Ballot(l[1], v, l[2]) \in ballots

\* Whoever was elected ran.
LeadersRan ==
    \A l \in leaders : \E e \in elections : e.term = l[1] /\ e.cand = l[2]

\* The inductive invariant of elections.
ElectionInv ==
    /\ TypeOK
    /\ VoteOnce
    /\ BallotsPast
    /\ BallotsForElections
    /\ LeadersBacked
    /\ LeadersRan
    /\ ElectionSafety

-----------------------------------------------------------------------------
(* What the log of a leader of each term looks like.                       *)

\* The elections that were won.
Won == {e \in elections : <<e.term, e.cand>> \in leaders}

\* Somebody was elected in term t.
Led(t) == \E l \in leaders : l[1] = t

\* The term of the k-th entry of a log, 0 before the first.
LogTerm(lg, k) == IF k = 0 THEN 0 ELSE lg[k].term

\* The term of the k-th entry of any log the winner of e has in its term: it
\* adds entries of its own term to the log it started the election with.
LeaderTerm(e, k) == IF k > Len(e.log) THEN e.term ELSE LogTerm(e.log, k)

\* The first n entries of lg are those of the winner of e, as far as terms go.
Follows(lg, n, e) ==
    /\ n <= Len(lg)
    /\ \A k \in 0..n : LogTerm(lg, k) = LeaderTerm(e, k)

\* Each entry of lg was added by a leader, on top of what that leader had.
Grown(lg) ==
    \A i \in 1..Len(lg) :
        \E e \in Won : e.term = lg[i].term /\ Len(e.log) < i /\ Follows(lg, i, e)

\* x is at index i in a log, in what a candidate had, in a request, or applied.
Placed(i, x) ==
    \/ \E s \in Server : i \in 1..Len(log[s]) /\ x = log[s][i]
    \/ \E e \in elections : i \in 1..Len(e.log) /\ x = e.log[i]
    \/ \E m \in requests :
           \E k \in 1..Len(m.entries) : i = m.prevIndex + k /\ x = m.entries[k]
    \/ <<i, x>> \in applied

\* A server starts at most one election per term.
ElectionsOnce ==
    \A d, e \in elections : d.term = e.term /\ d.cand = e.cand => d = e

\* A candidate starts a term newer than all of its log, and never goes back.
ElectionsPast ==
    \A e \in elections :
        /\ e.term <= term[e.cand]
        /\ \A i \in 1..Len(e.log) : e.log[i].term < e.term

\* No entry is newer than the server that holds it.
TermsPast == \A s \in Server : \A i \in 1..Len(log[s]) : log[s][i].term <= term[s]

\* Until its term has a leader, a candidate has the log it started with.
CandidateLog ==
    \A e \in elections :
        term[e.cand] = e.term /\ ~Led(e.term) => log[e.cand] = e.log

\* Every log, now and in an election, is grown from leaders' logs.
LogsGrown ==
    /\ \A s \in Server : Grown(log[s])
    /\ \A e \in elections : Grown(e.log)

\* While its term lasts, the log of a leader is what it started with and at
\* least one entry of its term.
LeaderLog ==
    \A e \in Won :
        term[e.cand] = e.term =>
            /\ Len(e.log) < Len(log[e.cand])
            /\ Follows(log[e.cand], Len(log[e.cand]), e)

\* A request is a stretch of the log of the leader of its term.
RequestsFollow ==
    \A m \in requests :
        /\ m.from # m.to
        /\ \E e \in Won :
            /\ e.term = m.term /\ e.cand = m.from
            /\ m.prevTerm = LeaderTerm(e, m.prevIndex)
            /\ \A k \in 1..Len(m.entries) :
                   m.entries[k].term = LeaderTerm(e, m.prevIndex + k)

\* An entry is above what the leader of its term started with, and the leader
\* itself has it while the term lasts.
PlacedLed ==
    \A i \in Nat, x \in Entry :
        Placed(i, x) =>
            \E e \in Won :
                /\ e.term = x.term /\ Len(e.log) < i
                /\ term[e.cand] = e.term => i <= Len(log[e.cand])

\* Index and term determine an entry.
EntryUnique ==
    \A i \in Nat, x, y \in Entry :
        Placed(i, x) /\ Placed(i, y) /\ x.term = y.term => x = y

\* The inductive invariant of logs.
LogInv ==
    /\ ElectionsOnce
    /\ ElectionsPast
    /\ TermsPast
    /\ CandidateLog
    /\ LogsGrown
    /\ LeaderLog
    /\ RequestsFollow
    /\ PlacedLed
    /\ EntryUnique

-----------------------------------------------------------------------------
(* Steps.                                                                  *)

\* No server goes back to an earlier term.
TermsGrow == \A x \in Server : term[x] <= term'[x]

-----------------------------------------------------------------------------
(* Types.                                                                  *)

\* The fields of a request.
LEMMA RequestFields ==
    ASSUME NEW m \in Request
    PROVE  /\ m.from \in Server /\ m.to \in Server /\ m.term \in Nat
           /\ m.prevIndex \in Nat /\ m.prevTerm \in Nat
           /\ m.entries \in Seq(Entry) /\ m.commit \in Nat
  BY Zenon DEF Request

\* The fields of an election.
LEMMA ElectionFields ==
    ASSUME TypeOK, NEW e \in elections
    PROVE  e.term \in Nat /\ e.cand \in Server /\ e.log \in Seq(Entry) /\ Len(e.log) \in Nat
  BY DEF TypeOK, Election

\* The durable state of a server.
LEMMA ServerTypes ==
    TypeOK => \A s \in Server :
                 term[s] \in Nat /\ log[s] \in Seq(Entry) /\ Len(log[s]) \in Nat
  <1> SUFFICES ASSUME TypeOK, NEW s \in Server
               PROVE  term[s] \in Nat /\ log[s] \in Seq(Entry) /\ Len(log[s]) \in Nat
    BY Zenon
  <1>1. term[s] \in Nat /\ log[s] \in Seq(Entry)
    BY Zenon DEF TypeOK
  <1> QED
    BY <1>1

\* The same after a step.
LEMMA ServerTypesNext ==
    TypeOK' => \A s \in Server :
                  term'[s] \in Nat /\ log'[s] \in Seq(Entry) /\ Len(log'[s]) \in Nat
  <1> SUFFICES ASSUME TypeOK', NEW s \in Server
               PROVE  term'[s] \in Nat /\ log'[s] \in Seq(Entry) /\ Len(log'[s]) \in Nat
    OBVIOUS
  <1>1. term'[s] \in Nat /\ log'[s] \in Seq(Entry)
    BY Zenon DEF TypeOK
  <1> QED
    BY <1>1

\* The log after a request is a log.
LEMMA MergedType ==
    ASSUME TypeOK, NEW m \in Request, NEW s \in Server,
           PrevMatches(s, m)
    PROVE  Merged(s, m) \in Seq(Entry)
  <1>1. /\ log[s] \in Seq(Entry) /\ Len(log[s]) \in Nat
        /\ m.prevIndex \in Nat /\ m.entries \in Seq(Entry) /\ Len(m.entries) \in Nat
        /\ m.prevIndex <= Len(log[s])
    BY RequestFields DEF TypeOK, PrevMatches
  <1>2. \A k \in 1..Len(log[s]) : log[s][k] \in Entry
    BY <1>1
  <1>3. \A i \in 1..Len(m.entries) : m.entries[i] \in Entry
    BY <1>1
  <1> DEFINE n == m.prevIndex + Len(m.entries)
             e(k) == IF \A i \in 1..(k - m.prevIndex) : Present(s, m, i)
                     THEN log[s][k]
                     ELSE m.entries[k - m.prevIndex]
  <1>4. ASSUME NEW k \in 1..n
        PROVE  e(k) \in Entry
    <2>1. CASE k <= m.prevIndex
      <3>1. k \in 1..Len(log[s]) /\ 1..(k - m.prevIndex) = {}
        BY <1>1, <2>1
      <3> QED
        BY <1>2, <3>1, Zenon
    <2>2. CASE k > m.prevIndex
      <3>1. k - m.prevIndex \in 1..Len(m.entries)
        BY <1>1, <2>2
      <3>2. k - m.prevIndex \in 1..(k - m.prevIndex)
        BY <1>1, <2>2
      <3>3. Present(s, m, k - m.prevIndex) => k \in 1..Len(log[s])
        BY <1>1 DEF Present
      <3> QED
        BY <1>2, <1>3, <3>1, <3>2, <3>3, Zenon
    <2> QED
      BY <1>1, <2>1, <2>2
  <1>5. [k \in 1..n |-> e(k)] \in Seq(Entry)
    <2>1. n \in Nat
      BY <1>1
    <2> HIDE DEF n, e
    <2> QED
      BY <1>4, <2>1
  <1> QED
    BY <1>1, <1>5, Zenon DEF Merged

\* Positions in the first and in the second part of a sequence.
LEMMA Within ==
    ASSUME NEW p \in Nat, NEW n \in Nat
    PROVE  /\ \A k \in 1..p : k \in 1..(p + n)
           /\ \A k \in 1..n : p + k \in 1..(p + n)
  OBVIOUS

\* The length of a sequence, from its domain.
LEMMA LengthIs ==
    ASSUME NEW n \in Nat, NEW q \in Seq(Entry), DOMAIN q = 1..n
    PROVE  Len(q) = n
  OBVIOUS

\* A stretch of a log.
LEMMA StretchOf ==
    ASSUME NEW lg \in Seq(Entry), NEW prev \in Nat, NEW last \in prev..Len(lg)
    PROVE  /\ Len(SubSeq(lg, prev + 1, last)) = last - prev
           /\ \A k \in 1..(last - prev) : SubSeq(lg, prev + 1, last)[k] = lg[prev + k]
  <1> DEFINE n == last - prev
             e(k) == lg[k + (prev + 1) - 1]
  <1>1. Len(lg) \in Nat /\ last \in Nat /\ n \in Nat /\ last <= Len(lg)
    OBVIOUS
  <1>2. 1 + last - (prev + 1) = n /\ \A k \in 1..n : e(k) = lg[prev + k] /\ e(k) \in Entry
    <2>1. \A k \in 1..n : k + (prev + 1) - 1 = prev + k /\ prev + k \in 1..Len(lg)
      BY <1>1
    <2> QED
      BY <1>1, <2>1
  <1>3. SubSeq(lg, prev + 1, last) = [k \in 1..n |-> e(k)]
    BY <1>2
  <1> HIDE DEF n, e
  <1>4. [k \in 1..n |-> e(k)] \in Seq(Entry)
    BY <1>1, <1>2
  <1>5. Len([k \in 1..n |-> e(k)]) = n
    BY <1>1, <1>4
  <1>6. \A k \in 1..n : [i \in 1..n |-> e(i)][k] = e(k)
    OBVIOUS
  <1>7. /\ Len(SubSeq(lg, prev + 1, last)) = n
        /\ \A k \in 1..n : SubSeq(lg, prev + 1, last)[k] = lg[prev + k]
    BY <1>2, <1>3, <1>5, <1>6, Zenon
  <1> QED
    BY <1>7, Zenon DEF n

\* A leader's new entry is an entry.
LEMMA ExtendType ==
    ASSUME TypeOK, NEW s \in Server, NEW t \in Nat, Extend(s, t)
    PROVE  /\ log' \in [Server -> Seq(Entry)]
           /\ \E x \in Entry : x.term = t /\ log' = [log EXCEPT ![s] = Append(log[s], x)]
  <1>1. PICK v \in Value : log' = [log EXCEPT ![s] = Append(@, [term |-> t, val |-> v])]
    BY Zenon DEF Extend
  <1> DEFINE x == [term |-> t, val |-> v]
  <1>2. x \in Entry /\ x.term = t /\ log' = [log EXCEPT ![s] = Append(log[s], x)]
    BY <1>1, Zenon DEF Entry
  <1> HIDE DEF x
  <1>3. log \in [Server -> Seq(Entry)]
    BY Zenon DEF TypeOK
  <1>4. Append(log[s], x) \in Seq(Entry)
    BY <1>2, <1>3
  <1>5. log' \in [Server -> Seq(Entry)]
    BY <1>2, <1>3, <1>4, Zenon
  <1> QED
    BY <1>2, <1>5, Zenon

\* So is what a new leader writes.
LEMMA LeadType ==
    ASSUME TypeOK, NEW s \in Server, NEW t \in Nat, Lead(s, t)
    PROVE  /\ log' \in [Server -> Seq(Entry)]
           /\ leaders' \subseteq Nat \X Server
           /\ commitIndex' \in [Server -> Nat]
  <1>1. log' \in [Server -> Seq(Entry)]
    BY ExtendType, Zenon DEF Lead
  <1>2. leaders' \subseteq Nat \X Server
    BY DEF Lead, TypeOK
  <1>3. commitIndex' \in [Server -> Nat]
    BY Zenon DEF Lead, Commit, TypeOK
  <1> QED
    BY <1>1, <1>2, <1>3, Zenon

\* A stretch of a leader's log is a request.
LEMMA StretchType ==
    ASSUME TypeOK, NEW s \in Server, NEW f \in Server,
           NEW prev \in 0..Len(log[s]), NEW last \in prev..Len(log[s])
    PROVE  Stretch(s, f, prev, last) \in Request
  <1>1. /\ log[s] \in Seq(Entry) /\ Len(log[s]) \in Nat /\ term[s] \in Nat
        /\ commitIndex[s] \in Nat /\ prev \in Nat /\ last \in Nat
    BY DEF TypeOK
  <1>2. (IF prev = 0 THEN 0 ELSE log[s][prev].term) \in Nat
    <2>1. prev # 0 => log[s][prev] \in Entry
      BY <1>1
    <2> QED
      BY <2>1, Zenon DEF Entry
  <1>3. SubSeq(log[s], prev + 1, last) \in Seq(Entry)
    BY <1>1
  <1> QED
    BY <1>1, <1>2, <1>3, Zenon DEF Stretch, Request

\* Types hold at first.
LEMMA TypeInit == Init => TypeOK
  BY DEF Init, TypeOK, Entry

\* Every step keeps the types.
LEMMA TypeNext == ASSUME TypeOK, [Next]_vars PROVE TypeOK'
  <1>1. CASE UNCHANGED vars
    BY <1>1, Zenon DEF TypeOK, vars
  <1>2. ASSUME NEW s \in Server, Decide(s) \/ Flush(s) \/ Observe(s)
        PROVE  TypeOK'
    BY <1>2, Zenon DEF TypeOK, Decide, Flush, Observe, Commit, Lossy
  <1>3. ASSUME NEW s \in Server, Apply(s)
        PROVE  TypeOK'
    <2>1. PICK i \in 1..Len(log[s]) : applied' = applied \cup {<<i, log[s][i]>>}
      BY <1>3, Zenon DEF Apply
    <2>2. log[s] \in Seq(Entry)
      BY Zenon DEF TypeOK
    <2>3. i \in Nat /\ log[s][i] \in Entry
      BY <2>2
    <2>4. applied' \subseteq Nat \X Entry
      BY <2>1, <2>3 DEF TypeOK
    <2> QED
      BY <1>3, <2>4, Zenon DEF TypeOK, Apply, Lossy
  <1>4. ASSUME NEW s \in Server, Campaign(s)
        PROVE  TypeOK'
    <2>1. term[s] \in Nat /\ log[s] \in Seq(Entry) /\ term[s] + 1 \in Nat
      BY DEF TypeOK
    <2>2. /\ term' \in [Server -> Nat]
          /\ elections' \subseteq Election
          /\ ballots' \subseteq [term : Nat, voter : Server, cand : Server]
      <3>1. /\ [term |-> term[s] + 1, cand |-> s, log |-> log[s]] \in Election
            /\ [term |-> term[s] + 1, voter |-> s, cand |-> s]
                  \in [term : Nat, voter : Server, cand : Server]
        BY <2>1 DEF Election
      <3> QED
        BY <1>4, <2>1, <3>1, Zenon DEF Campaign, TypeOK
    <2>3. /\ log' \in [Server -> Seq(Entry)]
          /\ leaders' \subseteq Nat \X Server
          /\ commitIndex' \in [Server -> Nat]
      <3>1. CASE UNCHANGED <<log, leaders, commitIndex>>
        BY <3>1, Zenon DEF TypeOK
      <3>2. CASE Lead(s, term[s] + 1)
        BY <2>1, <3>2, LeadType, Zenon
      <3> QED
        BY <1>4, <3>1, <3>2, Zenon DEF Campaign
    <2> QED
      BY <1>4, <2>2, <2>3, Zenon DEF Campaign, TypeOK, Lossy
  <1>5. ASSUME NEW s \in Server, Win(s)
        PROVE  TypeOK'
    <2>1. term[s] \in Nat
      BY Zenon DEF TypeOK
    <2>2. /\ log' \in [Server -> Seq(Entry)]
          /\ leaders' \subseteq Nat \X Server
          /\ commitIndex' \in [Server -> Nat]
      BY <1>5, <2>1, LeadType, Zenon DEF Win
    <2> QED
      BY <1>5, <2>2, Zenon DEF Win, TypeOK, Lossy
  <1>6. ASSUME NEW s \in Server, NEW e \in elections, Vote(s, e)
        PROVE  TypeOK'
    <2>1. e.term \in Nat /\ e.cand \in Server
      BY ElectionFields, Zenon
    <2>2. term' \in [Server -> Nat]
      BY <1>6, <2>1, Zenon DEF Vote, TypeOK
    <2>3. [term |-> e.term, voter |-> s, cand |-> e.cand]
              \in [term : Nat, voter : Server, cand : Server]
      BY <2>1
    <2>4. ballots' \subseteq [term : Nat, voter : Server, cand : Server]
      BY <1>6, <2>3, Zenon DEF Vote, TypeOK
    <2> QED
      BY <1>6, <2>2, <2>4, Zenon DEF Vote, TypeOK, Lossy
  <1>7. ASSUME NEW s \in Server, Propose(s)
        PROVE  TypeOK'
    <2>1. term[s] \in Nat
      BY Zenon DEF TypeOK
    <2>2. log' \in [Server -> Seq(Entry)] /\ commitIndex' \in [Server -> Nat]
      BY <1>7, <2>1, ExtendType, Zenon DEF Propose, Commit, TypeOK
    <2> QED
      BY <1>7, <2>2, Zenon DEF Propose, TypeOK, Lossy
  <1>8. ASSUME NEW s \in Server, NEW f \in Server, Send(s, f)
        PROVE  TypeOK'
    <2>1. requests' \subseteq Request
      <3>1. PICK prev \in 0..Len(log[s]) : \E last \in prev..Len(log[s]) :
                requests' \subseteq requests \cup {Stretch(s, f, prev, last)}
        BY <1>8, Zenon DEF Send
      <3>2. PICK last \in prev..Len(log[s]) :
                requests' \subseteq requests \cup {Stretch(s, f, prev, last)}
        BY <3>1, Zenon
      <3>3. Stretch(s, f, prev, last) \in Request
        BY StretchType, Zenon
      <3> QED
        BY <3>2, <3>3, Zenon DEF TypeOK
    <2> QED
      BY <1>8, <2>1, Zenon DEF Send, TypeOK
  <1>9. ASSUME NEW s \in Server, NEW m \in requests, Store(s, m)
        PROVE  TypeOK'
    <2>1. m \in Request
      BY Zenon DEF TypeOK
    <2>2. m.term \in Nat /\ m.prevIndex + Len(m.entries) \in Nat /\ m.to = s
      BY <1>9, <2>1, RequestFields DEF Store
    <2>3. Merged(s, m) \in Seq(Entry)
      BY <1>9, <2>1, MergedType, Zenon DEF Store
    <2>4. /\ term' \in [Server -> Nat] /\ log' \in [Server -> Seq(Entry)]
          /\ commitIndex' \in [Server -> Nat]
      BY <1>9, <2>2, <2>3, Zenon DEF Store, TypeOK
    <2>5. acks' \subseteq [voter : Server, term : Nat, index : Nat]
      BY <1>9, <2>2 DEF Store, TypeOK
    <2> QED
      BY <1>9, <2>4, <2>5, Zenon DEF Store, TypeOK
  <1> QED
    BY <1>1, <1>2, <1>3, <1>4, <1>5, <1>6, <1>7, <1>8, <1>9, Zenon DEF Next

-----------------------------------------------------------------------------
(* Logs and terms.                                                         *)

\* The terms of the entries of a log, and the 0 before the first, are terms.
LEMMA LogTermType ==
    ASSUME NEW lg \in Seq(Entry), NEW k \in 0..Len(lg)
    PROVE  LogTerm(lg, k) \in Nat /\ (k > 0 => lg[k] \in Entry /\ lg[k].term = LogTerm(lg, k))
  <1>1. k > 0 => lg[k] \in Entry
    OBVIOUS
  <1>2. k > 0 => lg[k].term \in Nat
    BY <1>1, Zenon DEF Entry
  <1> QED
    BY <1>1, <1>2 DEF LogTerm

\* A longer log follows the same leader: the entries of a log that is extended
\* or cut stay what they were.
LEMMA FollowsPrefix ==
    ASSUME NEW lg \in Seq(Entry), NEW h \in Seq(Entry), NEW n \in Nat, NEW c \in 0..n, NEW e,
           Follows(lg, n, e), c <= Len(h), \A k \in 1..c : h[k].term = lg[k].term
    PROVE  Follows(h, c, e)
  BY DEF Follows, LogTerm

\* In a term only one election is won.
LEMMA WonUnique ==
    ElectionInv /\ LogInv => \A d, e \in Won : d.term = e.term => d = e
  <1> SUFFICES ASSUME ElectionInv, LogInv, NEW d \in Won, NEW e \in Won, d.term = e.term
               PROVE  d = e
    OBVIOUS
  <1>1. ElectionSafety
    BY Zenon DEF ElectionInv
  <1>2. d \in elections /\ e \in elections
        /\ <<d.term, d.cand>> \in leaders /\ <<e.term, e.cand>> \in leaders
    BY Zenon DEF Won
  <1>3. <<d.term, d.cand>>[1] = <<e.term, e.cand>>[1]
    OBVIOUS
  <1>4. d.cand = e.cand
    BY <1>1, <1>2, <1>3, Zenon DEF ElectionSafety
  <1> QED
    BY <1>2, <1>4, Zenon DEF LogInv, ElectionsOnce

\* Whoever was elected ran.
LEMMA WinnerRan ==
    ElectionInv /\ LogInv =>
        \A l \in leaders : \E e \in Won : e.term = l[1] /\ e.cand = l[2]
  <1> SUFFICES ASSUME ElectionInv, LogInv, NEW l \in leaders
               PROVE  \E e \in Won : e.term = l[1] /\ e.cand = l[2]
    OBVIOUS
  <1>1. l \in Nat \X Server
    BY Zenon DEF ElectionInv, TypeOK
  <1>4. PICK e \in elections : e.term = l[1] /\ e.cand = l[2]
    BY Zenon DEF ElectionInv, LeadersRan
  <1>5. <<e.term, e.cand>> = l
    BY <1>1, <1>4
  <1> QED
    BY <1>4, <1>5, Zenon DEF Won

\* Two logs that were grown by leaders and have the same term at an index have
\* the same terms below it: both follow the leader of that term.
LEMMA GrownFollows ==
    ASSUME ElectionInv, LogInv, NEW lg \in Seq(Entry), Grown(lg), NEW e \in Won,
           NEW i \in 0..Len(lg), LogTerm(lg, i) = LeaderTerm(e, i)
    PROVE  Follows(lg, i, e)
  <1>1. e \in elections /\ Grown(e.log)
    BY Zenon DEF Won, LogInv, LogsGrown
  <1>2. e.term \in Nat /\ e.log \in Seq(Entry) /\ Len(e.log) \in Nat
    BY <1>1, ElectionFields, Zenon DEF ElectionInv
  <1>3. CASE i = 0
    BY <1>2, <1>3 DEF Follows, LogTerm, LeaderTerm
  <1>4. CASE i > 0
    <2>1. PICK d \in Won : d.term = lg[i].term /\ Len(d.log) < i /\ Follows(lg, i, d)
      BY <1>4 DEF Grown
    <2>2. LogTerm(lg, i) = lg[i].term
      BY <1>4 DEF LogTerm
    <2>3. CASE i > Len(e.log)
      <3>1. d.term = e.term
        BY <2>1, <2>2, <2>3, Zenon DEF LeaderTerm
      <3>2. d = e
        BY <3>1, WonUnique, Zenon
      <3> QED
        BY <2>1, <3>2, Zenon
    <2>4. CASE i <= Len(e.log)
      <3>1. i \in 1..Len(e.log)
        BY <1>2, <1>4, <2>4
      <3>2. PICK c \in Won : c.term = e.log[i].term /\ Follows(e.log, i, c)
        BY <1>1, <3>1, Zenon DEF Grown
      <3>3. e.log[i].term = lg[i].term
        BY <1>2, <1>4, <2>2, <2>4 DEF LeaderTerm, LogTerm
      <3>4. c = d
        BY <2>1, <3>2, <3>3, WonUnique, Zenon
      <3>5. \A k \in 0..i : LogTerm(e.log, k) = LogTerm(lg, k)
        BY <2>1, <3>2, <3>4, Zenon DEF Follows
      <3>6. \A k \in 0..i : LeaderTerm(e, k) = LogTerm(e.log, k)
        BY <1>2, <2>4 DEF LeaderTerm
      <3> QED
        BY <3>5, <3>6 DEF Follows
    <2> QED
      BY <1>2, <2>3, <2>4
  <1> QED
    BY <1>3, <1>4

\* Conversely, what follows a leader is grown.
LEMMA FollowsGrown ==
    ASSUME ElectionInv, LogInv, NEW lg \in Seq(Entry), NEW e \in Won, NEW n \in Nat,
           Follows(lg, n, e), NEW i \in 1..n
    PROVE  \E d \in Won : d.term = lg[i].term /\ Len(d.log) < i /\ Follows(lg, i, d)
  <1>1. e \in elections /\ Grown(e.log)
    BY Zenon DEF Won, LogInv, LogsGrown
  <1>2. e.term \in Nat /\ e.log \in Seq(Entry) /\ Len(e.log) \in Nat
    BY <1>1, ElectionFields, Zenon DEF ElectionInv
  <1>3. lg[i].term = LeaderTerm(e, i) /\ i <= Len(lg)
    BY DEF Follows, LogTerm
  <1>4. \A k \in 0..i : LogTerm(lg, k) = LeaderTerm(e, k)
    BY DEF Follows
  <1>5. CASE i > Len(e.log)
    <2>1. lg[i].term = e.term /\ Follows(lg, i, e)
      BY <1>3, <1>4, <1>5, Zenon DEF LeaderTerm, Follows
    <2> QED
      BY <1>5, <2>1, Zenon
  <1>6. CASE i <= Len(e.log)
    <2>1. PICK d \in Won : d.term = e.log[i].term /\ Len(d.log) < i /\ Follows(e.log, i, d)
      BY <1>1, <1>2, <1>6 DEF Grown
    <2>2. \A k \in 0..i : LeaderTerm(e, k) = LogTerm(e.log, k)
      BY <1>2, <1>6 DEF LeaderTerm
    <2>3. Follows(lg, i, d)
      BY <1>3, <1>4, <2>1, <2>2, Zenon DEF Follows
    <2>4. lg[i].term = e.log[i].term
      BY <1>3, <1>6 DEF LeaderTerm, LogTerm
    <2> QED
      BY <2>1, <2>3, <2>4, Zenon
  <1> QED
    BY <1>2, <1>5, <1>6

-----------------------------------------------------------------------------
(* Storing a request.                                                      *)

\* What storing a request does to a log.
LEMMA MergedLog ==
    ASSUME TypeOK, NEW m \in Request, NEW s \in Server,
           PrevMatches(s, m)
    PROVE  /\ Merged(s, m) \in Seq(Entry)
           /\ m.prevIndex + Len(m.entries) <= Len(Merged(s, m))
           /\ Merged(s, m) = log[s] \/ Len(Merged(s, m)) = m.prevIndex + Len(m.entries)
           /\ \A k \in 1..m.prevIndex : Merged(s, m)[k] = log[s][k]
           /\ \A k \in 1..Len(m.entries) :
                 /\ Merged(s, m)[m.prevIndex + k].term = m.entries[k].term
                 /\ \/ Merged(s, m)[m.prevIndex + k] = m.entries[k]
                    \/ /\ m.prevIndex + k <= Len(log[s])
                       /\ Merged(s, m)[m.prevIndex + k] = log[s][m.prevIndex + k]
  <1> DEFINE n == m.prevIndex + Len(m.entries)
             e(k) == IF \A i \in 1..(k - m.prevIndex) : Present(s, m, i)
                     THEN log[s][k]
                     ELSE m.entries[k - m.prevIndex]
  <1>1. /\ log[s] \in Seq(Entry) /\ Len(log[s]) \in Nat
        /\ m.prevIndex \in Nat /\ m.entries \in Seq(Entry) /\ Len(m.entries) \in Nat
        /\ m.prevIndex <= Len(log[s])
    BY RequestFields DEF TypeOK, PrevMatches
  <1>2. Merged(s, m) \in Seq(Entry)
    BY MergedType, Zenon
  <1>3. CASE \A i \in 1..Len(m.entries) : Present(s, m, i)
    <2>1. Merged(s, m) = log[s]
      BY <1>3, Zenon DEF Merged
    <2>2. \A k \in 1..Len(m.entries) :
             /\ m.prevIndex + k <= Len(log[s])
             /\ log[s][m.prevIndex + k].term = m.entries[k].term
      BY <1>3, Zenon DEF Present
    <2>3. n <= Len(log[s])
      <3>1. CASE Len(m.entries) = 0
        BY <1>1, <3>1
      <3>2. CASE Len(m.entries) > 0
        BY <1>1, <2>2, <3>2
      <3> QED
        BY <1>1, <3>1, <3>2
    <2> QED
      BY <1>2, <2>1, <2>2, <2>3, Zenon
  <1>4. CASE ~(\A i \in 1..Len(m.entries) : Present(s, m, i))
    <2>1. Merged(s, m) = [k \in 1..n |-> e(k)]
      BY <1>4, Zenon DEF Merged
    <2>2. n \in Nat
      BY <1>1
    <2>3. \A k \in 1..m.prevIndex : e(k) = log[s][k]
      <3> SUFFICES ASSUME NEW k \in 1..m.prevIndex PROVE e(k) = log[s][k]
        OBVIOUS
      <3>1. 1..(k - m.prevIndex) = {}
        BY <1>1
      <3> QED
        BY <3>1, Zenon
    <2>4. ASSUME NEW k \in 1..Len(m.entries)
          PROVE  /\ e(m.prevIndex + k).term = m.entries[k].term
                 /\ \/ e(m.prevIndex + k) = m.entries[k]
                    \/ /\ m.prevIndex + k <= Len(log[s])
                       /\ e(m.prevIndex + k) = log[s][m.prevIndex + k]
      <3>1. (m.prevIndex + k) - m.prevIndex = k
        BY <1>1
      <3>2. CASE \A i \in 1..k : Present(s, m, i)
        <4>1. e(m.prevIndex + k) = log[s][m.prevIndex + k]
          BY <3>1, <3>2, Zenon
        <4>2. Present(s, m, k)
          BY <3>2
        <4> QED
          BY <4>1, <4>2, Zenon DEF Present
      <3>3. CASE ~(\A i \in 1..k : Present(s, m, i))
        <4>1. e(m.prevIndex + k) = m.entries[k]
          BY <3>1, <3>3, Zenon
        <4> QED
          BY <4>1, Zenon
      <3> QED
        BY <3>2, <3>3, Zenon
    <2>5. /\ \A k \in 1..m.prevIndex : k \in 1..n
          /\ \A k \in 1..Len(m.entries) : m.prevIndex + k \in 1..n
      BY <1>1, Within, Zenon
    <2> HIDE DEF e
    <2>6. /\ \A k \in 1..m.prevIndex : Merged(s, m)[k] = e(k)
          /\ \A k \in 1..Len(m.entries) : Merged(s, m)[m.prevIndex + k] = e(m.prevIndex + k)
      BY <2>1, <2>5, Zenon
    <2>7. Len(Merged(s, m)) = n
      <3>1. DOMAIN Merged(s, m) = 1..n
        BY <2>1, Zenon
      <3> HIDE DEF n
      <3> QED
        BY <1>2, <2>2, <3>1, LengthIs, Zenon
    <2>8. n <= Len(Merged(s, m))
      BY <2>2, <2>7
    <2>9. \A k \in 1..m.prevIndex : Merged(s, m)[k] = log[s][k]
      BY <2>3, <2>6, Zenon
    <2>10. ASSUME NEW k \in 1..Len(m.entries)
           PROVE  /\ Merged(s, m)[m.prevIndex + k].term = m.entries[k].term
                  /\ \/ Merged(s, m)[m.prevIndex + k] = m.entries[k]
                     \/ /\ m.prevIndex + k <= Len(log[s])
                        /\ Merged(s, m)[m.prevIndex + k] = log[s][m.prevIndex + k]
      <3>1. Merged(s, m)[m.prevIndex + k] = e(m.prevIndex + k)
        BY <2>6, Zenon
      <3> QED
        BY <2>4, <3>1, Zenon
    <2> QED
      BY <1>2, <2>7, <2>8, <2>9, <2>10, Zenon
  <1> QED
    BY <1>3, <1>4, Zenon

\* The part of a log that does not disagree with the request is kept.
LEMMA MergedKeeps ==
    ASSUME TypeOK, NEW m \in Request, NEW s \in Server,
           PrevMatches(s, m), NEW c \in 0..Len(log[s]),
           \A k \in 1..Len(m.entries) :
               m.prevIndex + k <= c => log[s][m.prevIndex + k].term = m.entries[k].term
    PROVE  /\ c <= Len(Merged(s, m))
           /\ \A k \in 1..c : Merged(s, m)[k] = log[s][k]
  <1> DEFINE n == m.prevIndex + Len(m.entries)
             e(k) == IF \A i \in 1..(k - m.prevIndex) : Present(s, m, i)
                     THEN log[s][k]
                     ELSE m.entries[k - m.prevIndex]
  <1>1. /\ log[s] \in Seq(Entry) /\ Len(log[s]) \in Nat
        /\ m.prevIndex \in Nat /\ m.entries \in Seq(Entry) /\ Len(m.entries) \in Nat
        /\ m.prevIndex <= Len(log[s]) /\ c \in Nat
    BY RequestFields DEF TypeOK, PrevMatches
  <1>2. \A k \in 1..Len(m.entries) : m.prevIndex + k <= c => Present(s, m, k)
    BY <1>1 DEF Present
  <1>3. CASE \A i \in 1..Len(m.entries) : Present(s, m, i)
    BY <1>1, <1>3 DEF Merged
  <1>4. CASE ~(\A i \in 1..Len(m.entries) : Present(s, m, i))
    <2>1. Merged(s, m) = [k \in 1..n |-> e(k)]
      BY <1>4, Zenon DEF Merged
    <2>2. c < n
      BY <1>1, <1>2, <1>4
    <2>3. ASSUME NEW k \in 1..c
          PROVE  e(k) = log[s][k]
      <3>1. \A i \in 1..(k - m.prevIndex) : i \in 1..Len(m.entries) /\ m.prevIndex + i <= c
        BY <1>1, <2>2
      <3>2. \A i \in 1..(k - m.prevIndex) : Present(s, m, i)
        BY <1>2, <3>1, Zenon
      <3> QED
        BY <3>2, Zenon
    <2>4. n \in Nat /\ Merged(s, m) \in Seq(Entry)
      BY <1>1, MergedType
    <2>5. \A k \in 1..c : k \in 1..n
      BY <1>1, <2>2
    <2> HIDE DEF e, n
    <2>7. Len(Merged(s, m)) = n
      BY <2>1, <2>4
    <2>6. \A k \in 1..c : Merged(s, m)[k] = e(k)
      BY <2>1, <2>5, Zenon
    <2> QED
      BY <1>1, <2>2, <2>3, <2>4, <2>6, <2>7
  <1> QED
    BY <1>3, <1>4, Zenon

\* The entries in the system: a step that places none keeps each unique.
LEMMA PlacedQuiet ==
    ASSUME ElectionInv, LogInv, TypeOK', TermsGrow,
           Won \subseteq Won',
           \A e \in Won : term'[e.cand] = e.term => Len(log[e.cand]) <= Len(log'[e.cand]),
           \A i \in Nat, x \in Entry : Placed(i, x)' => Placed(i, x)
    PROVE  PlacedLed' /\ EntryUnique'
  <1>1. EntryUnique'
    BY Zenon DEF LogInv, EntryUnique
  <1>2. ASSUME NEW i \in Nat, NEW x \in Entry, Placed(i, x)'
        PROVE  \E e \in Won' :
                /\ e.term = x.term /\ Len(e.log) < i
                /\ term'[e.cand] = e.term => i <= Len(log'[e.cand])
    <2>1. PICK e \in Won :
                /\ e.term = x.term /\ Len(e.log) < i
                /\ term[e.cand] = e.term => i <= Len(log[e.cand])
      BY <1>2, Zenon DEF LogInv, PlacedLed
    <2>2. e \in elections
      BY Zenon DEF Won
    <2>3. e.cand \in Server /\ e.term \in Nat /\ e.term <= term[e.cand]
      BY <2>2, ElectionFields, Zenon DEF ElectionInv, LogInv, ElectionsPast
    <2>4. /\ term[e.cand] \in Nat /\ term'[e.cand] \in Nat
          /\ Len(log[e.cand]) \in Nat /\ Len(log'[e.cand]) \in Nat
      BY <2>3, ServerTypes, ServerTypesNext, Zenon DEF ElectionInv
    <2>5. term'[e.cand] = e.term => i <= Len(log'[e.cand])
      BY <2>1, <2>3, <2>4 DEF TermsGrow
    <2> QED
      BY <2>1, <2>5, Zenon
  <1>3. PlacedLed'
    BY <1>2, Zenon DEF PlacedLed
  <1> QED
    BY <1>1, <1>3, Zenon

\* A step that changes no log, places no entry and elects nobody.
LEMMA SettledLog ==
    ASSUME ElectionInv, LogInv, TypeOK', TermsGrow,
           UNCHANGED <<log, elections, leaders>>,
           RequestsFollow',
           \A i \in Nat, x \in Entry : Placed(i, x)' => Placed(i, x)
    PROVE  LogInv'
  <1>1. Won' = Won /\ \A lg : Grown(lg)' <=> Grown(lg)
    BY Zenon DEF Won, Grown
  <1>2. /\ \A s \in Server : term[s] \in Nat /\ term'[s] \in Nat /\ log[s] \in Seq(Entry)
        /\ \A e \in elections : e.term \in Nat /\ e.cand \in Server
    BY ElectionFields, Zenon DEF ElectionInv, TypeOK
  <1>3. ElectionsOnce'
    BY Zenon DEF LogInv, ElectionsOnce
  <1>4. \A e \in elections :
           /\ e.term <= term[e.cand] /\ e.term <= term'[e.cand]
           /\ term'[e.cand] = e.term => term[e.cand] = e.term
    BY <1>2 DEF LogInv, ElectionsPast, TermsGrow
  <1>5. ElectionsPast'
    BY <1>4, Zenon DEF LogInv, ElectionsPast
  <1>7. TermsPast'
    <2> SUFFICES ASSUME NEW s \in Server, NEW i \in 1..Len(log[s])
                 PROVE  log[s][i].term <= term'[s]
      BY Zenon DEF TermsPast
    <2>1. log[s][i].term <= term[s] /\ log[s][i] \in Entry
      BY <1>2 DEF LogInv, TermsPast
    <2> QED
      BY <1>2, <2>1 DEF Entry, TermsGrow
  <1>8. CandidateLog'
    BY <1>4, Zenon DEF LogInv, CandidateLog, Led
  <1>9. LogsGrown'
    BY <1>1, Zenon DEF LogInv, LogsGrown
  <1>10. LeaderLog'
    <2> SUFFICES ASSUME NEW e \in Won, term'[e.cand] = e.term
                 PROVE  /\ Len(e.log) < Len(log[e.cand])
                        /\ Follows(log[e.cand], Len(log[e.cand]), e)
      BY <1>1, Zenon DEF LeaderLog
    <2>1. e \in elections /\ term[e.cand] = e.term
      BY <1>4, Zenon DEF Won
    <2> QED
      BY <2>1, Zenon DEF LogInv, LeaderLog
  <1>11. PlacedLed' /\ EntryUnique'
    BY <1>1, <1>2, PlacedQuiet
  <1> QED
    BY <1>3, <1>5, <1>7, <1>8, <1>9, <1>10, <1>11, Zenon DEF LogInv

\* One that, moreover, sends no entries.
LEMMA QuietLog ==
    ASSUME ElectionInv, LogInv, TypeOK', TermsGrow,
           UNCHANGED <<log, elections, leaders>>,
           requests' \subseteq requests,
           \A a \in applied' : a \in applied \/ \E s \in Server :
               \E i \in 1..Len(log[s]) : a = <<i, log[s][i]>>
    PROVE  LogInv'
  <1>2. RequestsFollow'
    <2>1. Won' = Won
      BY Zenon DEF Won
    <2> QED
      BY <2>1, Zenon DEF LogInv, RequestsFollow
  <1>3. \A i \in Nat, x \in Entry : Placed(i, x)' => Placed(i, x)
    <2> SUFFICES ASSUME NEW i \in Nat, NEW x \in Entry, Placed(i, x)'
                 PROVE  Placed(i, x)
      OBVIOUS
    <2>1. CASE <<i, x>> \in applied'
      <3>1. CASE <<i, x>> \in applied
        BY <3>1, Zenon DEF Placed
      <3>2. CASE \E s \in Server : \E k \in 1..Len(log[s]) : <<i, x>> = <<k, log[s][k]>>
        BY <3>2, Zenon DEF Placed
      <3> QED
        BY <2>1, <3>1, <3>2, Zenon
    <2>2. CASE ~(<<i, x>> \in applied')
      BY <2>2, Zenon DEF Placed
    <2> QED
      BY <2>1, <2>2, Zenon
  <1> QED
    BY <1>2, <1>3, SettledLog, Zenon

\* Campaign by more than one vote: the new election is not won yet.
LEMMA ElectionLog ==
    ASSUME ElectionInv, LogInv, TypeOK', NEW s \in Server,
           term' = [term EXCEPT ![s] = term[s] + 1],
           elections' = elections \cup {[term |-> term[s] + 1, cand |-> s, log |-> log[s]]},
           requests' \subseteq requests,
           UNCHANGED <<log, leaders, applied>>
    PROVE  LogInv'
  <1> DEFINE own == [term |-> term[s] + 1, cand |-> s, log |-> log[s]]
  <1>1. /\ own.term = term[s] + 1 /\ own.cand = s /\ own.log = log[s]
        /\ elections' = elections \cup {own}
    OBVIOUS
  <1>2. /\ TypeOK
        /\ \A x \in Server : term[x] \in Nat /\ log[x] \in Seq(Entry) /\ Len(log[x]) \in Nat
        /\ \A e \in elections : e.term \in Nat /\ e.cand \in Server
        /\ term \in [Server -> Nat]
    BY ServerTypes, ElectionFields, Zenon DEF ElectionInv, TypeOK
  <1>3. /\ term'[s] = term[s] + 1
        /\ \A x \in Server \ {s} : term'[x] = term[x]
        /\ TermsGrow
    BY <1>2 DEF TermsGrow
  <1>4. \A e \in elections : e.term <= term[e.cand] /\ e.term <= term'[e.cand]
    BY <1>2, <1>3 DEF LogInv, ElectionsPast
  <1>5. \A e \in elections : e.cand = s => e.term < own.term
    BY <1>1, <1>2, <1>4
  <1>6. <<own.term, own.cand>> \notin leaders
    <2> SUFFICES ASSUME <<own.term, own.cand>> \in leaders PROVE FALSE
      OBVIOUS
    <2>1. PICK e \in Won : e.term = own.term /\ e.cand = own.cand
      BY WinnerRan, Zenon
    <2> QED
      BY <1>1, <1>2, <1>5, <2>1 DEF Won
  <1> HIDE DEF own
  <1>7. Won' = Won /\ \A lg : Grown(lg)' <=> Grown(lg)
    BY <1>1, <1>6, Zenon DEF Won, Grown
  <1>8. ElectionsOnce'
    BY <1>1, <1>2, <1>5 DEF LogInv, ElectionsOnce
  <1>9. ElectionsPast'
    <2>1. own.term <= term'[own.cand]
      BY <1>1, <1>2, <1>3
    <2>2. \A i \in 1..Len(own.log) : own.log[i].term < own.term
      <3> SUFFICES ASSUME NEW i \in 1..Len(log[s]) PROVE log[s][i].term < term[s] + 1
        BY <1>1, Zenon
      <3>1. log[s][i] \in Entry /\ log[s][i].term <= term[s]
        BY <1>2 DEF LogInv, TermsPast
      <3> QED
        BY <1>2, <3>1 DEF Entry
    <2> QED
      BY <1>1, <1>4, <2>1, <2>2, Zenon DEF LogInv, ElectionsPast
  <1>12. TermsPast'
    <2> SUFFICES ASSUME NEW x \in Server, NEW i \in 1..Len(log[x])
                 PROVE  log[x][i].term <= term'[x]
      BY Zenon DEF TermsPast
    <2>1. log[x][i].term <= term[x] /\ log[x][i] \in Entry
      BY <1>2 DEF LogInv, TermsPast
    <2>2. term[x] <= term'[x] /\ term[x] \in Nat /\ term'[x] \in Nat
      BY <1>2, <1>3 DEF TermsGrow
    <2> QED
      BY <2>1, <2>2 DEF Entry
  <1>13. CandidateLog'
    <2> SUFFICES ASSUME NEW e \in elections', term'[e.cand] = e.term, ~Led(e.term)
                 PROVE  log[e.cand] = e.log
      BY Zenon DEF CandidateLog, Led
    <2>1. CASE e = own
      BY <1>1, <2>1, Zenon
    <2>2. CASE e \in elections
      <3>1. term[e.cand] = e.term
        BY <1>1, <1>2, <1>3, <1>4, <1>5, <2>2
      <3> QED
        BY <2>2, <3>1, Zenon DEF LogInv, CandidateLog
    <2> QED
      BY <1>1, <2>1, <2>2, Zenon
  <1>14. LogsGrown'
    BY <1>1, <1>7, Zenon DEF LogInv, LogsGrown
  <1>15. LeaderLog'
    <2> SUFFICES ASSUME NEW e \in Won, term'[e.cand] = e.term
                 PROVE  /\ Len(e.log) < Len(log[e.cand])
                        /\ Follows(log[e.cand], Len(log[e.cand]), e)
      BY <1>7, Zenon DEF LeaderLog
    <2>1. e \in elections
      BY Zenon DEF Won
    <2>2. term[e.cand] = e.term
      BY <1>1, <1>2, <1>3, <1>4, <1>5, <2>1
    <2> QED
      BY <2>2, Zenon DEF LogInv, LeaderLog
  <1>16. RequestsFollow'
    BY <1>7, Zenon DEF LogInv, RequestsFollow
  <1>17. \A i \in Nat, x \in Entry : Placed(i, x)' => Placed(i, x)
    BY <1>1, Zenon DEF Placed
  <1>18. PlacedLed' /\ EntryUnique'
    BY <1>2, <1>3, <1>7, <1>17, PlacedQuiet
  <1> QED
    BY <1>8, <1>9, <1>12, <1>13, <1>14, <1>15, <1>16, <1>18, Zenon DEF LogInv

\* A leader adds an entry of its term, perhaps the one it is elected with.
LEMMA LeadLog ==
    ASSUME ElectionInv, LogInv, ElectionInv', NEW s \in Server, NEW x \in Entry, NEW own,
           x.term = term'[s],
           log' = [log EXCEPT ![s] = Append(log[s], x)],
           leaders' = leaders \cup {<<term'[s], s>>},
           elections' = elections \cup {own}, own.cand = s, own.term = term'[s],
           \/ own \in elections /\ term'[s] = term[s]
           \/ own.log = log[s] /\ term'[s] = term[s] + 1,
           \A v \in Server \ {s} : term'[v] = term[v],
           requests' \subseteq requests,
           applied' = applied
    PROVE  LogInv'
  <1> DEFINE t == term'[s]
             lg == log[s]
             n == Len(log[s])
  <1>1. /\ TypeOK /\ TypeOK'
        /\ \A v \in Server : term[v] \in Nat /\ log[v] \in Seq(Entry) /\ Len(log[v]) \in Nat
        /\ \A v \in Server : term'[v] \in Nat /\ log'[v] \in Seq(Entry) /\ Len(log'[v]) \in Nat
    BY ServerTypes, ServerTypesNext, Zenon DEF ElectionInv
  <1>2. /\ \A e \in elections : /\ e.term \in Nat /\ e.cand \in Server
                                /\ e.log \in Seq(Entry) /\ Len(e.log) \in Nat
        /\ log \in [Server -> Seq(Entry)]
    BY <1>1, ElectionFields, Zenon DEF TypeOK
  <1>3. /\ log'[s] = Append(lg, x) /\ Len(log'[s]) = n + 1 /\ log'[s][n + 1] = x
        /\ \A i \in 1..n : log'[s][i] = lg[i]
        /\ \A v \in Server \ {s} : log'[v] = log[v]
    BY <1>1, <1>2
  <1>4. TermsGrow
    BY <1>1 DEF TermsGrow
  <1>5. \A e \in elections : e.term <= term[e.cand] /\ e.term <= term'[e.cand]
    BY <1>1, <1>2, <1>4 DEF LogInv, ElectionsPast, TermsGrow
  <1>6. \/ own \in elections /\ t = term[s]
        \/ \A e \in elections : e.cand = s => e.term < t
    <2>1. CASE own \in elections /\ t = term[s]
      BY <2>1, Zenon
    <2>2. CASE t = term[s] + 1
      BY <1>1, <1>2, <1>5, <2>2
    <2> QED
      BY <2>1, <2>2, Zenon
  \* Only s is elected in its term.
  <1>7. \A l \in leaders : l[1] = t => l = <<t, s>>
    <2>1. ElectionSafety'
      BY Zenon DEF ElectionInv
    <2>2. <<t, s>>[1] = t
      OBVIOUS
    <2> QED
      BY <2>1, <2>2, Zenon DEF ElectionSafety
  <1>8. ElectionsOnce'
    <2>1. \A e \in elections : e.term = own.term /\ e.cand = own.cand => e = own
      BY <1>1, <1>2, <1>6 DEF LogInv, ElectionsOnce
    <2> QED
      BY <2>1, Zenon DEF LogInv, ElectionsOnce
  <1>9. Won' = Won \cup {own}
    <2>1. \A e \in elections : <<e.term, e.cand>> = <<t, s>> => e = own
      BY <1>8, Zenon DEF ElectionsOnce
    <2> QED
      BY <2>1, Zenon DEF Won
  \* What s has so far is what it was elected with and entries of its term.
  <1>10. /\ own.log \in Seq(Entry) /\ Grown(own.log)
         /\ Len(own.log) \in Nat /\ Len(own.log) <= n /\ Follows(lg, n, own)
    <2>1. CASE own.log = lg
      <3>1. Grown(own.log) /\ own.log \in Seq(Entry)
        BY <1>1, <2>1, Zenon DEF LogInv, LogsGrown
      <3>2. Follows(lg, n, own)
        BY <1>1, <2>1 DEF Follows, LeaderTerm
      <3> QED
        BY <1>1, <2>1, <3>1, <3>2
    <2>2. CASE own \in Won /\ t = term[s]
      <3>1. own \in elections
        BY <2>2, Zenon DEF Won
      <3>2. Len(own.log) < n /\ Follows(lg, n, own)
        BY <2>2, Zenon DEF LogInv, LeaderLog
      <3> QED
        BY <1>1, <1>2, <3>1, <3>2 DEF LogInv, LogsGrown
    <2>3. CASE own \in elections /\ own \notin Won /\ t = term[s]
      <3>1. ~Led(t)
        BY <1>7, <2>3, Zenon DEF Led, Won
      <3>2. own.log = lg
        BY <2>3, <3>1, Zenon DEF LogInv, CandidateLog
      <3> QED
        BY <2>1, <3>2, Zenon
    <2> QED
      BY <2>1, <2>2, <2>3, Zenon
  <1>11. ElectionsPast'
    <2>1. ASSUME own.log = lg, t = term[s] + 1
          PROVE  \A i \in 1..Len(own.log) : own.log[i].term < own.term
      <3> SUFFICES ASSUME NEW i \in 1..n PROVE lg[i].term < t
        BY <2>1, Zenon
      <3>1. lg[i] \in Entry /\ lg[i].term <= term[s]
        BY <1>1 DEF LogInv, TermsPast
      <3> QED
        BY <1>1, <2>1, <3>1 DEF Entry
    <2>2. own.term <= term'[own.cand]
      BY <1>1
    <2>3. \A i \in 1..Len(own.log) : own.log[i].term < own.term
      BY <2>1, Zenon DEF LogInv, ElectionsPast
    <2> QED
      BY <1>5, <2>2, <2>3, Zenon DEF LogInv, ElectionsPast
  <1>14. TermsPast'
    <2> SUFFICES ASSUME NEW v \in Server, NEW i \in 1..Len(log'[v])
                 PROVE  log'[v][i].term <= term'[v]
      BY Zenon DEF TermsPast
    <2>1. CASE v = s /\ i = n + 1
      BY <1>1, <1>3, <2>1
    <2>2. CASE i \in 1..Len(log[v]) /\ log'[v][i] = log[v][i]
      <3>1. log[v][i].term <= term[v] /\ log[v][i] \in Entry
        BY <1>1, <2>2 DEF LogInv, TermsPast
      <3>2. term[v] <= term'[v]
        BY <1>4, Zenon DEF TermsGrow
      <3> QED
        BY <1>1, <2>2, <3>1, <3>2 DEF Entry
    <2> QED
      BY <1>1, <1>3, <2>1, <2>2
  <1>15. CandidateLog'
    <2> SUFFICES ASSUME NEW e \in elections', term'[e.cand] = e.term, ~Led(e.term)'
                 PROVE  log'[e.cand] = e.log
      BY Zenon DEF CandidateLog
    <2>1. e.cand # s
      <3>1. <<t, s>> \in leaders' /\ <<t, s>>[1] = t
        OBVIOUS
      <3> QED
        BY <3>1, Zenon DEF Led
    <2>2. e \in elections /\ ~Led(e.term)
      BY <2>1, Zenon DEF Led
    <2>3. e.cand \in Server /\ term[e.cand] = e.term
      BY <1>2, <2>1, <2>2, Zenon
    <2> QED
      BY <1>3, <2>1, <2>2, <2>3, Zenon DEF LogInv, CandidateLog
  <1>16. Follows(log'[s], n + 1, own)
    <2> SUFFICES ASSUME NEW k \in 0..(n + 1)
                 PROVE  LogTerm(log'[s], k) = LeaderTerm(own, k)
      BY <1>1, <1>3 DEF Follows
    <2>1. CASE k = n + 1
      BY <1>1, <1>3, <1>10, <2>1 DEF LogTerm, LeaderTerm
    <2>2. CASE k \in 0..n
      <3>1. LogTerm(log'[s], k) = LogTerm(lg, k)
        BY <1>1, <1>3, <2>2 DEF LogTerm
      <3> QED
        BY <1>10, <2>2, <3>1, Zenon DEF Follows
    <2> QED
      BY <1>1, <2>1, <2>2
  <1>17. \A h : Grown(h) => Grown(h)'
    BY <1>9, Zenon DEF Grown
  <1>18. LogsGrown'
    <2>1. ASSUME NEW i \in 1..(n + 1)
          PROVE  \E e \in Won' : /\ e.term = log'[s][i].term /\ Len(e.log) < i
                                 /\ Follows(log'[s], i, e)
      <3>1. CASE i = n + 1
        BY <1>1, <1>3, <1>9, <1>10, <1>16, <3>1
      <3>2. CASE i \in 1..n
        <4>1. PICK e \in Won : e.term = lg[i].term /\ Len(e.log) < i /\ Follows(lg, i, e)
          BY <3>2, Zenon DEF LogInv, LogsGrown, Grown
        <4>2. Follows(log'[s], i, e)
          BY <1>1, <1>3, <3>2, <4>1 DEF Follows, LogTerm
        <4> QED
          BY <1>3, <1>9, <3>2, <4>1, <4>2, Zenon
      <3> QED
        BY <1>1, <3>1, <3>2
    <2>2. Grown(log[s])'
      BY <1>3, <2>1, Zenon DEF Grown
    <2>3. \A v \in Server : Grown(log[v])'
      BY <1>3, <1>17, <2>2, Zenon DEF LogInv, LogsGrown
    <2>4. \A e \in elections' : Grown(e.log)'
      BY <1>10, <1>17, Zenon DEF LogInv, LogsGrown
    <2> QED
      BY <2>3, <2>4, Zenon DEF LogsGrown
  <1>19. \A e \in Won' : e.cand = s /\ term'[s] = e.term => e = own
    <2>1. \A e \in Won' : e \in elections'
      BY Zenon DEF Won
    <2> QED
      BY <1>8, <2>1, Zenon DEF ElectionsOnce
  <1>20. LeaderLog'
    <2> SUFFICES ASSUME NEW e \in Won', term'[e.cand] = e.term
                 PROVE  /\ Len(e.log) < Len(log'[e.cand])
                        /\ Follows(log'[e.cand], Len(log'[e.cand]), e)
      BY Zenon DEF LeaderLog
    <2>1. CASE e = own
      BY <1>1, <1>3, <1>10, <1>16, <2>1
    <2>2. CASE e # own
      <3>1. e \in Won /\ e \in elections /\ e.cand # s
        BY <1>9, <1>19, <2>2, Zenon DEF Won
      <3>2. e.cand \in Server /\ term[e.cand] = e.term /\ log'[e.cand] = log[e.cand]
        BY <1>2, <1>3, <3>1, Zenon
      <3> QED
        BY <3>1, <3>2, Zenon DEF LogInv, LeaderLog
    <2> QED
      BY <2>1, <2>2, Zenon
  <1>21. RequestsFollow'
    BY <1>9 DEF LogInv, RequestsFollow
  <1>22. ASSUME NEW i \in Nat, NEW y \in Entry, Placed(i, y)'
         PROVE  Placed(i, y) \/ (i = n + 1 /\ y = x)
    <2>1. CASE \E v \in Server : i \in 1..Len(log'[v]) /\ y = log'[v][i]
      BY <1>1, <1>3, <2>1 DEF Placed
    <2>2. CASE \E e \in elections' : i \in 1..Len(e.log) /\ y = e.log[i]
      BY <2>2, Zenon DEF Placed
    <2> QED
      BY <1>22, <2>1, <2>2, Zenon DEF Placed
  <1>23. ASSUME NEW i \in Nat, NEW y \in Entry, Placed(i, y), y.term = t
         PROVE  i <= n
    <2>1. PICK e \in Won :
                /\ e.term = t
                /\ term[e.cand] = e.term => i <= Len(log[e.cand])
      BY <1>23 DEF LogInv, PlacedLed
    <2>2. e \in elections /\ <<t, e.cand>> \in leaders
      BY <2>1, Zenon DEF Won
    <2>3. e.cand = s
      BY <1>7, <2>2, Zenon
    <2>4. term[s] = t
      BY <1>1, <1>2, <1>6, <2>1, <2>2, <2>3
    <2> QED
      BY <2>1, <2>3, <2>4, Zenon
  <1>24. EntryUnique'
    <2> SUFFICES ASSUME NEW i \in Nat, NEW y \in Entry, NEW z \in Entry,
                        Placed(i, y)', Placed(i, z)', y.term = z.term
                 PROVE  y = z
      BY Zenon DEF EntryUnique
    <2>1. CASE i = n + 1 /\ y.term = t
      <3>1. ~(n + 1 <= n)
        BY <1>1
      <3>2. y = x /\ z = x
        BY <1>22, <1>23, <2>1, <3>1, Zenon
      <3> QED
        BY <3>2, Zenon
    <2>2. CASE ~(i = n + 1 /\ y.term = t)
      <3>1. Placed(i, y) /\ Placed(i, z)
        BY <1>22, <2>2, Zenon
      <3> QED
        BY <3>1, Zenon DEF LogInv, EntryUnique
    <2> QED
      BY <2>1, <2>2, Zenon
  <1>25. PlacedLed'
    <2> SUFFICES ASSUME NEW i \in Nat, NEW y \in Entry, Placed(i, y)'
                 PROVE  \E e \in Won' :
                          /\ e.term = y.term /\ Len(e.log) < i
                          /\ term'[e.cand] = e.term => i <= Len(log'[e.cand])
      BY Zenon DEF PlacedLed
    <2>1. CASE i = n + 1 /\ y = x
      BY <1>1, <1>3, <1>9, <1>10, <2>1
    <2>2. CASE Placed(i, y)
      <3>1. PICK e \in Won :
                /\ e.term = y.term /\ Len(e.log) < i
                /\ term[e.cand] = e.term => i <= Len(log[e.cand])
        BY <2>2, Zenon DEF LogInv, PlacedLed
      <3>2. e \in elections
        BY Zenon DEF Won
      <3>3. e.cand \in Server /\ e.term \in Nat
        BY <1>2, <3>2, Zenon
      <3>4. term'[e.cand] = e.term => term[e.cand] = e.term
        BY <1>1, <1>4, <1>5, <3>2, <3>3 DEF TermsGrow
      <3>5. Len(log[e.cand]) <= Len(log'[e.cand])
        BY <1>1, <1>3, <3>3
      <3>6. term'[e.cand] = e.term => i <= Len(log'[e.cand])
        BY <1>1, <3>1, <3>3, <3>4, <3>5
      <3> QED
        BY <1>9, <3>1, <3>6, Zenon
    <2> QED
      BY <1>22, <2>1, <2>2, Zenon
  <1> QED
    BY <1>8, <1>11, <1>14, <1>15, <1>18, <1>20, <1>21, <1>24, <1>25, Zenon DEF LogInv

\* The election of a server that leads.
LEMMA LeaderElection ==
    ElectionInv /\ LogInv =>
        \A s \in Server : Elected(s) =>
            \E e \in Won :
                /\ e.term = term[s] /\ e.cand = s
                /\ Len(e.log) < Len(log[s])
                /\ Follows(log[s], Len(log[s]), e)
  <1> SUFFICES ASSUME ElectionInv, LogInv, NEW s \in Server, Elected(s)
               PROVE  \E e \in Won :
                        /\ e.term = term[s] /\ e.cand = s
                        /\ Len(e.log) < Len(log[s])
                        /\ Follows(log[s], Len(log[s]), e)
    OBVIOUS
  <1>1. <<term[s], s>> \in leaders /\ <<term[s], s>>[1] = term[s] /\ <<term[s], s>>[2] = s
    BY Zenon DEF Elected
  <1>2. PICK e \in Won : e.term = term[s] /\ e.cand = s
    BY <1>1, WinnerRan, Zenon
  <1> QED
    BY <1>2, Zenon DEF LogInv, LeaderLog

\* replicateOnce: a leader sends a stretch of its log.
LEMMA SendLog ==
    ASSUME ElectionInv, LogInv, TypeOK', NEW s \in Server, NEW f \in Server, Send(s, f)
    PROVE  LogInv'
  <1>1. log[s] \in Seq(Entry) /\ Len(log[s]) \in Nat
    BY ServerTypes, Zenon DEF ElectionInv
  <1>2. /\ Elected(s) /\ f # s
        /\ UNCHANGED <<term, log, elections, leaders, applied>>
    BY Zenon DEF Send
  <1>3. PICK prev \in 0..Len(log[s]) : \E last \in prev..Len(log[s]) :
            requests' \subseteq requests \cup {Stretch(s, f, prev, last)}
    BY Zenon DEF Send
  <1>11. PICK last \in prev..Len(log[s]) :
            requests' \subseteq requests \cup {Stretch(s, f, prev, last)}
    BY <1>3, Zenon
  <1> DEFINE q == Stretch(s, f, prev, last)
             prevTerm == IF prev = 0 THEN 0 ELSE log[s][prev].term
  <1>4. /\ q.from = s /\ q.to = f /\ q.term = term[s]
        /\ q.prevIndex = prev /\ q.prevTerm = prevTerm
        /\ q.entries = SubSeq(log[s], prev + 1, last)
    BY Zenon DEF Stretch
  <1>5. \A k \in 1..Len(q.entries) :
            q.entries[k] = log[s][prev + k] /\ prev + k \in 1..Len(log[s])
    <2>1. /\ Len(q.entries) = last - prev
          /\ \A k \in 1..(last - prev) : q.entries[k] = log[s][prev + k]
      <3>1. prev \in Nat
        BY <1>1
      <3>2. /\ Len(SubSeq(log[s], prev + 1, last)) = last - prev
            /\ \A k \in 1..(last - prev) : SubSeq(log[s], prev + 1, last)[k] = log[s][prev + k]
        BY <1>1, <3>1, StretchOf
      <3> QED
        BY <1>4, <3>2, Zenon
    <2>2. \A k \in 1..(last - prev) : prev + k \in 1..Len(log[s])
      BY <1>1
    <2> QED
      BY <2>1, <2>2, Zenon
  <1>6. requests' \subseteq requests \cup {q}
    BY <1>11, Zenon
  <1> HIDE DEF q
  <1>7. Won' = Won
    BY <1>2, Zenon DEF Won
  <1>8. RequestsFollow'
    <2>1. PICK e \in Won : /\ e.term = term[s] /\ e.cand = s
                           /\ Follows(log[s], Len(log[s]), e)
      BY <1>2, LeaderElection, Zenon
    <2>2. prevTerm = LeaderTerm(e, prev)
      BY <1>1, <2>1, Zenon DEF Follows, LogTerm
    <2>3. \A k \in 1..Len(q.entries) : q.entries[k].term = LeaderTerm(e, prev + k)
      <3> SUFFICES ASSUME NEW k \in 1..Len(q.entries)
                   PROVE  q.entries[k].term = LeaderTerm(e, prev + k)
        OBVIOUS
      <3>1. q.entries[k] = log[s][prev + k] /\ prev + k \in 1..Len(log[s])
        BY <1>5, Zenon
      <3>2. prev + k \in 0..Len(log[s]) /\ prev + k # 0
        BY <1>1, <3>1
      <3> QED
        BY <2>1, <3>1, <3>2, Zenon DEF Follows, LogTerm
    <2> HIDE DEF prevTerm
    <2>4. /\ q.from # q.to
          /\ q.prevTerm = LeaderTerm(e, q.prevIndex)
          /\ \A k \in 1..Len(q.entries) : q.entries[k].term = LeaderTerm(e, q.prevIndex + k)
          /\ e.term = q.term /\ e.cand = q.from
      <3>1. q.from # q.to /\ e.term = q.term /\ e.cand = q.from
        BY <1>2, <1>4, <2>1, Zenon
      <3>2. q.prevTerm = LeaderTerm(e, q.prevIndex)
        BY <1>4, <2>2, Zenon
      <3>3. \A k \in 1..Len(q.entries) : q.entries[k].term = LeaderTerm(e, q.prevIndex + k)
        BY <1>4, <2>3, Zenon
      <3> QED
        BY <3>1, <3>2, <3>3, Zenon
    <2> DEFINE Backed(r) ==
                   /\ r.from # r.to
                   /\ \E x \in Won :
                       /\ x.term = r.term /\ x.cand = r.from
                       /\ r.prevTerm = LeaderTerm(x, r.prevIndex)
                       /\ \A k \in 1..Len(r.entries) :
                              r.entries[k].term = LeaderTerm(x, r.prevIndex + k)
    <2>5. Backed(q)
      BY <2>4, Zenon
    <2>6. \A r \in requests : Backed(r)
      BY Zenon DEF LogInv, RequestsFollow
    <2> HIDE DEF Backed
    <2>7. \A r \in requests' : Backed(r)
      BY <1>6, <2>5, <2>6, Zenon
    <2> QED
      BY <1>7, <2>7, Zenon DEF RequestsFollow, Backed
  <1>9. \A i \in Nat, x \in Entry : Placed(i, x)' => Placed(i, x)
    <2> SUFFICES ASSUME NEW i \in Nat, NEW x \in Entry, Placed(i, x)'
                 PROVE  Placed(i, x)
      OBVIOUS
    <2>1. CASE \E k \in 1..Len(q.entries) : i = q.prevIndex + k /\ x = q.entries[k]
      <3>1. PICK k \in 1..Len(q.entries) : i = prev + k /\ x = q.entries[k]
        BY <1>4, <2>1, Zenon
      <3>2. x = log[s][i] /\ i \in 1..Len(log[s])
        BY <1>5, <3>1, Zenon
      <3> QED
        BY <3>2, Zenon DEF Placed
    <2> QED
      BY <1>2, <1>6, <2>1, Zenon DEF Placed
  <1>10. TermsGrow
    BY <1>2, ServerTypes DEF TermsGrow, ElectionInv
  <1> QED
    BY <1>2, <1>8, <1>9, <1>10, SettledLog, Zenon

\* A log that accepts a request follows the leader that sent it, up to the
\* last entry of the request.
LEMMA MergedFollows ==
    ASSUME ElectionInv, LogInv, NEW m \in requests, PrevMatches(m.to, m),
           NEW e \in Won, e.term = m.term
    PROVE  /\ m.prevIndex + Len(m.entries) \in Nat
           /\ Follows(Merged(m.to, m), m.prevIndex + Len(m.entries), e)
           /\ e.cand = m.from /\ e.cand # m.to
           /\ \A k \in 1..Len(m.entries) : m.entries[k].term = LeaderTerm(e, m.prevIndex + k)
           /\ Follows(log[m.to], m.prevIndex, e)
  <1> DEFINE s == m.to
             h == Merged(s, m)
             p == m.prevIndex
             n == m.prevIndex + Len(m.entries)
  <1>1. /\ TypeOK /\ m \in Request
        /\ s \in Server /\ log[s] \in Seq(Entry) /\ Len(log[s]) \in Nat
        /\ p \in Nat /\ m.entries \in Seq(Entry) /\ Len(m.entries) \in Nat
        /\ m.prevTerm \in Nat
    <2>1. TypeOK /\ m \in Request
      BY Zenon DEF ElectionInv, TypeOK
    <2> QED
      BY <2>1, RequestFields, ServerTypes
  <1>2. e \in elections /\ e.log \in Seq(Entry) /\ Len(e.log) \in Nat
    BY <1>1, ElectionFields, Zenon DEF Won
  <1>3. /\ e.cand = m.from /\ m.from # s
        /\ m.prevTerm = LeaderTerm(e, p)
        /\ \A k \in 1..Len(m.entries) : m.entries[k].term = LeaderTerm(e, p + k)
    <2>1. PICK d \in Won :
            /\ d.term = m.term /\ d.cand = m.from
            /\ m.prevTerm = LeaderTerm(d, m.prevIndex)
            /\ \A k \in 1..Len(m.entries) :
                   m.entries[k].term = LeaderTerm(d, m.prevIndex + k)
      BY Zenon DEF LogInv, RequestsFollow
    <2>2. d = e
      BY <2>1, WonUnique, Zenon
    <2> QED
      BY <2>1, <2>2, Zenon DEF LogInv, RequestsFollow
  <1>4. p \in 0..Len(log[s]) /\ LogTerm(log[s], p) = LeaderTerm(e, p)
    <2>1. CASE p = 0
      BY <1>1, <1>2, <2>1 DEF LogTerm, LeaderTerm
    <2>2. CASE p > 0
      BY <1>1, <1>3, <2>2 DEF PrevMatches, LogTerm
    <2> QED
      BY <1>1, <2>1, <2>2
  <1>5. Follows(log[s], p, e)
    <2>1. Grown(log[s])
      BY <1>1, Zenon DEF LogInv, LogsGrown
    <2> QED
      BY <1>1, <1>4, <2>1, GrownFollows, Zenon
  <1>6. /\ n <= Len(h)
        /\ \A k \in 1..p : h[k] = log[s][k]
        /\ \A k \in 1..Len(m.entries) : h[p + k].term = m.entries[k].term
    BY <1>1, MergedLog, Zenon
  <1> HIDE DEF h
  <1>7. ASSUME NEW k \in 0..n
        PROVE  LogTerm(h, k) = LeaderTerm(e, k)
    <2>1. CASE k \in 0..p
      <3>1. LogTerm(h, k) = LogTerm(log[s], k)
        BY <1>6, <2>1 DEF LogTerm
      <3> QED
        BY <1>5, <2>1, <3>1, Zenon DEF Follows
    <2>2. CASE k > p
      <3>1. k - p \in 1..Len(m.entries) /\ p + (k - p) = k /\ k # 0
        BY <1>1, <2>2
      <3>2. h[k].term = m.entries[k - p].term /\ m.entries[k - p].term = LeaderTerm(e, k)
        BY <1>3, <1>6, <3>1, Zenon
      <3> QED
        BY <3>1, <3>2, Zenon DEF LogTerm
    <2> QED
      BY <1>1, <2>1, <2>2
  <1>8. Follows(h, n, e)
    BY <1>6, <1>7, Zenon DEF Follows
  <1> QED
    BY <1>1, <1>3, <1>5, <1>8 DEF h

\* Store: the log of the receiver becomes one that
\* follows the sender, or stays what it was.
LEMMA StoreLog ==
    ASSUME ElectionInv, LogInv, TypeOK', NEW m \in requests,
           m.term >= term[m.to], PrevMatches(m.to, m),
           term' = [term EXCEPT ![m.to] = m.term],
           log' = [log EXCEPT ![m.to] = Merged(m.to, m)],
           requests' \subseteq requests,
           UNCHANGED <<elections, leaders, applied>>
    PROVE  LogInv'
  <1> DEFINE s == m.to
             h == Merged(s, m)
             p == m.prevIndex
             n == m.prevIndex + Len(m.entries)
  <1>1. /\ TypeOK /\ m \in Request
        /\ s \in Server /\ m.term \in Nat
        /\ p \in Nat /\ m.entries \in Seq(Entry) /\ Len(m.entries) \in Nat
    <2>1. TypeOK /\ m \in Request
      BY Zenon DEF ElectionInv, TypeOK
    <2> QED
      BY <2>1, RequestFields
  <1>2. /\ \A v \in Server : term[v] \in Nat /\ log[v] \in Seq(Entry) /\ Len(log[v]) \in Nat
        /\ \A v \in Server : term'[v] \in Nat /\ log'[v] \in Seq(Entry) /\ Len(log'[v]) \in Nat
    BY <1>1, ServerTypes, ServerTypesNext, Zenon
  <1>3. /\ term'[s] = m.term /\ log'[s] = h
        /\ \A v \in Server \ {s} : term'[v] = term[v] /\ log'[v] = log[v]
    BY <1>1, Zenon DEF TypeOK
  <1>4. TermsGrow
    BY <1>2, <1>3 DEF TermsGrow
  <1>5. \A d \in elections : /\ d.term \in Nat /\ d.cand \in Server
                             /\ d.log \in Seq(Entry) /\ Len(d.log) \in Nat
    BY <1>1, ElectionFields, Zenon
  <1>6. Won' = Won /\ (\A lg : Grown(lg)' <=> Grown(lg)) /\ \A d \in Won : d \in elections
    BY Zenon DEF Won, Grown
  <1>7. PICK e \in Won : e.term = m.term
    BY Zenon DEF LogInv, RequestsFollow
  <1>8. Follows(h, n, e) /\ e.cand # s /\ n \in Nat
    BY <1>1, <1>2, <1>3, <1>7, MergedFollows, Zenon
  <1>9. /\ h \in Seq(Entry) /\ n <= Len(h) /\ Len(h) \in Nat
        /\ h = log[s] \/ Len(h) = n
        /\ \A k \in 1..p : h[k] = log[s][k]
        /\ \A k \in 1..Len(m.entries) :
              \/ h[p + k] = m.entries[k]
              \/ p + k <= Len(log[s]) /\ h[p + k] = log[s][p + k]
    BY <1>1, <1>2, <1>3, MergedLog, Zenon
  <1> HIDE DEF h
  \* Nobody else was elected in that term.
  <1>10. \A d \in Won : d.term = m.term => d.cand # s
    BY <1>7, <1>8, WonUnique, Zenon
  <1>11. Grown(h)
    <2>1. CASE h = log[s]
      BY <1>1, <2>1, Zenon DEF LogInv, LogsGrown
    <2>2. CASE Len(h) = n
      BY <1>8, <1>9, <2>2, FollowsGrown DEF Grown
    <2> QED
      BY <1>9, <2>1, <2>2, Zenon
  <1>12. ElectionsOnce' /\ RequestsFollow'
    BY <1>6, Zenon DEF LogInv, ElectionsOnce, RequestsFollow
  <1>13. ElectionsPast'
    <2>1. \A d \in elections : d.term <= term'[d.cand]
      BY <1>2, <1>4, <1>5 DEF LogInv, ElectionsPast, TermsGrow
    <2> QED
      BY <2>1, Zenon DEF LogInv, ElectionsPast
  <1>15. TermsPast'
    <2> SUFFICES ASSUME NEW v \in Server, NEW i \in 1..Len(log'[v])
                 PROVE  log'[v][i].term <= term'[v]
      BY Zenon DEF TermsPast
    <2>1. CASE log'[v] = log[v]
      <3>1. log[v][i].term <= term[v] /\ log[v][i] \in Entry
        BY <1>2, <2>1 DEF LogInv, TermsPast
      <3>2. term[v] <= term'[v]
        BY <1>4, Zenon DEF TermsGrow
      <3> QED
        BY <1>2, <2>1, <3>1, <3>2 DEF Entry
    <2>2. CASE v = s /\ Len(h) = n
      <3>1. i \in 0..n /\ i # 0 /\ h[i].term = LeaderTerm(e, i)
        BY <1>3, <1>8, <1>9, <2>2 DEF Follows, LogTerm
      <3>2. LeaderTerm(e, i) <= e.term
        <4>1. CASE i > Len(e.log)
          BY <1>5, <1>6, <4>1 DEF LeaderTerm
        <4>2. CASE i \in 1..Len(e.log)
          <5>1. e.log[i].term < e.term /\ e.log[i] \in Entry /\ LeaderTerm(e, i) = e.log[i].term
            BY <1>5, <1>6, <4>2 DEF LogInv, ElectionsPast, LeaderTerm, LogTerm
          <5> QED
            BY <1>5, <1>6, <5>1 DEF Entry
        <4> QED
          BY <1>5, <1>6, <3>1, <4>1, <4>2
      <3> QED
        BY <1>3, <1>7, <2>2, <3>1, <3>2, Zenon
    <2> QED
      BY <1>3, <1>9, <2>1, <2>2, Zenon
  <1>16. CandidateLog'
    <2> SUFFICES ASSUME NEW d \in elections, term'[d.cand] = d.term, ~Led(d.term)
                 PROVE  log'[d.cand] = d.log
      BY Zenon DEF CandidateLog, Led
    <2>1. d.cand # s
      <3>1. <<e.term, e.cand>> \in leaders /\ <<e.term, e.cand>>[1] = e.term
        BY Zenon DEF Won
      <3> QED
        BY <1>3, <1>7, <3>1, Zenon DEF Led
    <2>2. term[d.cand] = d.term /\ log'[d.cand] = log[d.cand]
      BY <1>3, <1>5, <2>1, Zenon
    <2> QED
      BY <2>2, Zenon DEF LogInv, CandidateLog
  <1>17. LogsGrown'
    BY <1>3, <1>6, <1>11, Zenon DEF LogInv, LogsGrown
  <1>18. \A d \in Won : term'[d.cand] = d.term =>
                           term[d.cand] = d.term /\ log'[d.cand] = log[d.cand]
    BY <1>3, <1>5, <1>6, <1>10, Zenon
  <1>19. LeaderLog'
    <2> SUFFICES ASSUME NEW d \in Won, term'[d.cand] = d.term
                 PROVE  /\ Len(d.log) < Len(log'[d.cand])
                        /\ Follows(log'[d.cand], Len(log'[d.cand]), d)
      BY <1>6, Zenon DEF LeaderLog
    <2> QED
      BY <1>18, Zenon DEF LogInv, LeaderLog
  <1>20. \A i \in Nat, x \in Entry : Placed(i, x)' => Placed(i, x)
    <2> SUFFICES ASSUME NEW i \in Nat, NEW x \in Entry, Placed(i, x)'
                 PROVE  Placed(i, x)
      OBVIOUS
    <2>1. CASE \E v \in Server : i \in 1..Len(log'[v]) /\ x = log'[v][i]
      <3>1. PICK v \in Server : i \in 1..Len(log'[v]) /\ x = log'[v][i]
        BY <2>1, Zenon
      <3>2. CASE log'[v] = log[v]
        BY <3>1, <3>2, Zenon DEF Placed
      <3>3. CASE v = s /\ Len(h) = n
        <4>1. i \in 1..n /\ x = h[i]
          BY <1>3, <3>1, <3>3, Zenon
        <4>2. CASE i <= p
          <5>1. i \in 1..Len(log[s]) /\ x = log[s][i]
            BY <1>1, <1>2, <1>9, <4>1, <4>2 DEF PrevMatches
          <5> QED
            BY <1>1, <5>1, Zenon DEF Placed
        <4>3. CASE i > p
          <5>1. i - p \in 1..Len(m.entries) /\ i = p + (i - p)
            BY <1>1, <4>1, <4>3
          <5>2. x = m.entries[i - p] \/ (i <= Len(log[s]) /\ x = log[s][i])
            BY <1>9, <4>1, <5>1, Zenon
          <5>3. i \in 1..Len(log[s]) \/ ~(i <= Len(log[s]))
            BY <1>1, <1>2, <4>1
          <5> QED
            BY <1>1, <5>1, <5>2, <5>3, Zenon DEF Placed
        <4> QED
          BY <1>1, <4>2, <4>3
      <3> QED
        BY <1>3, <1>9, <3>2, <3>3, Zenon
    <2> QED
      BY <2>1, Zenon DEF Placed
  <1>21. PlacedLed' /\ EntryUnique'
    <2>1. \A d \in Won : term'[d.cand] = d.term => Len(log[d.cand]) <= Len(log'[d.cand])
      BY <1>2, <1>5, <1>6, <1>18
    <2> QED
      BY <1>4, <1>6, <1>20, <2>1, PlacedQuiet, Zenon
  <1> QED
    BY <1>12, <1>13, <1>15, <1>16, <1>17, <1>19, <1>21, Zenon DEF LogInv

-----------------------------------------------------------------------------
(* Who votes and who is elected.                                           *)

\* Two servers that quorums voted for in one term are the same.
LEMMA QuorumsAgree ==
    ASSUME QuorumsMeet, VoteOnce, NEW P \in Quorum, NEW Q \in Quorum, NEW t, NEW c, NEW d,
           \A v \in P : Ballot(t, v, c) \in ballots,
           \A v \in Q : Ballot(t, v, d) \in ballots
    PROVE  c = d
  <1>1. PICK v \in P : v \in Q
    BY Zenon DEF QuorumsMeet
  <1>2. Ballot(t, v, c) = Ballot(t, v, d)
    <2>1. /\ Ballot(t, v, c).term = Ballot(t, v, d).term
          /\ Ballot(t, v, c).voter = Ballot(t, v, d).voter
      BY Zenon DEF Ballot
    <2> QED
      BY <1>1, <2>1, Zenon DEF VoteOnce
  <1>3. Ballot(t, v, c).cand = c /\ Ballot(t, v, d).cand = d
    BY Zenon DEF Ballot
  <1> QED
    BY <1>2, <1>3, Zenon

\* Votes of quorums elect one server per term, and one that ran.
LEMMA ElectedByQuorums ==
    ASSUME QuorumsMeet, TypeOK, VoteOnce, BallotsForElections, LeadersBacked
    PROVE  ElectionSafety /\ LeadersRan
  <1>1. \A l \in leaders : l = <<l[1], l[2]>>
    BY DEF TypeOK
  <1>2. ASSUME NEW a \in leaders, NEW b \in leaders, a[1] = b[1] PROVE a = b
    <2>1. PICK P \in Quorum : \A v \in P : Ballot(a[1], v, a[2]) \in ballots
      BY Zenon DEF LeadersBacked
    <2>2. PICK Q \in Quorum : \A v \in Q : Ballot(a[1], v, b[2]) \in ballots
      BY <1>2, Zenon DEF LeadersBacked
    <2>3. a[2] = b[2]
      BY <2>1, <2>2, QuorumsAgree, Zenon
    <2> QED
      BY <1>1, <1>2, <2>3, Zenon
  <1>3. ASSUME NEW l \in leaders PROVE \E e \in elections : e.term = l[1] /\ e.cand = l[2]
    <2>1. PICK Q \in Quorum : \A v \in Q : Ballot(l[1], v, l[2]) \in ballots
      BY Zenon DEF LeadersBacked
    <2>2. PICK v \in Q : TRUE
      BY Zenon DEF QuorumsMeet
    <2>3. /\ Ballot(l[1], v, l[2]) \in ballots
          /\ Ballot(l[1], v, l[2]).term = l[1] /\ Ballot(l[1], v, l[2]).cand = l[2]
      BY <2>1, <2>2, Zenon DEF Ballot
    <2> QED
      BY <2>3, Zenon DEF BallotsForElections
  <1> QED
    BY <1>2, <1>3, Zenon DEF ElectionSafety, LeadersRan

\* One server's term is raised.
LEMMA TermRaised ==
    ASSUME TypeOK, NEW s \in Server, NEW t \in Nat, term[s] <= t,
           term' = [term EXCEPT ![s] = t]
    PROVE  TermsGrow
  <1>1. term \in [Server -> Nat]
    BY Zenon DEF TypeOK
  <1>2. \A x \in Server : x # s => term'[x] = term[x]
    BY <1>1, Zenon
  <1>3. term'[s] = t
    BY <1>1, Zenon
  <1>4. \A x \in Server : term[x] \in Nat
    BY <1>1, Zenon
  <1> QED
    BY <1>2, <1>3, <1>4 DEF TermsGrow

\* A step that casts no vote and elects nobody.
LEMMA NoVotes ==
    ASSUME ElectionInv, TypeOK', TermsGrow, UNCHANGED <<elections, ballots, leaders>>
    PROVE  ElectionInv'
  <1>1. BallotsPast'
    <2> SUFFICES ASSUME NEW b \in ballots PROVE b.term <= term'[b.voter]
      BY Zenon DEF BallotsPast
    <2>1. b.term \in Nat /\ b.voter \in Server
      BY Zenon DEF ElectionInv, TypeOK
    <2>2. term[b.voter] \in Nat /\ term'[b.voter] \in Nat
      BY <2>1, ServerTypes, ServerTypesNext, Zenon DEF ElectionInv
    <2> QED
      BY <2>1, <2>2 DEF ElectionInv, BallotsPast, TermsGrow
  <1> QED
    BY <1>1, Zenon DEF ElectionInv, VoteOnce, BallotsForElections, LeadersBacked, LeadersRan,
                ElectionSafety

\* A step in which v votes for c in its new term t, and c is perhaps elected.
LEMMA VoteStep ==
    ASSUME QuorumsMeet, ElectionInv, TypeOK', NEW v \in Server, NEW c \in Server,
           NEW t \in Nat, term[v] <= t,
           term' = [term EXCEPT ![v] = t],
           \A b \in ballots : b.voter = v /\ b.term = t => b.cand = c,
           ballots' = ballots \cup {Ballot(t, v, c)},
           elections \subseteq elections',
           \E e \in elections' : e.term = t /\ e.cand = c,
           \/ leaders' = leaders
           \/ leaders' = leaders \cup {<<t, c>>} /\ v = c /\ {v} \in Quorum
    PROVE  ElectionInv'
  <1> DEFINE new == Ballot(t, v, c)
  <1>1. /\ new.term = t /\ new.voter = v /\ new.cand = c
        /\ ballots' = ballots \cup {new} /\ new \in ballots'
    BY Zenon DEF Ballot
  <1>2. \A b \in ballots : /\ b.term \in Nat /\ b.voter \in Server
                           /\ b = Ballot(b.term, b.voter, b.cand)
    <2>1. \A b \in [term : Nat, voter : Server, cand : Server] :
              /\ b.term \in Nat /\ b.voter \in Server
              /\ b = [term |-> b.term, voter |-> b.voter, cand |-> b.cand]
      OBVIOUS
    <2> QED
      BY <2>1, Zenon DEF ElectionInv, TypeOK, Ballot
  <1>3. \A x \in Server : term[x] \in Nat /\ term'[x] \in Nat
    BY ServerTypes, ServerTypesNext, Zenon DEF ElectionInv
  <1>4. VoteOnce'
    <2>1. ASSUME NEW b \in ballots, b.term = t, b.voter = v PROVE b = new
      BY <1>2, <2>1, Zenon
    <2> HIDE DEF new
    <2> QED
      BY <1>1, <2>1, Zenon DEF ElectionInv, VoteOnce
  <1> HIDE DEF new
  <1>5. BallotsPast'
    <2>1. ASSUME NEW b \in ballots PROVE b.term <= term'[b.voter]
      <3>1. b.term <= term[b.voter]
        BY Zenon DEF ElectionInv, BallotsPast
      <3>2. term[b.voter] <= term'[b.voter]
        BY <1>2, <1>3, TermRaised, Zenon DEF ElectionInv, TermsGrow
      <3> QED
        BY <1>2, <1>3, <3>1, <3>2
    <2>2. term'[v] = t
      BY Zenon DEF ElectionInv, TypeOK
    <2> QED
      BY <1>1, <2>1, <2>2 DEF BallotsPast
  <1>6. BallotsForElections'
    BY <1>1, Zenon DEF ElectionInv, BallotsForElections
  <1>7. LeadersBacked'
    <2>1. ASSUME NEW l \in leaders
          PROVE  \E Q \in Quorum : \A x \in Q : Ballot(l[1], x, l[2]) \in ballots'
      BY <1>1, Zenon DEF ElectionInv, LeadersBacked
    <2>2. ASSUME {v} \in Quorum, v = c
          PROVE  \E Q \in Quorum : \A x \in Q : Ballot(<<t, c>>[1], x, <<t, c>>[2]) \in ballots'
      <3>1. Ballot(<<t, c>>[1], v, <<t, c>>[2]) \in ballots'
        BY <1>1, Zenon DEF new
      <3> QED
        BY <2>2, <3>1, Zenon
    <2>3. \A l \in leaders' : \E Q \in Quorum : \A x \in Q : Ballot(l[1], x, l[2]) \in ballots'
      BY <2>1, <2>2, Zenon
    <2> QED
      BY <2>3, Zenon DEF LeadersBacked, Ballot
  <1>8. ElectionSafety' /\ LeadersRan'
    BY <1>4, <1>6, <1>7, ElectedByQuorums, PTL
  <1> QED
    BY <1>4, <1>5, <1>6, <1>7, <1>8, Zenon DEF ElectionInv

\* Every step keeps the votes in order.
LEMMA ElectionNext ==
    ASSUME QuorumsMeet, ElectionInv, [Next]_vars
    PROVE  ElectionInv' /\ TermsGrow
  <1>1. TypeOK /\ TypeOK'
    BY TypeNext, Zenon DEF ElectionInv
  <1>2. \A x \in Server : term[x] \in Nat /\ term'[x] \in Nat
    BY <1>1, ServerTypes, ServerTypesNext, Zenon
  <1>3. ASSUME UNCHANGED <<elections, ballots, leaders>>,
               UNCHANGED term \/ \E s \in Server :
                   term' = [term EXCEPT ![s] = term'[s]] /\ term[s] <= term'[s]
        PROVE  ElectionInv' /\ TermsGrow
    <2>1. TermsGrow
      <3>1. CASE UNCHANGED term
        BY <1>2, <3>1 DEF TermsGrow
      <3>2. ASSUME NEW s \in Server, term' = [term EXCEPT ![s] = term'[s]],
                   term[s] <= term'[s]
            PROVE  TermsGrow
        BY <1>1, <1>2, <3>2, TermRaised, Zenon
      <3> QED
        BY <1>3, <3>1, <3>2, Zenon
    <2> QED
      BY <1>1, <1>3, <2>1, NoVotes, Zenon
  <1>4. CASE UNCHANGED vars
    BY <1>3, <1>4, Zenon DEF vars
  <1>5. ASSUME NEW s \in Server, Decide(s) \/ Flush(s) \/ Apply(s) \/ Observe(s) \/ Propose(s)
        PROVE  ElectionInv' /\ TermsGrow
    BY <1>2, <1>3, <1>5, Zenon DEF Decide, Flush, Apply, Observe, Propose
  <1>6. ASSUME NEW s \in Server, NEW f \in Server, Send(s, f)
        PROVE  ElectionInv' /\ TermsGrow
    BY <1>3, <1>6, Zenon DEF Send
  <1>7. ASSUME NEW s \in Server, NEW m \in requests, Store(s, m)
        PROVE  ElectionInv' /\ TermsGrow
    <2>1. /\ UNCHANGED <<elections, ballots, leaders>>
          /\ term' = [term EXCEPT ![s] = m.term] /\ m.term >= term[s]
      BY <1>7, Zenon DEF Store
    <2>2. term'[s] = m.term /\ m.term \in Nat
      BY <1>1, <2>1, RequestFields, Zenon DEF TypeOK
    <2> QED
      BY <1>2, <1>3, <2>1, <2>2, Zenon
  <1>8. ASSUME NEW s \in Server, Campaign(s)
        PROVE  ElectionInv' /\ TermsGrow
    <2> DEFINE t == term[s] + 1
               own == [term |-> t, cand |-> s, log |-> log[s]]
    <2>1. /\ term' = [term EXCEPT ![s] = t]
          /\ elections' = elections \cup {own}
          /\ ballots' = ballots \cup {Ballot(t, s, s)}
          /\ leaders' = leaders \/ (leaders' = leaders \cup {<<t, s>>} /\ {s} \in Quorum)
      BY <1>8, Zenon DEF Campaign, Lead, Ballot
    <2>2. own.term = t /\ own.cand = s /\ own \in elections'
      BY <2>1, Zenon
    <2>3. t \in Nat /\ term[s] <= t
      BY <1>2
    <2>4. \A b \in ballots : b.voter = s /\ b.term = t => b.cand = s
      <3>1. \A b \in ballots : b.term \in Nat /\ b.term <= term[b.voter]
        BY <1>1, Zenon DEF ElectionInv, BallotsPast, TypeOK
      <3> QED
        BY <1>2, <3>1
    <2>5. TermsGrow
      BY <1>1, <2>1, <2>3, TermRaised, Zenon
    <2> HIDE DEF own, t
    <2> QED
      BY <1>1, <2>1, <2>2, <2>3, <2>4, <2>5, VoteStep, Zenon
  <1>9. ASSUME NEW s \in Server, NEW e \in elections, Vote(s, e)
        PROVE  ElectionInv' /\ TermsGrow
    <2>1. /\ term' = [term EXCEPT ![s] = e.term] /\ term[s] <= e.term
          /\ \A b \in ballots : b.voter = s /\ b.term = e.term => b.cand = e.cand
          /\ ballots' = ballots \cup {Ballot(e.term, s, e.cand)}
          /\ UNCHANGED <<elections, leaders>>
      BY <1>9, Zenon DEF Vote, Ballot
    <2>2. e.term \in Nat /\ e.cand \in Server /\ e \in elections'
      BY <1>1, <2>1, ElectionFields, Zenon
    <2>3. TermsGrow
      BY <1>1, <2>1, <2>2, TermRaised, Zenon
    <2> QED
      BY <1>1, <2>1, <2>2, <2>3, VoteStep, Zenon
  <1>10. ASSUME NEW s \in Server, Win(s)
         PROVE  ElectionInv' /\ TermsGrow
    <2>1. /\ leaders' = leaders \cup {<<term[s], s>>}
          /\ UNCHANGED <<term, elections, ballots>>
          /\ \E Q \in Quorum : \A v \in Q : Ballot(term[s], v, s) \in ballots
      BY <1>10, Zenon DEF Win, Lead, Ballot
    <2>2. VoteOnce' /\ BallotsPast' /\ BallotsForElections' /\ TermsGrow
      <3>1. term' = term /\ ballots' = ballots /\ elections' = elections
        BY <2>1, Zenon
      <3>2. VoteOnce' /\ BallotsPast' /\ BallotsForElections'
        BY <3>1, Zenon DEF ElectionInv, VoteOnce, BallotsPast, BallotsForElections
      <3>3. TermsGrow
        BY <1>2, <3>1 DEF TermsGrow
      <3> QED
        BY <3>2, <3>3, Zenon
    <2>3. LeadersBacked'
      <3>1. ASSUME NEW l \in leaders'
            PROVE  \E Q \in Quorum : \A v \in Q : Ballot(l[1], v, l[2]) \in ballots
        <4>1. CASE l = <<term[s], s>>
          <5>1. l[1] = term[s] /\ l[2] = s
            BY <4>1, Zenon
          <5> QED
            BY <2>1, <5>1, Zenon
        <4>2. CASE l \in leaders
          BY <4>2, Zenon DEF ElectionInv, LeadersBacked
        <4> QED
          BY <2>1, <4>1, <4>2, Zenon
      <3> QED
        BY <2>1, <3>1, Zenon DEF LeadersBacked, Ballot
    <2>4. ElectionSafety' /\ LeadersRan'
      BY <1>1, <2>2, <2>3, ElectedByQuorums, PTL
    <2> QED
      BY <1>1, <2>2, <2>3, <2>4, Zenon DEF ElectionInv
  <1> QED
    BY <1>4, <1>5, <1>6, <1>7, <1>8, <1>9, <1>10, Zenon DEF Next

-----------------------------------------------------------------------------
(* Every step keeps the logs consistent.                                   *)

\* No election contradicts another at first.
LEMMA ElectionInit == Init => ElectionInv
  BY TypeInit, Zenon DEF Init, ElectionInv, VoteOnce, BallotsPast, BallotsForElections,
                  LeadersBacked, LeadersRan, ElectionSafety

\* Empty logs are consistent.
LEMMA LogInit == Init => LogInv
  <1> SUFFICES ASSUME Init PROVE LogInv
    OBVIOUS
  <1>1. /\ elections = {} /\ requests = {} /\ applied = {} /\ Won = {}
        /\ \A s \in Server : log[s] = << >> /\ Len(log[s]) = 0
    BY Zenon DEF Init, Won
  <1>8. 1..0 = {}
    OBVIOUS
  <1>2. \A s \in Server : 1..Len(log[s]) = {}
    BY <1>1, <1>8, Zenon
  <1>3. \A i \in Nat, x \in Entry : ~Placed(i, x)
    BY <1>1, <1>2, Zenon DEF Placed
  <1>4. \A s \in Server : Grown(log[s])
    BY <1>2, Zenon DEF Grown
  <1>5. PlacedLed /\ EntryUnique
    BY <1>3, Zenon DEF PlacedLed, EntryUnique
  <1>6. ElectionsOnce /\ ElectionsPast /\ CandidateLog /\ RequestsFollow /\ LeaderLog
    BY <1>1, Zenon DEF ElectionsOnce, ElectionsPast, CandidateLog, RequestsFollow, LeaderLog
  <1>7. TermsPast /\ LogsGrown
    BY <1>1, <1>2, <1>4, Zenon DEF TermsPast, LogsGrown
  <1> QED
    BY <1>5, <1>6, <1>7, Zenon DEF LogInv

\* A leader adds an entry, to a log it was elected with before or is now.
LEMMA ExtendLog ==
    ASSUME ElectionInv, LogInv, ElectionInv', NEW s \in Server, UNCHANGED <<term, elections>>,
           Extend(s, term[s]), leaders' = leaders \cup {<<term[s], s>>},
           requests' \subseteq requests, applied' = applied
    PROVE  LogInv'
  <1>1. TypeOK /\ term[s] \in Nat
    BY ServerTypes, Zenon DEF ElectionInv
  <1>2. PICK x \in Entry : x.term = term[s] /\ log' = [log EXCEPT ![s] = Append(log[s], x)]
    BY <1>1, ExtendType, Zenon
  <1>3. PICK own \in elections : own.term = term[s] /\ own.cand = s
    <2>1. <<term[s], s>> \in leaders' /\ <<term[s], s>>[1] = term[s] /\ <<term[s], s>>[2] = s
      OBVIOUS
    <2>2. LeadersRan'
      BY Zenon DEF ElectionInv
    <2> QED
      BY <2>1, <2>2, Zenon DEF LeadersRan
  <1>4. elections' = elections \cup {own}
    OBVIOUS
  <1> QED
    BY <1>2, <1>3, <1>4, LeadLog, Zenon

\* Every step keeps the logs consistent.
LEMMA LogNext ==
    ASSUME QuorumsMeet, ElectionInv, LogInv, [Next]_vars
    PROVE  LogInv'
  <1>1. ElectionInv' /\ TermsGrow /\ TypeOK /\ TypeOK'
    BY ElectionNext, Zenon DEF ElectionInv
  <1>2. CASE UNCHANGED vars
    BY <1>1, <1>2, QuietLog, Zenon DEF vars
  <1>3. ASSUME NEW s \in Server, Decide(s) \/ Flush(s) \/ Observe(s)
        PROVE  LogInv'
    <2>1. requests' \subseteq requests /\ UNCHANGED <<log, elections, leaders, applied>>
      BY <1>3, Zenon DEF Decide, Flush, Observe, Lossy
    <2> QED
      BY <1>1, <2>1, QuietLog, Zenon
  <1>4. ASSUME NEW s \in Server, Apply(s)
        PROVE  LogInv'
    <2>1. requests' \subseteq requests /\ UNCHANGED <<log, elections, leaders>>
      BY <1>4, Zenon DEF Apply, Lossy
    <2>2. PICK i \in 1..Len(log[s]) : applied' = applied \cup {<<i, log[s][i]>>}
      BY <1>4, Zenon DEF Apply
    <2> QED
      BY <1>1, <2>1, <2>2, QuietLog, Zenon
  <1>5. ASSUME NEW s \in Server, NEW e \in elections, Vote(s, e)
        PROVE  LogInv'
    <2>1. requests' \subseteq requests /\ UNCHANGED <<log, elections, leaders, applied>>
      BY <1>5, Zenon DEF Vote, Lossy
    <2> QED
      BY <1>1, <2>1, QuietLog, Zenon
  <1>6. ASSUME NEW s \in Server, Campaign(s)
        PROVE  LogInv'
    <2> DEFINE t == term[s] + 1
               own == [term |-> t, cand |-> s, log |-> log[s]]
    <2>1. /\ term' = [term EXCEPT ![s] = t] /\ elections' = elections \cup {own}
          /\ requests' \subseteq requests /\ applied' = applied
      BY <1>6, Zenon DEF Campaign, Lossy
    <2>2. CASE UNCHANGED <<log, leaders>>
      BY <1>1, <2>1, <2>2, ElectionLog, Zenon
    <2>3. CASE Lead(s, t)
      <3>1. /\ t \in Nat /\ term'[s] = t
            /\ \A v \in Server \ {s} : term'[v] = term[v]
        BY <1>1, <2>1, ServerTypes, Zenon DEF TypeOK
      <3>2. PICK x \in Entry : x.term = t /\ log' = [log EXCEPT ![s] = Append(log[s], x)]
        BY <1>1, <2>3, <3>1, ExtendType, Zenon DEF Lead
      <3>3. leaders' = leaders \cup {<<t, s>>}
        BY <2>3, Zenon DEF Lead
      <3>4. own.cand = s /\ own.term = t /\ own.log = log[s]
        OBVIOUS
      <3> HIDE DEF own
      <3>5. ASSUME NEW o, o = own PROVE LogInv'
        BY <1>1, <2>1, <3>1, <3>2, <3>3, <3>4, <3>5, LeadLog, Zenon
      <3> QED
        BY <3>5, Zenon
    <2> QED
      BY <1>6, <2>2, <2>3, Zenon DEF Campaign
  <1>7. ASSUME NEW s \in Server, Win(s) \/ Propose(s)
        PROVE  LogInv'
    <2>1. /\ UNCHANGED <<term, elections>> /\ Extend(s, term[s])
          /\ leaders' = leaders \cup {<<term[s], s>>}
          /\ requests' \subseteq requests /\ applied' = applied
      BY <1>7, Zenon DEF Win, Propose, Lead, Lossy, Elected
    <2> QED
      BY <1>1, <2>1, ExtendLog, Zenon
  <1>8. ASSUME NEW s \in Server, NEW f \in Server, Send(s, f)
        PROVE  LogInv'
    BY <1>1, <1>8, SendLog, Zenon
  <1>9. ASSUME NEW s \in Server, NEW m \in requests, Store(s, m)
        PROVE  LogInv'
    BY <1>1, <1>9, StoreLog, Zenon DEF Store
  <1> QED
    BY <1>2, <1>3, <1>4, <1>5, <1>6, <1>7, <1>8, <1>9, Zenon DEF Next

\* Consistent logs match.
LEMMA LogsMatch == ElectionInv /\ LogInv => LogMatching
  <1> SUFFICES ASSUME ElectionInv, LogInv, NEW a \in Server, NEW b \in Server,
                      NEW i \in 1..Len(log[a]), i <= Len(log[b]),
                      log[a][i].term = log[b][i].term, NEW j \in 1..i
               PROVE  log[a][j] = log[b][j]
    BY Zenon DEF LogMatching
  <1>1. /\ log[a] \in Seq(Entry) /\ log[b] \in Seq(Entry)
        /\ Len(log[a]) \in Nat /\ Len(log[b]) \in Nat
    BY ServerTypes, Zenon DEF ElectionInv
  <1>2. i \in 1..Len(log[b]) /\ j \in 1..Len(log[a]) /\ j \in 1..Len(log[b]) /\ j \in Nat
    BY <1>1
  <1>3. PICK d \in Won : d.term = log[a][i].term /\ Follows(log[a], i, d)
    BY Zenon DEF LogInv, LogsGrown, Grown
  <1>4. PICK e \in Won : e.term = log[b][i].term /\ Follows(log[b], i, e)
    BY <1>2, Zenon DEF LogInv, LogsGrown, Grown
  <1>5. d = e
    BY <1>3, <1>4, WonUnique, Zenon
  <1>6. log[a][j].term = log[b][j].term
    BY <1>3, <1>4, <1>5 DEF Follows, LogTerm
  <1>7. /\ log[a][j] \in Entry /\ log[b][j] \in Entry
        /\ Placed(j, log[a][j]) /\ Placed(j, log[b][j])
    BY <1>1, <1>2 DEF Placed
  <1> QED
    BY <1>2, <1>6, <1>7, Zenon DEF LogInv, EntryUnique

\* In every reachable state no term has two leaders, and two logs that hold an
\* entry of the same index and term are identical up to that entry.
THEOREM LogsAgree ==
    ASSUME QuorumsMeet
    PROVE  Spec => [](ElectionSafety /\ LogMatching)
  <1>1. Init => ElectionInv /\ LogInv
    BY ElectionInit, LogInit, Zenon
  <1>2. ElectionInv /\ LogInv /\ [Next]_vars => ElectionInv' /\ LogInv'
    BY ElectionNext, LogNext, Zenon
  <1>3. ElectionInv /\ LogInv => ElectionSafety /\ LogMatching
    BY LogsMatch, Zenon DEF ElectionInv
  <1> QED
    BY <1>1, <1>2, <1>3, PTL DEF Spec
=============================================================================
