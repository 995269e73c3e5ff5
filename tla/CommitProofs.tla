---------------------------- MODULE CommitProofs ----------------------------
(***************************************************************************)
(* What Consensus commits, for every set of servers and every set of       *)
(* quorums any two of which meet: it stays, every later leader has it, and *)
(* all servers apply the same.                                             *)
(***************************************************************************)
EXTENDS ChosenProofs

-----------------------------------------------------------------------------
(* Every step is sound.                                                    *)

\* Fewer acknowledgements say less.
LEMMA FewerAcks ==
    ASSUME acks' \subseteq acks, NEW v, NEW t, NEW n, Ack(v, t, n)'
    PROVE  Ack(v, t, n)
  BY Zenon DEF Ack

\* The log of a candidate that gets a vote has what the voter has, unless a
\* leader without it was elected in between.
LEMMA UpToDateHas ==
    ASSUME ElectionInv, LogInv, NEW v \in Server, NEW e \in elections,
           UpToDate(e.log, log[v]), NEW t \in Nat, NEW n \in Nat, Has(log[v], t, n)
    PROVE  Has(e.log, t, n) \/ Missed(t, n, e.term)
  <1> DEFINE lg == log[v]
             last == Len(lg)
             end == Len(e.log)
  <1>1. /\ lg \in Seq(Entry) /\ last \in Nat /\ e.log \in Seq(Entry) /\ end \in Nat
        /\ e.term \in Nat /\ TypeOK
    BY ServerTypes, ElectionFields, Zenon DEF ElectionInv
  <1>2. n \in 1..last /\ lg[n].term = t /\ last \in 1..last /\ lg # << >>
    BY <1>1 DEF Has
  <1>3. PICK w \in Won : w.term = lg[last].term /\ Follows(lg, last, w)
    BY <1>2, Zenon DEF LogInv, LogsGrown, Grown
  <1>4. w \in elections /\ w.term \in Nat /\ w.log \in Seq(Entry) /\ Len(w.log) \in Nat
    BY <1>1, WonFields, Zenon
  <1>5. t = LeaderTerm(w, n)
    BY <1>2, <1>3 DEF Follows, LogTerm
  <1>6. t <= w.term
    <2>1. CASE n > Len(w.log)
      BY <1>4, <1>5, <2>1 DEF LeaderTerm
    <2>2. CASE n \in 1..Len(w.log)
      <3>1. t = w.log[n].term
        BY <1>2, <1>4, <1>5, <2>2 DEF LeaderTerm, LogTerm
      <3>2. w.log[n].term < w.term
        BY <1>4, <2>2, Zenon DEF LogInv, ElectionsPast
      <3> QED
        BY <1>4, <3>1, <3>2
    <2> QED
      BY <1>2, <1>4, <2>1, <2>2
  <1>7. LastTerm(lg) = w.term
    BY <1>2, <1>3, Zenon DEF LastTerm
  <1>8. e.log # << >> /\ end \in 1..end
    <2>1. CASE e.log = << >>
      <3>1. LastTerm(e.log) = 0 /\ Len(e.log) = 0
        BY <2>1, Zenon DEF LastTerm
      <3> QED
        BY <1>1, <1>2, <1>4, <1>7, <3>1 DEF UpToDate
    <2> QED
      BY <1>1, <2>1
  <1>9. LastTerm(e.log) = e.log[end].term /\ e.log[end].term < e.term
    BY <1>8, Zenon DEF LastTerm, LogInv, ElectionsPast
  <1>10. PICK x \in Won : x.term = e.log[end].term /\ Len(x.log) < end /\ Follows(e.log, end, x)
    BY <1>8, Zenon DEF LogInv, LogsGrown, Grown
  <1>11. x.term \in Nat /\ x.log \in Seq(Entry) /\ Len(x.log) \in Nat
    BY <1>1, WonFields, Zenon
  <1>12. \/ x.term > w.term
         \/ x.term = w.term /\ end >= last
    BY <1>7, <1>9, <1>10, Zenon DEF UpToDate
  <1>13. ASSUME n <= end, LeaderTerm(x, n) = t PROVE Has(e.log, t, n)
    <2>1. n \in 0..end /\ n \in 1..end
      BY <1>1, <1>2, <1>13
    <2>2. LogTerm(e.log, n) = t
      BY <1>10, <1>13, <2>1, Zenon DEF Follows
    <2> QED
      BY <2>1, <2>2 DEF Has, LogTerm
  <1>14. CASE x.term = w.term /\ end >= last
    <2>1. x = w
      BY <1>14, WonUnique, Zenon
    <2>2. n <= end
      BY <1>1, <1>2, <1>14
    <2> QED
      BY <1>5, <1>13, <2>1, <2>2, Zenon
  <1>15. CASE x.term > w.term /\ Has(x.log, t, n)
    <2>1. n \in 1..Len(x.log) /\ x.log[n].term = t
      BY <1>15, Zenon DEF Has
    <2>2. n <= end /\ LeaderTerm(x, n) = t
      BY <1>1, <1>10, <1>11, <2>1 DEF LeaderTerm, LogTerm
    <2> QED
      BY <1>13, <2>2, Zenon
  <1>16. CASE x.term > w.term /\ ~Has(x.log, t, n)
    <2>1. t < x.term /\ x.term <= e.term
      BY <1>1, <1>4, <1>6, <1>9, <1>10, <1>11, <1>16
    <2> QED
      BY <1>16, <2>1, Zenon DEF Missed
  <1> QED
    BY <1>12, <1>14, <1>15, <1>16, Zenon

\* A step that takes no log apart, casts only justified votes and acknowledges
\* nothing is sound.
LEMMA QuietSound ==
    ASSUME TermsGrow, elections \subseteq elections', leaders \subseteq leaders',
           acks' \subseteq acks, \A s \in Server : KeepsFirst(s, Len(log[s])),
           \A b \in ballots' : b \in ballots \/ Justified(b)
    PROVE  Sound
  <1>1. \A s \in Server : KeepsLog(s)
    BY Zenon DEF KeepsLog
  <1>2. \A v \in Server, t \in Nat, n \in Nat : Ack(v, t, n)' => Ack(v, t, n)
    BY FewerAcks, Zenon
  <1> QED
    BY <1>1, <1>2, Zenon DEF Sound

\* A log that stays the same or gets longer keeps its entries.
LEMMA LogsKept ==
    ASSUME TypeOK, \/ log' = log
                   \/ \E s \in Server, t \in Nat : Extend(s, t)
    PROVE  \A x \in Server : KeepsFirst(x, Len(log[x]))
  <1> SUFFICES ASSUME NEW x \in Server PROVE KeepsFirst(x, Len(log[x]))
    OBVIOUS
  <1>1. log[x] \in Seq(Entry) /\ Len(log[x]) \in Nat
    BY ServerTypes, Zenon
  <1>2. CASE log' = log
    BY <1>1, <1>2 DEF KeepsFirst
  <1>3. ASSUME NEW s \in Server, NEW t \in Nat, Extend(s, t)
        PROVE  KeepsFirst(x, Len(log[x]))
    <2>1. PICK y \in Entry : log' = [log EXCEPT ![s] = Append(log[s], y)]
      BY <1>3, ExtendType, Zenon
    <2>2. log'[x] = log[x] \/ log'[x] = Append(log[x], y)
      BY <2>1, Zenon DEF TypeOK
    <2>3. CASE log'[x] = log[x]
      BY <1>1, <2>3 DEF KeepsFirst
    <2>4. CASE log'[x] = Append(log[x], y)
      <3>1. Len(log'[x]) = Len(log[x]) + 1
        BY <1>1, <2>4
      <3>2. \A k \in 1..Len(log[x]) : log'[x][k] = log[x][k]
        BY <1>1, <2>4
      <3> QED
        BY <1>1, <3>1, <3>2 DEF KeepsFirst
    <2> QED
      BY <2>2, <2>3, <2>4, Zenon
  <1> QED
    BY <1>2, <1>3, Zenon

\* A server that stores a leader's entries drops none that the leader has too,
\* and acknowledges what it has.
LEMMA StoreSound ==
    ASSUME ElectionInv, LogInv, TermsGrow, NEW m \in requests, Store(m.to, m)
    PROVE  Sound
  <1> DEFINE s == m.to
             last == m.prevIndex + Len(m.entries)
  <1>1. TypeOK /\ m \in Request /\ s \in Server /\ m.term \in Nat /\ m.prevIndex \in Nat
    BY RequestFields, Zenon DEF ElectionInv, TypeOK
  <1>2. /\ PrevMatches(s, m)
        /\ term' = [term EXCEPT ![s] = m.term]
        /\ log' = [log EXCEPT ![s] = Merged(s, m)]
        /\ acks' \subseteq acks \cup {[voter |-> s, term |-> m.term, index |-> last]}
        /\ UNCHANGED <<elections, ballots, leaders>>
    BY Zenon DEF Store
  <1>3. term'[s] = m.term /\ log'[s] = Merged(s, m) /\ \A x \in Server \ {s} : log'[x] = log[x]
    BY <1>1, <1>2, Zenon DEF TypeOK
  <1>4. PICK w \in Won : w.term = m.term
    BY Zenon DEF LogInv, RequestsFollow
  <1>5. /\ last \in Nat /\ Follows(Merged(s, m), last, w)
        /\ \A k \in 1..Len(m.entries) : m.entries[k].term = LeaderTerm(w, m.prevIndex + k)
    BY <1>2, <1>4, MergedFollows, Zenon
  <1>6. Merged(s, m) \in Seq(Entry)
    BY <1>1, <1>2, MergedType, Zenon
  <1> HIDE DEF last
  <1>7. ASSUME NEW c \in 0..Len(log[s]), Follows(log[s], c, w) PROVE KeepsFirst(s, c)
    <2>1. ASSUME NEW k \in 1..Len(m.entries), m.prevIndex + k <= c
          PROVE  log[s][m.prevIndex + k].term = m.entries[k].term
      <3>1. m.prevIndex + k \in 0..c /\ m.prevIndex + k # 0
        BY <1>1, <2>1
      <3>2. LogTerm(log[s], m.prevIndex + k) = LeaderTerm(w, m.prevIndex + k)
        BY <1>7, <3>1, Zenon DEF Follows
      <3> QED
        BY <1>5, <3>1, <3>2, Zenon DEF LogTerm
    <2>2. c <= Len(Merged(s, m)) /\ \A k \in 1..c : Merged(s, m)[k] = log[s][k]
      BY <1>1, <1>2, <2>1, MergedKeeps, Zenon
    <2> QED
      BY <1>3, <2>2, Zenon DEF KeepsFirst
  <1>8. ASSUME NEW x \in Server PROVE KeepsLog(x)
    <2>1. CASE x = s
      BY <1>3, <1>4, <1>7, <2>1, Zenon DEF KeepsLog
    <2>2. CASE x # s
      <3>1. log'[x] = log[x] /\ Len(log[x]) \in Nat
        BY <1>1, <1>3, <2>2, ServerTypes, Zenon
      <3> QED
        BY <3>1 DEF KeepsLog, KeepsFirst
    <2> QED
      BY <2>1, <2>2, Zenon
  <1>9. ASSUME NEW v \in Server, NEW t \in Nat, NEW n \in Nat, Ack(v, t, n)'
        PROVE  Ack(v, t, n) \/ Acknowledges(v, t, n)
    <2>1. PICK a \in acks' : n > 0 /\ a.voter = v /\ a.term = t /\ n <= a.index
      BY <1>9, Zenon DEF Ack
    <2>2. CASE a \in acks
      BY <2>1, <2>2, Zenon DEF Ack
    <2>3. CASE a = [voter |-> s, term |-> m.term, index |-> last]
      <3>1. v = s /\ t = m.term /\ n <= last
        BY <2>1, <2>3, Zenon
      <3>2. n \in 0..last /\ n <= Len(Merged(s, m))
        BY <1>5, <1>6, <3>1 DEF Follows
      <3>3. Follows(Merged(s, m), n, w)
        BY <1>5, <1>6, <3>2, FollowsPrefix, Zenon
      <3> QED
        BY <1>3, <1>4, <2>1, <3>1, <3>3, Zenon DEF Acknowledges
    <2> QED
      BY <1>2, <2>1, <2>2, <2>3, Zenon
  <1> QED
    BY <1>2, <1>8, <1>9, Zenon DEF Sound

\* Every step is sound.
LEMMA SoundNext ==
    ASSUME QuorumsMeet, ElectionInv, LogInv, [Next]_vars
    PROVE  Sound
  <1>1. TypeOK /\ TermsGrow
    BY ElectionNext, Zenon DEF ElectionInv
  <1>2. ASSUME log' = log \/ (\E s \in Server, t \in Nat : Extend(s, t)),
               elections \subseteq elections', leaders \subseteq leaders', acks' \subseteq acks,
               \A b \in ballots' : b \in ballots \/ Justified(b)
        PROVE  Sound
    BY <1>1, <1>2, LogsKept, QuietSound, Zenon
  <1>3. ASSUME UNCHANGED <<log, elections, ballots, leaders>>, acks' \subseteq acks
        PROVE  Sound
    BY <1>2, <1>3, Zenon
  <1>4. CASE UNCHANGED vars
    BY <1>3, <1>4, Zenon DEF vars
  <1>5. ASSUME NEW s \in Server, Decide(s) \/ Flush(s) \/ Apply(s) \/ Observe(s)
        PROVE  Sound
    BY <1>3, <1>5, Zenon DEF Decide, Flush, Apply, Observe, Lossy
  <1>6. ASSUME NEW s \in Server, Campaign(s) PROVE Sound
    <2> DEFINE e == [term |-> term[s] + 1, cand |-> s, log |-> log[s]]
               b == [term |-> term[s] + 1, voter |-> s, cand |-> s]
    <2>1. /\ elections' = elections \cup {e} /\ ballots' = ballots \cup {b}
          /\ acks' \subseteq acks /\ leaders \subseteq leaders'
          /\ log' = log \/ Extend(s, term[s] + 1)
      BY <1>6, Zenon DEF Campaign, Lead, Lossy
    <2>2. term[s] \in Nat /\ term[s] + 1 \in Nat /\ term[s] <= term[s] + 1
      BY <1>1, ServerTypes
    <2>3. e.term = b.term /\ e.cand = b.cand /\ e.log = log[b.voter] /\ b.voter = s
          /\ b.term = term[s] + 1
      OBVIOUS
    <2> HIDE DEF e, b
    <2>4. Justified(b)
      BY <2>1, <2>2, <2>3, Zenon DEF Justified
    <2> QED
      BY <1>2, <2>1, <2>2, <2>4, Zenon
  <1>7. ASSUME NEW s \in Server, NEW e \in elections, Vote(s, e) PROVE Sound
    <2> DEFINE b == [term |-> e.term, voter |-> s, cand |-> e.cand]
    <2>1. /\ ballots' = ballots \cup {b} /\ acks' \subseteq acks
          /\ UNCHANGED <<log, elections, leaders>>
          /\ term[s] <= e.term /\ UpToDate(e.log, log[s])
      BY <1>7, Zenon DEF Vote, Lossy
    <2>2. \A t, n \in Nat :
            t < e.term /\ Has(log[s], t, n) => Has(e.log, t, n) \/ Missed(t, n, e.term)
      BY <2>1, UpToDateHas, Zenon
    <2>3. b.term = e.term /\ b.voter = s /\ b.cand = e.cand
      OBVIOUS
    <2> HIDE DEF b
    <2>4. Justified(b)
      BY <2>1, <2>2, <2>3, Zenon DEF Justified
    <2> QED
      BY <1>2, <2>1, <2>4, Zenon
  <1>8. ASSUME NEW s \in Server, Win(s) \/ Propose(s) PROVE Sound
    <2>1. /\ UNCHANGED <<elections, ballots>> /\ acks' \subseteq acks /\ leaders \subseteq leaders'
          /\ Extend(s, term[s])
      BY <1>8, Zenon DEF Win, Lead, Propose, Lossy
    <2>2. term[s] \in Nat
      BY <1>1, ServerTypes, Zenon
    <2> QED
      BY <1>2, <2>1, <2>2, Zenon
  <1>9. ASSUME NEW s \in Server, NEW f \in Server, Send(s, f) PROVE Sound
    BY <1>3, <1>9, Zenon DEF Send
  <1>10. ASSUME NEW s \in Server, NEW m \in requests, Store(s, m) PROVE Sound
    <2>1. m.to = s
      BY <1>10, Zenon DEF Store
    <2> QED
      BY <1>1, <1>10, <2>1, StoreSound, Zenon
  <1> QED
    BY <1>4, <1>5, <1>6, <1>7, <1>8, <1>9, <1>10, Zenon DEF Next

-----------------------------------------------------------------------------
(* Every step commits only what is covered.                                *)

\* What a server can commit is covered.
CommitsCovered ==
    \A s \in Server :
        Committable(s, commitIndex[s]) => Covered(log[s], commitIndex[s], term[s])

\* What a leader may commit is chosen.
LEMMA CommittableCovered ==
    QuorumsMeet /\ ElectionInv /\ LogInv /\ VoteInv => CommitsCovered
  <1>1. TypeOK => \A s \in Server : commitIndex[s] \in Nat
    BY Zenon DEF TypeOK
  <1> QED
    BY <1>1, CommitChosen, Zenon DEF CommitsCovered, ElectionInv

\* Commit of one server, in the form of CommitStays.
LEMMA CommitClause ==
    ASSUME TypeOK, CommitsCovered', NEW s \in Server, Commit(s)
    PROVE  \A x \in Server : \/ commitIndex'[x] <= commitIndex[x]
                             \/ commitIndex'[x] <= storedCommit[x]
                             \/ Covered(log[x], commitIndex[x], term[x])'
  <1> SUFFICES ASSUME NEW x \in Server
               PROVE  \/ commitIndex'[x] <= commitIndex[x]
                      \/ commitIndex'[x] <= storedCommit[x]
                      \/ Covered(log[x], commitIndex[x], term[x])'
    OBVIOUS
  <1>1. CASE x = s
    BY <1>1, Zenon DEF Commit, CommitsCovered
  <1>2. CASE x # s
    <2>1. commitIndex'[x] = commitIndex[x] /\ commitIndex[x] \in Nat
      BY <1>2, Zenon DEF Commit, TypeOK
    <2> QED
      BY <2>1
  <1> QED
    BY <1>1, <1>2, Zenon

\* A follower commits what its leader committed, as far as it has it.
LEMMA StoreClause ==
    ASSUME QuorumsMeet, ElectionInv, LogInv, CommitInv, ElectionInv', LogInv', Sound,
           NEW m \in requests, Store(m.to, m)
    PROVE  \A x \in Server : \/ commitIndex'[x] <= commitIndex[x]
                             \/ Covered(log[x], commitIndex[x], term[x])'
  <1> DEFINE s == m.to
             last == m.prevIndex + Len(m.entries)
             c == commitIndex'[s]
  <1>1. TypeOK /\ TypeOK' /\ m \in Request /\ s \in Server /\ m.term \in Nat /\ m.commit \in Nat
    BY RequestFields, Zenon DEF ElectionInv, TypeOK
  <1>2. /\ PrevMatches(s, m)
        /\ term' = [term EXCEPT ![s] = m.term]
        /\ log' = [log EXCEPT ![s] = Merged(s, m)]
        /\ commitIndex' = [commitIndex EXCEPT ![s] = c]
        /\ c <= commitIndex[s] \/ (c <= m.commit /\ c <= last)
    BY Zenon DEF Store
  <1>3. term'[s] = m.term /\ log'[s] = Merged(s, m) /\ c \in Nat /\ commitIndex[s] \in Nat
    BY <1>1, <1>2, Zenon DEF TypeOK
  <1>4. ASSUME NEW x \in Server, x # s PROVE commitIndex'[x] <= commitIndex[x]
    <2>1. commitIndex'[x] = commitIndex[x] /\ commitIndex[x] \in Nat
      BY <1>1, <1>2, <1>4, Zenon DEF TypeOK
    <2> QED
      BY <2>1
  <1>5. ASSUME c <= m.commit, c <= last, c > 0
        PROVE  Covered(log[s], commitIndex[s], term[s])'
    <2>1. PICK w \in Won : w.term = m.term
      BY Zenon DEF LogInv, RequestsFollow
    <2>2. last \in Nat /\ Follows(Merged(s, m), last, w)
      BY <1>2, <2>1, MergedFollows, Zenon
    <2>3. Merged(s, m) \in Seq(Entry)
      BY <1>1, <1>2, MergedType, Zenon
    <2> HIDE DEF last
    <2>4. m.commit > 0
      BY <1>1, <1>3, <1>5, AtLeast, Zenon
    <2>5. PICK e \in Won, n \in Nat : Chosen(e, n) /\ e.term <= m.term /\ m.commit <= n
      <3>1. \E e \in Won, n \in Nat : Chosen(e, n) /\ e.term <= m.term /\ m.commit <= n
        BY <2>4, Zenon DEF CommitInv
      <3> QED
        BY <3>1, Zenon
    <2>6. \A k \in 0..n : LeaderTerm(w, k) = LeaderTerm(e, k)
      BY <2>1, <2>5, ChosenLed, Zenon
    <2>7. c <= n /\ c \in 0..last /\ c <= Len(Merged(s, m))
      BY <1>1, <1>3, <1>5, <2>2, <2>3, <2>5 DEF Follows
    <2>8. Follows(Merged(s, m), c, w)
      BY <2>2, <2>3, <2>7, FollowsPrefix, Zenon
    <2>9. \A k \in 0..c : k \in 0..n
      BY <1>3, <2>7, SubRange, Zenon
    <2>10. Follows(log'[s], c, e)
      BY <1>3, <2>6, <2>8, <2>9, Zenon DEF Follows
    <2>11. e \in Won' /\ Chosen(e, n)'
      BY <2>5, ChosenStays, WonGrows, Zenon DEF Sound
    <2>12. Follows(log[s], commitIndex[s], e)'
      BY <2>10, Zenon DEF Follows, LogTerm, LeaderTerm
    <2> QED
      BY <1>3, <2>5, <2>7, <2>11, <2>12, Zenon DEF Covered
  <1>6. c <= commitIndex[s] \/ Covered(log[s], commitIndex[s], term[s])'
    BY <1>2, <1>3, <1>5
  <1> QED
    BY <1>4, <1>6, Zenon

\* A step that commits only what is covered keeps what is known of commitment.
LEMMA CommitNext ==
    ASSUME QuorumsMeet, ElectionInv, LogInv, CommitInv, ElectionInv', LogInv', Sound,
           CommitsCovered', [Next]_vars
    PROVE  CommitInv'
  <1>1. TypeOK /\ TypeOK'
    BY Zenon DEF ElectionInv
  <1>2. \A x \in Server : commitIndex[x] \in Nat /\ storedCommit[x] \in Nat
    BY <1>1, Zenon DEF TypeOK
  <1> DEFINE Committed == \A x \in Server : \/ commitIndex'[x] <= commitIndex[x]
                                            \/ commitIndex'[x] <= storedCommit[x]
                                            \/ Covered(log[x], commitIndex[x], term[x])'
             Stored == \A x \in Server : storedCommit'[x] \in {storedCommit[x], commitIndex[x]}
             Asked == \A m \in requests' : m \in requests \/ \E x \in Server :
                          m.commit = commitIndex[x] /\ m.term = term[x]
             Handed == \A a \in applied' : a \in applied \/ \E x \in Server :
                          a[1] \in 1..commitIndex[x] /\ a[2] = log[x][a[1]]
  <1>3. ASSUME Committed, Stored, Asked, Handed PROVE CommitInv'
    BY <1>3, CommitStays, Zenon
  <1>4. commitIndex' = commitIndex => Committed
    BY <1>2
  <1>5. storedCommit' = storedCommit => Stored
    OBVIOUS
  <1>6. requests' \subseteq requests => Asked
    OBVIOUS
  <1>7. applied' = applied => Handed
    OBVIOUS
  <1>8. ASSUME NEW s \in Server, Commit(s) PROVE Committed
    BY <1>1, <1>8, CommitClause, Zenon
  <1> HIDE DEF Committed
  <1>9. CASE UNCHANGED vars
    <2>1. /\ commitIndex' = commitIndex /\ storedCommit' = storedCommit
          /\ requests' \subseteq requests /\ applied' = applied
      BY <1>9, Zenon DEF vars
    <2> HIDE DEF Stored, Asked, Handed
    <2> QED
      BY <1>3, <1>4, <1>5, <1>6, <1>7, <2>1, Zenon
  <1>10. ASSUME NEW s \in Server, Decide(s) \/ Win(s) \/ Propose(s) PROVE CommitInv'
    <2>1. /\ Commit(s) /\ storedCommit' = storedCommit
          /\ requests' \subseteq requests /\ applied' = applied
      BY <1>10, Zenon DEF Decide, Win, Lead, Propose, Lossy
    <2> HIDE DEF Stored, Asked, Handed
    <2> QED
      BY <1>3, <1>5, <1>6, <1>7, <1>8, <2>1, Zenon
  <1>11. ASSUME NEW s \in Server, Campaign(s) PROVE CommitInv'
    <2>1. /\ commitIndex' = commitIndex \/ Commit(s)
          /\ storedCommit' = storedCommit
          /\ requests' \subseteq requests /\ applied' = applied
      BY <1>11, Zenon DEF Campaign, Lead, Lossy
    <2> HIDE DEF Stored, Asked, Handed
    <2> QED
      BY <1>3, <1>4, <1>5, <1>6, <1>7, <1>8, <2>1, Zenon
  <1>12. ASSUME NEW s \in Server, NEW e \in elections, Vote(s, e) PROVE CommitInv'
    <2>1. /\ commitIndex' = commitIndex /\ storedCommit' = storedCommit
          /\ requests' \subseteq requests /\ applied' = applied
      BY <1>12, Zenon DEF Vote, Lossy
    <2> HIDE DEF Stored, Asked, Handed
    <2> QED
      BY <1>3, <1>4, <1>5, <1>6, <1>7, <2>1, Zenon
  <1>13. ASSUME NEW s \in Server, Observe(s) PROVE CommitInv'
    <2>1. /\ commitIndex' = commitIndex /\ storedCommit' = storedCommit
          /\ requests' \subseteq requests /\ applied' = applied
      BY <1>13, Zenon DEF Observe, Lossy
    <2> HIDE DEF Stored, Asked, Handed
    <2> QED
      BY <1>3, <1>4, <1>5, <1>6, <1>7, <2>1, Zenon
  <1>14. ASSUME NEW s \in Server, Flush(s) PROVE CommitInv'
    <2>1. /\ commitIndex' = commitIndex /\ requests' \subseteq requests /\ applied' = applied
          /\ storedCommit' = [storedCommit EXCEPT ![s] = commitIndex[s]]
      BY <1>14, Zenon DEF Flush, Lossy
    <2>2. Stored
      BY <1>1, <2>1, Zenon DEF TypeOK
    <2> HIDE DEF Stored, Asked, Handed
    <2> QED
      BY <1>3, <1>4, <1>6, <1>7, <2>1, <2>2, Zenon
  <1>15. ASSUME NEW s \in Server, Apply(s) PROVE CommitInv'
    <2>1. /\ commitIndex' = commitIndex /\ requests' \subseteq requests
          /\ storedCommit' = storedCommit
      BY <1>15, Zenon DEF Apply, Lossy
    <2>2. PICK i \in 1..Len(log[s]) :
            i <= commitIndex[s] /\ applied' = applied \cup {<<i, log[s][i]>>}
      BY <1>15, Zenon DEF Apply
    <2>3. i \in 1..commitIndex[s]
      BY <1>2, <2>2
    <2>4. <<i, log[s][i]>>[1] = i /\ <<i, log[s][i]>>[2] = log[s][i]
      OBVIOUS
    <2>5. Handed
      BY <2>2, <2>3, <2>4, Zenon
    <2> HIDE DEF Stored, Asked, Handed
    <2> QED
      BY <1>3, <1>4, <1>5, <1>6, <2>1, <2>5, Zenon
  <1>16. ASSUME NEW s \in Server, NEW f \in Server, Send(s, f) PROVE CommitInv'
    <2>1. commitIndex' = commitIndex /\ storedCommit' = storedCommit /\ applied' = applied
      BY <1>16, Zenon DEF Send
    <2>2. PICK prev \in 0..Len(log[s]) : \E last \in prev..Len(log[s]) :
            requests' \subseteq requests \cup {Stretch(s, f, prev, last)}
      BY <1>16, Zenon DEF Send
    <2>3. PICK last \in prev..Len(log[s]) :
            requests' \subseteq requests \cup {Stretch(s, f, prev, last)}
      BY <2>2, Zenon
    <2>4. Stretch(s, f, prev, last).commit = commitIndex[s]
          /\ Stretch(s, f, prev, last).term = term[s]
      BY Zenon DEF Stretch
    <2>5. Asked
      BY <2>3, <2>4, Zenon
    <2> HIDE DEF Stored, Asked, Handed
    <2> QED
      BY <1>3, <1>4, <1>5, <1>7, <2>1, <2>5, Zenon
  <1>17. ASSUME NEW s \in Server, NEW m \in requests, Store(s, m) PROVE CommitInv'
    <2>1. /\ m.to = s /\ requests' \subseteq requests
          /\ storedCommit' = storedCommit /\ applied' = applied
      BY <1>17, Zenon DEF Store
    <2>2. Committed
      BY <1>17, <2>1, StoreClause, Zenon DEF Committed
    <2> HIDE DEF Stored, Asked, Handed
    <2> QED
      BY <1>3, <1>5, <1>6, <1>7, <2>1, <2>2, Zenon
  <1> QED
    BY <1>9, <1>10, <1>11, <1>12, <1>13, <1>14, <1>15, <1>16, <1>17, Zenon DEF Next

\* Nothing is acknowledged, elected or committed at first.
LEMMA CommitInit == Init => VoteInv /\ CommitInv
  <1> SUFFICES ASSUME Init PROVE VoteInv /\ CommitInv
    OBVIOUS
  <1>1. /\ acks = {} /\ Won = {} /\ requests = {} /\ applied = {}
        /\ \A s \in Server : commitIndex[s] = 0 /\ storedCommit[s] = 0
    BY Zenon DEF Init, Won
  <1>2. VoteInv
    BY <1>1, Zenon DEF VoteInv, AcksTrue, QuorumsTold, FirstMissed, Ack
  <1>4. ~(0 > 0)
    OBVIOUS
  <1>3. CommitInv
    BY <1>1, <1>4, Zenon DEF CommitInv, Covered
  <1> QED
    BY <1>2, <1>3, Zenon

\* A step elects at most one leader.
LEMMA OneElected == ASSUME [Next]_vars PROVE \E l : leaders' \subseteq leaders \cup {l}
  <1>1. CASE leaders' = leaders
    BY <1>1, Zenon
  <1>2. ASSUME NEW s \in Server, NEW t, Lead(s, t)
        PROVE  \E l : leaders' \subseteq leaders \cup {l}
    BY <1>2, Zenon DEF Lead
  <1>3. CASE UNCHANGED vars
    BY <1>1, <1>3, Zenon DEF vars
  <1>4. ASSUME NEW s \in Server, Campaign(s) \/ Win(s)
        PROVE  \E l : leaders' \subseteq leaders \cup {l}
    BY <1>1, <1>2, <1>4, Zenon DEF Campaign, Win
  <1> QED
    BY <1>1, <1>3, <1>4, Zenon DEF Next, Decide, Flush, Apply, Observe, Vote, Propose, Send, Store

\* Every step keeps the invariant.
LEMMA InvNext == ASSUME QuorumsMeet, Inv, [Next]_vars PROVE Inv' /\ Sound
  <1>1. ElectionInv /\ LogInv /\ VoteInv /\ CommitInv
    BY Zenon DEF Inv
  <1>2. ElectionInv' /\ LogInv' /\ Sound
    BY <1>1, ElectionNext, LogNext, SoundNext, Zenon
  <1>3. VoteInv'
    BY <1>1, <1>2, AcksNext, QuorumsNext, FirstNext, OneElected, Zenon DEF VoteInv
  <1>4. CommitsCovered'
    BY <1>2, <1>3, CommittableCovered, PTL
  <1>5. CommitInv'
    BY <1>1, <1>2, <1>4, CommitNext, Zenon
  <1> QED
    BY <1>2, <1>3, <1>5, Zenon DEF Inv

-----------------------------------------------------------------------------
(* What follows.                                                           *)

\* What is at an index in the log of the leader of a term is there in the log
\* of that leader.
LEMMA HeldByLeader ==
    ASSUME ElectionInv, LogInv, NEW l \in Server, NEW w \in Won, w.term = term[l], w.cand = l,
           NEW i \in Nat, i > 0, NEW x \in Entry, Placed(i, x), x.term = LeaderTerm(w, i)
    PROVE  i <= Len(log[l]) /\ log[l][i] = x
  <1>1. /\ log[l] \in Seq(Entry) /\ Len(log[l]) \in Nat
        /\ w.log \in Seq(Entry) /\ Len(w.log) \in Nat
    BY ServerTypes, WonFields, Zenon DEF ElectionInv
  <1>2. Len(w.log) < Len(log[l]) /\ Follows(log[l], Len(log[l]), w)
    BY Zenon DEF LogInv, LeaderLog
  <1>3. i <= Len(log[l])
    <2>1. CASE i <= Len(w.log)
      BY <1>1, <1>2, <2>1
    <2>2. CASE i > Len(w.log)
      <3>1. x.term = w.term
        BY <2>2, Zenon DEF LeaderTerm
      <3>2. PICK e \in Won : e.term = x.term /\ (term[e.cand] = e.term => i <= Len(log[e.cand]))
        BY Zenon DEF LogInv, PlacedLed
      <3>3. e = w
        BY <3>1, <3>2, WonUnique, Zenon
      <3> QED
        BY <3>2, <3>3, Zenon
    <2> QED
      BY <1>1, <2>1, <2>2
  <1>4. i \in 1..Len(log[l]) /\ i \in 0..Len(log[l])
    BY <1>1, <1>3
  <1>5. log[l][i] \in Entry /\ Placed(i, log[l][i])
    BY <1>1, <1>4 DEF Placed
  <1>6. log[l][i].term = LeaderTerm(w, i)
    BY <1>2, <1>4 DEF Follows, LogTerm
  <1> QED
    BY <1>3, <1>5, <1>6, Zenon DEF LogInv, EntryUnique

\* A leader has what was committed.
LEMMA LeadersComplete == Inv => LeaderCompleteness
  <1> SUFFICES ASSUME Inv, NEW l \in Server, NEW s \in Server, Elected(l), term[l] >= term[s]
               PROVE  /\ commitIndex[s] <= Len(log[l])
                      /\ \A i \in 1..commitIndex[s] : log[l][i] = log[s][i]
    BY Zenon DEF LeaderCompleteness
  <1>1. ElectionInv /\ LogInv /\ CommitInv /\ TypeOK
    BY Zenon DEF Inv, ElectionInv
  <1>2. /\ commitIndex[s] \in Nat /\ term[l] \in Nat /\ term[s] \in Nat
        /\ Len(log[l]) \in Nat /\ log[s] \in Seq(Entry) /\ Len(log[s]) \in Nat
    BY <1>1, ServerTypes, Zenon DEF TypeOK
  <1>3. CASE commitIndex[s] = 0
    BY <1>2, <1>3
  <1>4. CASE commitIndex[s] > 0
    <2>1. PICK w \in Won : w.term = term[l] /\ w.cand = l
      BY <1>1, LeaderElection, Zenon
    <2>2. PICK e \in Won, n \in Nat :
            /\ Chosen(e, n) /\ e.term <= term[s] /\ commitIndex[s] <= n
            /\ Follows(log[s], commitIndex[s], e)
      BY <1>1, <1>4, Zenon DEF CommitInv, Covered
    <2>6. n \in Nat /\ commitIndex[s] \in Nat /\ Len(log[s]) \in Nat
      BY <1>2, Zenon
    <2>3. e.term \in Nat /\ e.term <= w.term
      BY <1>1, <1>2, <2>1, <2>2, WonFields
    <2>4. \A k \in 0..n : LeaderTerm(w, k) = LeaderTerm(e, k)
      BY <1>1, <2>2, <2>3, ChosenLed, Zenon
    <2>5. ASSUME NEW i \in 1..commitIndex[s] PROVE i <= Len(log[l]) /\ log[l][i] = log[s][i]
      <3>4. commitIndex[s] <= n /\ commitIndex[s] <= Len(log[s])
        BY <2>2, Zenon DEF Follows
      <3>1. i \in Nat /\ i > 0 /\ i \in 0..n /\ i \in 0..commitIndex[s] /\ i \in 1..Len(log[s])
        BY <2>6, <3>4, InRange, Zenon
      <3>2. log[s][i] \in Entry /\ Placed(i, log[s][i])
        BY <1>2, <3>1, PlacedInLog, Zenon
      <3>3. log[s][i].term = LeaderTerm(w, i)
        <4>1. log[s][i].term = LeaderTerm(e, i)
          <5>1. Follows(log[s], commitIndex[s], e)
            BY <2>2, Zenon
          <5>2. \A j \in 0..commitIndex[s] : j > 0 => log[s][j].term = LeaderTerm(e, j)
            BY <5>1, FollowedTerm
          <5> QED
            BY <3>1, <5>2, Zenon
        <4> QED
          BY <2>4, <3>1, <4>1, Zenon
      <3> QED
        BY <1>1, <2>1, <3>1, <3>2, <3>3, HeldByLeader
    <2> QED
      BY <1>2, <1>4, <2>5
  <1> QED
    BY <1>2, <1>3, <1>4

\* What was applied at one index is one entry.
LEMMA AppliedAgrees == Inv => StateMachineSafety
  <1> SUFFICES ASSUME Inv PROVE StateMachineSafety
    OBVIOUS
  <1>1. ElectionInv /\ LogInv /\ CommitInv /\ TypeOK
    BY Zenon DEF Inv, ElectionInv
  <1>2. ASSUME NEW d \in Won, NEW e \in Won, NEW n \in Nat, NEW i \in 1..n, Chosen(d, n),
               d.term <= e.term
        PROVE  LeaderTerm(d, i) = LeaderTerm(e, i)
    <2>1. i \in 0..n
      OBVIOUS
    <2> QED
      BY <1>1, <1>2, <2>1, ChosenLed, Zenon
  <1>3. ASSUME NEW a \in applied, NEW b \in applied, a[1] = b[1] PROVE a = b
    <2>1. /\ a[1] \in Nat /\ a[2] \in Entry /\ b[2] \in Entry
          /\ a = <<a[1], a[2]>> /\ b = <<b[1], b[2]>>
      BY <1>1 DEF TypeOK
    <2>2. Placed(a[1], a[2]) /\ Placed(b[1], b[2])
      BY <2>1, Zenon DEF Placed
    <2>3. PICK d \in Won, k \in Nat :
            Chosen(d, k) /\ a[1] \in 1..k /\ a[2].term = LeaderTerm(d, a[1])
      BY <1>1, Zenon DEF CommitInv
    <2>4. PICK e \in Won, n \in Nat :
            Chosen(e, n) /\ b[1] \in 1..n /\ b[2].term = LeaderTerm(e, b[1])
      BY <1>1, Zenon DEF CommitInv
    <2>5. d.term <= e.term \/ e.term <= d.term
      BY <1>1, WonFields
    <2>6. a[2].term = b[2].term
      BY <1>2, <1>3, <2>3, <2>4, <2>5
    <2>7. a[2] = b[2]
      BY <1>1, <1>3, <2>1, <2>2, <2>6, Zenon DEF LogInv, EntryUnique
    <2> QED
      BY <1>3, <2>1, <2>7, Zenon
  <1> QED
    BY <1>3, Zenon DEF StateMachineSafety

\* What was acknowledged to a leader is in both logs.
LEMMA AcksHold == Inv => AcksTruthful
  <1> SUFFICES ASSUME Inv, NEW l \in Server, NEW f \in Server, NEW n \in Nat,
                      Elected(l), term[f] = term[l], Ack(f, term[l], n)
               PROVE  /\ n <= Len(log[f])
                      /\ n <= Len(log[l])
                      /\ \A i \in 1..n : log[f][i] = log[l][i]
    BY Zenon DEF AcksTruthful
  <1>1. ElectionInv /\ LogInv /\ VoteInv /\ TypeOK
    BY Zenon DEF Inv, ElectionInv
  <1>2. term[l] \in Nat /\ Len(log[l]) \in Nat /\ log[f] \in Seq(Entry) /\ Len(log[f]) \in Nat
    BY <1>1, ServerTypes, Zenon
  <1>3. PICK w \in Won : w.term = term[l] /\ w.cand = l
    BY <1>1, LeaderElection, Zenon
  <1>4. PICK e \in Won : e.term = term[l] /\ Follows(log[f], n, e)
    BY <1>1, <1>2, Zenon DEF VoteInv, AcksTrue
  <1>5. e = w
    BY <1>1, <1>3, <1>4, WonUnique, Zenon
  <1>6. n > 0 /\ n <= Len(log[f])
    BY <1>4, Zenon DEF Ack, Follows
  <1>7. ASSUME NEW i \in 1..n PROVE i <= Len(log[l]) /\ log[l][i] = log[f][i]
    <2>1. i \in Nat /\ i > 0 /\ i \in 0..n /\ i \in 1..Len(log[f])
      BY <1>2, <1>6, InRange, Zenon
    <2>2. log[f][i] \in Entry /\ Placed(i, log[f][i])
      BY <1>2, <2>1, PlacedInLog, Zenon
    <2>3. log[f][i].term = LeaderTerm(w, i)
      <3>1. log[f][i].term = LeaderTerm(e, i)
        <4>1. \A j \in 0..n : j > 0 => log[f][j].term = LeaderTerm(e, j)
          BY <1>4, FollowedTerm
        <4> QED
          BY <2>1, <4>1, Zenon
      <3> QED
        BY <1>5, <3>1, Zenon
    <2> QED
      BY <1>1, <1>3, <2>1, <2>2, <2>3, HeldByLeader
  <1> QED
    BY <1>2, <1>6, <1>7

\* A step removes nothing that is committed.
LEMMA CommittedKept ==
    ASSUME QuorumsMeet, Inv, [Next]_vars
    PROVE  CommittedStays
  <1>1. ElectionInv /\ LogInv /\ CommitInv /\ ElectionInv' /\ Sound
    BY InvNext, Zenon DEF Inv
  <1>2. TypeOK /\ TypeOK'
    BY <1>1, Zenon DEF ElectionInv
  <1>3. \A s \in Server : commitIndex[s] \in Nat /\ Covered(log[s], commitIndex[s], term[s])
                          /\ KeepsLog(s) /\ term[s] <= term'[s]
    BY <1>1, <1>2, Zenon DEF CommitInv, TypeOK, Sound, TermsGrow
  <1>4. \A s \in Server : KeepsFirst(s, commitIndex[s])
    BY <1>1, <1>2, <1>3, CoveredKept, Zenon
  <1> QED
    BY <1>4, Zenon DEF CommittedStays, KeepsFirst

\* The invariant holds, and with it everything that agreement means: logs match,
\* leaders have what was committed, servers apply the same entries, and
\* acknowledgements are true.
THEOREM Agreement ==
    ASSUME QuorumsMeet
    PROVE  Spec => [](Inv /\ LogMatching /\ LeaderCompleteness /\ StateMachineSafety
                          /\ AcksTruthful)
  <1>1. Init => Inv
    BY ElectionInit, LogInit, CommitInit, Zenon DEF Inv
  <1>2. Inv /\ [Next]_vars => Inv'
    BY InvNext, Zenon
  <1>3. Inv => LogMatching /\ LeaderCompleteness /\ StateMachineSafety /\ AcksTruthful
    BY LogsMatch, LeadersComplete, AppliedAgrees, AcksHold, Zenon DEF Inv
  <1> QED
    BY <1>1, <1>2, <1>3, PTL DEF Spec

\* No step of any server removes or changes an entry it holds as committed.
THEOREM CommittedForever ==
    ASSUME QuorumsMeet
    PROVE  Spec => [][CommittedStays]_vars
  <1>1. Spec => []Inv
    BY Agreement, PTL
  <1>2. Inv /\ [Next]_vars => CommittedStays
    BY CommittedKept, Zenon
  <1> QED
    BY <1>1, <1>2, PTL DEF Spec
=============================================================================
