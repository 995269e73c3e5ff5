---------------------------- MODULE ChosenProofs ----------------------------
(***************************************************************************)
(* Entries that are there to stay: what the acknowledgements, votes and    *)
(* elections of Consensus say of each other, what makes an entry chosen,   *)
(* and why a step that keeps to six rules (Sound) leaves it chosen.        *)
(***************************************************************************)
EXTENDS ConsensusProofs

-----------------------------------------------------------------------------
(* What acknowledgements, votes and elections say of each other.           *)

\* lg has an entry of term t at index n.
Has(lg, t, n) == n \in 1..Len(lg) /\ lg[n].term = t

\* Somebody was elected after term t, up to term last, without that entry.
Missed(t, n, last) == \E d \in Won : t < d.term /\ d.term <= last /\ ~Has(d.log, t, n)
\* v is past term t, has that entry, and votes only for servers that have it,
\* unless a leader without it was elected in between.
Kept(v, t, n) ==
    /\ t <= term[v]
    /\ Has(log[v], t, n) \/ Missed(t, n, term[v])
    /\ \A b \in ballots : \A e \in elections :
          b.voter = v /\ b.term > t /\ ~Led(b.term) /\ e.term = b.term /\ e.cand = b.cand
             => Has(e.log, t, n) \/ Missed(t, n, b.term)

\* What a server acknowledged it has while the term lasts, and the entries of
\* that term it keeps.
AcksTrue ==
    \A v \in Server, t \in Nat, n \in Nat :
        Ack(v, t, n) =>
            /\ t <= term[v]
            /\ \E e \in Won :
                /\ e.term = t
                /\ term[v] = t => Follows(log[v], n, e)
                /\ n > Len(e.log) => Kept(v, t, n)

\* A leader was elected by servers that know of no entry it misses, except
\* those that an earlier leader already missed.
QuorumsTold ==
    \A d \in Won :
        \E Q \in Quorum :
            \A v \in Q :
                /\ d.term <= term[v]
                /\ \A e \in Won, n \in Nat :
                    Ack(v, e.term, n) /\ e.term < d.term /\ n > Len(e.log)
                        => Has(d.log, e.term, n) \/ Missed(e.term, n, d.term - 1)

\* If a later leader misses an entry, there is a first one that does.
FirstMissed ==
    \A t, n \in Nat : \A d \in Won :
        t < d.term /\ ~Has(d.log, t, n) =>
            \E f \in Won :
                /\ t < f.term /\ ~Has(f.log, t, n)
                /\ \A x \in Won : t < x.term /\ x.term < f.term => Has(x.log, t, n)

\* What is acknowledged, and what later leaders made of it.
VoteInv == AcksTrue /\ QuorumsTold /\ FirstMissed

-----------------------------------------------------------------------------
(* Commitment.                                                             *)

\* The entry that the winner of e added at index n is there to stay: every
\* later leader started with it and a quorum keeps it.
Chosen(e, n) ==
    /\ n > Len(e.log)
    /\ \A d \in Won : d.term > e.term => Has(d.log, e.term, n)
    /\ \E Q \in Quorum : \A v \in Q : Kept(v, e.term, n)

\* The first c entries of lg are below an entry chosen in a term up to last.
Covered(lg, c, last) ==
    c > 0 => \E e \in Won, n \in Nat :
                Chosen(e, n) /\ e.term <= last /\ c <= n /\ Follows(lg, c, e)

\* What a server holds as committed, in memory or in the stable store, what a
\* leader tells its followers, and what was applied.
CommitInv ==
    /\ \A s \in Server : Covered(log[s], commitIndex[s], term[s])
    /\ \A s \in Server : Covered(log[s], storedCommit[s], term[s])
    /\ \A m \in requests :
          m.commit > 0 => \E e \in Won, n \in Nat :
                             Chosen(e, n) /\ e.term <= m.term /\ m.commit <= n
    /\ \A a \in applied :
          \E e \in Won, n \in Nat :
             Chosen(e, n) /\ a[1] \in 1..n /\ a[2].term = LeaderTerm(e, a[1])

\* The whole inductive invariant.
Inv == ElectionInv /\ LogInv /\ VoteInv /\ CommitInv

-----------------------------------------------------------------------------
(* Steps.                                                                  *)

\* What a log holds is an entry, and placed.
LEMMA PlacedInLog ==
    ASSUME NEW s \in Server, log[s] \in Seq(Entry), NEW i \in 1..Len(log[s])
    PROVE  log[s][i] \in Entry /\ Placed(i, log[s][i])
  <1>1. log[s][i] \in Entry
    OBVIOUS
  <1> QED
    BY <1>1, Zenon DEF Placed

\* A log that follows a leader has entries of the leader's terms.
LEMMA FollowedTerm ==
    ASSUME NEW lg, NEW n, NEW e, Follows(lg, n, e)
    PROVE  \A i \in 0..n : i > 0 => lg[i].term = LeaderTerm(e, i)
  <1> SUFFICES ASSUME NEW i \in 0..n, i > 0 PROVE lg[i].term = LeaderTerm(e, i)
    OBVIOUS
  <1>1. LogTerm(lg, i) = LeaderTerm(e, i)
    BY Zenon DEF Follows
  <1>2. i # 0
    OBVIOUS
  <1> QED
    BY <1>1, <1>2, Zenon DEF LogTerm

\* Where an index lies.
LEMMA OwnRange == ASSUME NEW c \in Nat PROVE c \in 0..c
  OBVIOUS

\* Arithmetic of indexes.
LEMMA AtLeast == ASSUME NEW c \in Nat, NEW n \in Nat, c <= n, c > 0 PROVE n > 0
  OBVIOUS

\* A shorter range is part of a longer one.
LEMMA SubRange == ASSUME NEW c \in Nat, NEW n \in Nat, c <= n PROVE \A k \in 0..c : k \in 0..n
  OBVIOUS

\* Members of a range of indexes.
LEMMA InRange ==
    ASSUME NEW c \in Nat, NEW i \in 1..c
    PROVE  /\ i \in Nat /\ i > 0 /\ i <= c /\ i \in 0..c /\ c > 0
           /\ \A n \in Nat : c <= n => i \in 0..n /\ i \in 1..n
  OBVIOUS

\* s loses none of its first c entries.
KeepsFirst(s, c) ==
    /\ c <= Len(log'[s])
    /\ \A k \in 1..c : log'[s][k] = log[s][k]

\* s loses no entry, or none that is also the entry of the leader of its term.
KeepsLog(s) ==
    \/ KeepsFirst(s, Len(log[s]))
    \/ \E w \in Won :
          /\ w.term = term'[s]
          /\ \A c \in 0..Len(log[s]) : Follows(log[s], c, w) => KeepsFirst(s, c)

\* A vote is cast for a candidate that has what the voter has.
Justified(b) ==
    /\ term[b.voter] <= b.term
    /\ \E e \in elections' :
        /\ e.term = b.term /\ e.cand = b.cand
        /\ \A t, n \in Nat :
              t < b.term /\ Has(log[b.voter], t, n) => Has(e.log, t, n) \/ Missed(t, n, b.term)

\* v acknowledges what it has of the log of the leader of its term.
Acknowledges(v, t, n) ==
    /\ n > 0
    /\ t = term'[v]
    /\ \E e \in Won : e.term = t /\ Follows(log'[v], n, e)

\* What every step does to the state the argument rests on.
Sound ==
    /\ TermsGrow
    /\ elections \subseteq elections'
    /\ leaders \subseteq leaders'
    /\ \A s \in Server : KeepsLog(s)
    /\ \A b \in ballots' : b \in ballots \/ Justified(b)
    /\ \A v \in Server, t \in Nat, n \in Nat :
          Ack(v, t, n)' => Ack(v, t, n) \/ Acknowledges(v, t, n)

-----------------------------------------------------------------------------
(* Lemmas about elections, held entries and chosen entries.                *)

\* The fields of an election that was won.
LEMMA WonFields ==
    TypeOK => \A e \in Won :
                 /\ e \in elections /\ e.term \in Nat /\ e.cand \in Server
                 /\ e.log \in Seq(Entry) /\ Len(e.log) \in Nat
  BY ElectionFields, Zenon DEF Won

\* The same after a step.
LEMMA WonFieldsNext ==
    TypeOK' => \A e \in Won' :
                  /\ e \in elections' /\ e.term \in Nat /\ e.cand \in Server
                  /\ e.log \in Seq(Entry) /\ Len(e.log) \in Nat
  <1> SUFFICES ASSUME TypeOK', NEW e \in Won'
               PROVE  /\ e \in elections' /\ e.term \in Nat /\ e.cand \in Server
                      /\ e.log \in Seq(Entry) /\ Len(e.log) \in Nat
    OBVIOUS
  <1>1. e \in elections'
    BY Zenon DEF Won
  <1>2. e \in [term : Nat, cand : Server, log : Seq(Entry)]
    BY <1>1, Zenon DEF TypeOK, Election
  <1>3. e.log \in Seq(Entry)
    BY <1>2, Zenon
  <1> QED
    BY <1>1, <1>2, <1>3

\* In a term only one election was won after a step.
LEMMA WonUniqueNext ==
    ElectionInv' /\ LogInv' => \A d, e \in Won' : d.term = e.term => d = e
  <1> SUFFICES ASSUME ElectionInv', LogInv', NEW d \in Won', NEW e \in Won', d.term = e.term
               PROVE  d = e
    OBVIOUS
  <1>1. /\ d \in elections' /\ e \in elections'
        /\ <<d.term, d.cand>> \in leaders' /\ <<e.term, e.cand>> \in leaders'
    BY Zenon DEF Won
  <1>2. ElectionSafety'
    BY Zenon DEF ElectionInv
  <1>3. <<d.term, d.cand>>[1] = d.term /\ <<e.term, e.cand>>[1] = e.term
    OBVIOUS
  <1>4. d.cand = e.cand
    BY <1>1, <1>2, <1>3, Zenon DEF ElectionSafety
  <1> QED
    BY <1>1, <1>4, Zenon DEF LogInv, ElectionsOnce

\* An election stays won.
LEMMA WonGrows ==
    ASSUME elections \subseteq elections', leaders \subseteq leaders'
    PROVE  Won \subseteq Won'
  BY Zenon DEF Won

\* A term has a leader if and only if an election of it was won.
LEMMA LedByWinner ==
    ElectionInv /\ LogInv =>
        \A t \in Nat : Led(t) <=> \E e \in Won : e.term = t
  <1> SUFFICES ASSUME ElectionInv, LogInv, NEW t \in Nat
               PROVE  Led(t) <=> \E e \in Won : e.term = t
    OBVIOUS
  <1>1. ASSUME Led(t) PROVE \E e \in Won : e.term = t
    BY <1>1, WinnerRan, Zenon DEF Led
  <1>2. ASSUME NEW e \in Won, e.term = t PROVE Led(t)
    <2>1. <<e.term, e.cand>> \in leaders
      BY Zenon DEF Won
    <2> QED
      BY <1>2, <2>1, Zenon DEF Led
  <1> QED
    BY <1>1, <1>2, Zenon

\* What was missed stays missed.
LEMMA MissedStays ==
    ASSUME TypeOK, Won \subseteq Won', NEW t \in Nat, NEW n \in Nat,
           NEW last \in Nat, NEW later \in Nat, last <= later, Missed(t, n, last)
    PROVE  Missed(t, n, later)'
  <1>1. PICK d \in Won : t < d.term /\ d.term <= last /\ ~Has(d.log, t, n)
    BY Zenon DEF Missed
  <1>2. d \in Won' /\ d.term \in Nat
    BY WonFields, Zenon
  <1>3. d.term <= later
    BY <1>1, <1>2
  <1> QED
    BY <1>1, <1>2, <1>3, Zenon DEF Missed, Has

\* The same without a step.
LEMMA MissedLater ==
    ASSUME TypeOK, NEW t \in Nat, NEW n \in Nat,
           NEW last \in Nat, NEW later \in Nat, last <= later, Missed(t, n, last)
    PROVE  Missed(t, n, later)
  <1>1. PICK d \in Won : t < d.term /\ d.term <= last /\ ~Has(d.log, t, n)
    BY Zenon DEF Missed
  <1>2. d.term \in Nat
    BY WonFields, Zenon
  <1>3. d.term <= later
    BY <1>1, <1>2
  <1> QED
    BY <1>1, <1>3, Zenon DEF Missed

\* An entry comes from the leader of its term, and so does all below it.
LEMMA HeldFrom ==
    ASSUME ElectionInv, LogInv, NEW lg, Grown(lg), NEW t, NEW n, Has(lg, t, n)
    PROVE  \E w \in Won : w.term = t /\ Len(w.log) < n /\ Follows(lg, n, w)
  BY Zenon DEF Grown, Has

\* A leader either started with an entry of an earlier term or missed it.
LEMMA LeaderHas ==
    ASSUME ElectionInv, LogInv, NEW lg \in Seq(Entry), Grown(lg),
           NEW t \in Nat, NEW n \in Nat, Has(lg, t, n),
           NEW w \in Won, t <= w.term
    PROVE  Follows(lg, n, w) \/ Missed(t, n, w.term)
  <1>1. w.term \in Nat /\ w.log \in Seq(Entry) /\ Len(w.log) \in Nat
    BY WonFields, Zenon DEF ElectionInv
  <1>2. n \in 0..Len(lg) /\ n > 0 /\ LogTerm(lg, n) = t
    BY DEF Has, LogTerm
  <1>3. CASE t = w.term
    <2>1. PICK x \in Won : x.term = t /\ Len(x.log) < n /\ Follows(lg, n, x)
      BY HeldFrom, Zenon
    <2>2. x = w
      BY <1>3, <2>1, WonUnique, Zenon
    <2> QED
      BY <2>1, <2>2, Zenon
  <1>4. CASE t < w.term /\ Has(w.log, t, n)
    <2>1. LeaderTerm(w, n) = t
      BY <1>1, <1>2, <1>4 DEF LeaderTerm, LogTerm, Has
    <2> QED
      BY <1>2, <2>1, GrownFollows, Zenon
  <1>5. CASE t < w.term /\ ~Has(w.log, t, n)
    BY <1>1, <1>5 DEF Missed
  <1> QED
    BY <1>1, <1>3, <1>4, <1>5

\* A server loses an entry only to a leader that missed it.
LEMMA HeldStays ==
    ASSUME ElectionInv, LogInv, TypeOK', NEW v \in Server, KeepsLog(v),
           term[v] <= term'[v], NEW t \in Nat, NEW n \in Nat, t <= term[v],
           Has(log[v], t, n)
    PROVE  Has(log'[v], t, n) \/ Missed(t, n, term'[v])
  <1>1. /\ log[v] \in Seq(Entry) /\ Len(log[v]) \in Nat /\ term[v] \in Nat
        /\ log'[v] \in Seq(Entry) /\ Len(log'[v]) \in Nat /\ term'[v] \in Nat
    BY ServerTypes, ServerTypesNext, Zenon DEF ElectionInv
  <1>2. n \in 1..Len(log[v]) /\ log[v][n].term = t
    BY Zenon DEF Has
  <1>3. ASSUME KeepsFirst(v, n) PROVE Has(log'[v], t, n)
    BY <1>1, <1>2, <1>3 DEF KeepsFirst, Has
  <1>4. CASE KeepsFirst(v, Len(log[v]))
    <2>1. KeepsFirst(v, n)
      BY <1>1, <1>2, <1>4 DEF KeepsFirst
    <2> QED
      BY <1>3, <2>1, Zenon
  <1>5. ASSUME NEW w \in Won, w.term = term'[v],
               \A c \in 0..Len(log[v]) : Follows(log[v], c, w) => KeepsFirst(v, c)
        PROVE  Has(log'[v], t, n) \/ Missed(t, n, term'[v])
    <2>1. t <= w.term
      BY <1>1, <1>5
    <2>2. Grown(log[v])
      BY Zenon DEF LogInv, LogsGrown
    <2>3. Follows(log[v], n, w) \/ Missed(t, n, w.term)
      BY <1>1, <2>1, <2>2, LeaderHas, Zenon
    <2>4. n \in 0..Len(log[v])
      BY <1>1, <1>2
    <2> QED
      BY <1>3, <1>5, <2>3, <2>4, Zenon
  <1> QED
    BY <1>4, <1>5, Zenon DEF KeepsLog

\* While a term lasts, a log follows its leader as far as it did.
LEMMA FollowsStays ==
    ASSUME ElectionInv, LogInv, TypeOK', NEW v \in Server, KeepsLog(v),
           NEW e \in Won, e.term = term'[v], NEW n \in Nat, Follows(log[v], n, e)
    PROVE  Follows(log'[v], n, e)
  <1>1. /\ log[v] \in Seq(Entry) /\ Len(log[v]) \in Nat
        /\ log'[v] \in Seq(Entry) /\ Len(log'[v]) \in Nat
    BY ServerTypes, ServerTypesNext, Zenon DEF ElectionInv
  <1>2. n \in 0..Len(log[v])
    BY <1>1 DEF Follows
  <1>3. KeepsFirst(v, n)
    <2>1. CASE KeepsFirst(v, Len(log[v]))
      BY <1>1, <1>2, <2>1 DEF KeepsFirst
    <2>2. ASSUME NEW w \in Won, w.term = term'[v],
                 \A c \in 0..Len(log[v]) : Follows(log[v], c, w) => KeepsFirst(v, c)
          PROVE  KeepsFirst(v, n)
      <3>1. w = e
        BY <2>2, WonUnique, Zenon
      <3> QED
        BY <1>2, <2>2, <3>1, Zenon
    <2> QED
      BY <2>1, <2>2, Zenon DEF KeepsLog
  <1>4. n \in 0..n /\ n <= Len(log'[v]) /\ \A k \in 1..n : log'[v][k].term = log[v][k].term
    BY <1>3 DEF KeepsFirst
  <1> QED
    BY <1>1, <1>4, FollowsPrefix, Zenon

\* A leader that is not older than a chosen entry has it, and all below it.
LEMMA ChosenLed ==
    ASSUME ElectionInv, LogInv, NEW e \in Won, NEW n \in Nat, Chosen(e, n),
           NEW w \in Won, e.term <= w.term
    PROVE  /\ e.term < w.term => n <= Len(w.log)
           /\ \A k \in 0..n : LeaderTerm(w, k) = LeaderTerm(e, k)
  <1>1. /\ w \in elections /\ w.term \in Nat /\ w.log \in Seq(Entry) /\ Len(w.log) \in Nat
        /\ e.term \in Nat
    BY WonFields, Zenon DEF ElectionInv
  <1>2. CASE e.term = w.term
    BY <1>1, <1>2, WonUnique
  <1>3. CASE e.term < w.term
    <2>1. Has(w.log, e.term, n)
      BY <1>3, Zenon DEF Chosen
    <2>2. Grown(w.log)
      BY <1>1, Zenon DEF LogInv, LogsGrown
    <2>3. PICK x \in Won : x.term = e.term /\ Follows(w.log, n, x)
      BY <2>1, <2>2, HeldFrom, Zenon
    <2>4. x = e
      BY <2>3, WonUnique, Zenon
    <2>5. n <= Len(w.log)
      BY <2>1 DEF Has
    <2>6. ASSUME NEW k \in 0..n PROVE LeaderTerm(w, k) = LeaderTerm(e, k)
      <3>1. LeaderTerm(w, k) = LogTerm(w.log, k)
        BY <1>1, <2>5 DEF LeaderTerm
      <3> QED
        BY <2>3, <2>4, <3>1, Zenon DEF Follows
    <2> QED
      BY <2>5, <2>6, Zenon
  <1> QED
    BY <1>1, <1>2, <1>3

\* No server loses an entry that is covered by a chosen one.
LEMMA CoveredKept ==
    ASSUME ElectionInv, LogInv, TypeOK', NEW s \in Server, KeepsLog(s), term[s] <= term'[s],
           NEW c \in Nat, Covered(log[s], c, term[s])
    PROVE  KeepsFirst(s, c)
  <1>1. /\ log[s] \in Seq(Entry) /\ Len(log[s]) \in Nat /\ term[s] \in Nat
        /\ log'[s] \in Seq(Entry) /\ Len(log'[s]) \in Nat /\ term'[s] \in Nat
    BY ServerTypes, ServerTypesNext, Zenon DEF ElectionInv
  <1>2. CASE c = 0
    BY <1>1, <1>2 DEF KeepsFirst
  <1>3. CASE c > 0
    <2>1. PICK e \in Won, n \in Nat :
              Chosen(e, n) /\ e.term <= term[s] /\ c <= n /\ Follows(log[s], c, e)
      BY <1>3, Zenon DEF Covered
    <2>2. c \in 0..Len(log[s]) /\ e.term \in Nat
      BY <1>1, <2>1, WonFields DEF Follows, ElectionInv
    <2>3. CASE KeepsFirst(s, Len(log[s]))
      BY <1>1, <2>2, <2>3 DEF KeepsFirst
    <2>4. ASSUME NEW w \in Won, w.term = term'[s],
                 \A i \in 0..Len(log[s]) : Follows(log[s], i, w) => KeepsFirst(s, i)
          PROVE  KeepsFirst(s, c)
      <3>1. e.term <= w.term
        BY <1>1, <2>1, <2>2, <2>4
      <3>2. \A k \in 0..n : LeaderTerm(w, k) = LeaderTerm(e, k)
        BY <2>1, <3>1, ChosenLed, Zenon
      <3>3. \A k \in 0..c : k \in 0..n
        BY <2>1
      <3>4. Follows(log[s], c, w)
        BY <2>1, <3>2, <3>3, Zenon DEF Follows
      <3> QED
        BY <2>2, <2>4, <3>4, Zenon
    <2> QED
      BY <2>3, <2>4, Zenon DEF KeepsLog
  <1> QED
    BY <1>2, <1>3

-----------------------------------------------------------------------------
(* What a sound step preserves.                                            *)

\* Who votes after keeping an entry votes for a server that has it.
LEMMA VotesKeep ==
    ASSUME ElectionInv, LogInv, LogInv', Sound,
           NEW v \in Server, NEW t \in Nat, NEW n \in Nat, Kept(v, t, n),
           NEW b \in ballots', b.voter = v, b.term \in Nat, t < b.term, ~Led(b.term),
           NEW e \in elections', e.term = b.term, e.cand = b.cand
    PROVE  Has(e.log, t, n) \/ Missed(t, n, b.term)
  <1>1. \A d \in elections' : d.term = b.term /\ d.cand = b.cand => d = e
    BY Zenon DEF LogInv, ElectionsOnce
  <1>2. CASE b \in ballots
    <2>1. PICK d \in elections : d.term = b.term /\ d.cand = b.cand
      BY <1>2, Zenon DEF ElectionInv, BallotsForElections
    <2>2. d = e
      BY <1>1, <2>1, Zenon DEF Sound
    <2> QED
      BY <1>2, <2>1, <2>2, Zenon DEF Kept
  <1>3. CASE Justified(b)
    <2>1. PICK d \in elections' :
            /\ d.term = b.term /\ d.cand = b.cand
            /\ Has(log[v], t, n) => Has(d.log, t, n) \/ Missed(t, n, b.term)
      BY <1>3, Zenon DEF Justified
    <2>2. d = e
      BY <1>1, <2>1, Zenon
    <2>3. Missed(t, n, term[v]) => Missed(t, n, b.term)
      BY <1>3, ServerTypes, MissedLater, Zenon DEF Justified, ElectionInv
    <2> QED
      BY <2>1, <2>2, <2>3, Zenon DEF Kept
  <1> QED
    BY <1>2, <1>3, Zenon DEF Sound

\* An entry that is kept stays kept.
LEMMA KeptStays ==
    ASSUME ElectionInv, LogInv, ElectionInv', LogInv', Sound,
           NEW v \in Server, NEW t \in Nat, NEW n \in Nat, Kept(v, t, n)
    PROVE  Kept(v, t, n)'
  <1>1. /\ term[v] \in Nat /\ term'[v] \in Nat /\ term[v] <= term'[v]
        /\ TypeOK /\ TypeOK'
    BY ServerTypes, ServerTypesNext, Zenon DEF ElectionInv, Sound, TermsGrow
  <1>2. Won \subseteq Won'
    BY WonGrows, Zenon DEF Sound
  <1>3. t <= term'[v]
    BY <1>1 DEF Kept
  <1>4. Has(log'[v], t, n) \/ Missed(t, n, term[v])'
    <2>1. CASE Missed(t, n, term[v])
      <3>1. \A later \in Nat : term[v] <= later => Missed(t, n, later)'
        BY <1>1, <1>2, <2>1, MissedStays, Zenon
      <3> QED
        BY <1>1, <3>1, Zenon DEF Missed
    <2>2. CASE Has(log[v], t, n)
      <3>1. Has(log'[v], t, n) \/ Missed(t, n, term'[v])
        BY <1>1, <2>2, HeldStays, Zenon DEF Kept, Sound
      <3> QED
        BY <1>2, <3>1, Zenon DEF Missed
    <2> QED
      BY <2>1, <2>2, Zenon DEF Kept
  <1>5. ASSUME NEW b \in ballots', NEW e \in elections',
               b.voter = v, b.term > t, ~Led(b.term)', e.term = b.term, e.cand = b.cand
        PROVE  Has(e.log, t, n) \/ Missed(t, n, b.term)'
    <2>1. b.term \in Nat
      BY <1>1, Zenon DEF TypeOK
    <2>2. ~Led(b.term)
      BY <1>5, Zenon DEF Led, Sound
    <2>3. Has(e.log, t, n) \/ Missed(t, n, b.term)
      BY <1>5, <2>1, <2>2, VotesKeep, Zenon
    <2> QED
      BY <1>2, <2>3, Zenon DEF Missed
  <1> QED
    BY <1>3, <1>4, <1>5, Zenon DEF Kept, Has

\* Whoever is elected in a step is not elected without an entry that one of its
\* voters keeps, unless an earlier leader missed it.
LEMMA ElectedHas ==
    ASSUME QuorumsMeet, ElectionInv, LogInv, ElectionInv', LogInv', Sound,
           NEW d \in Won', d \notin Won
    PROVE  \E Q \in Quorum :
            \A v \in Q :
                /\ d.term <= term'[v]
                /\ \A t, n \in Nat :
                    Kept(v, t, n) /\ t < d.term
                        => Has(d.log, t, n) \/ Missed(t, n, d.term - 1)
  <1>1. /\ d \in elections' /\ <<d.term, d.cand>> \in leaders' /\ d.term \in Nat
        /\ d.cand \in Server
    BY WonFieldsNext, Zenon DEF Won, ElectionInv
  <1>2. PICK Q \in Quorum :
            \A v \in Q : Ballot(d.term, v, d.cand) \in ballots'
    <2>1. <<d.term, d.cand>>[1] = d.term /\ <<d.term, d.cand>>[2] = d.cand
      OBVIOUS
    <2> QED
      BY <1>1, <2>1, Zenon DEF ElectionInv, LeadersBacked, Ballot
  <1>3. ~Led(d.term)
    <2>1. SUFFICES ASSUME Led(d.term) PROVE FALSE
      OBVIOUS
    <2>2. PICK x \in Won : x.term = d.term
      BY <1>1, <2>1, LedByWinner, Zenon
    <2>3. x \in Won'
      BY WonGrows, Zenon DEF Sound
    <2>4. \A y, z \in Won' : y.term = z.term => y = z
      BY WonUniqueNext, Zenon
    <2> QED
      BY <2>2, <2>3, <2>4, Zenon
  <1>4. ASSUME NEW v \in Q
        PROVE  /\ d.term <= term'[v]
               /\ \A t, n \in Nat :
                    Kept(v, t, n) /\ t < d.term
                        => Has(d.log, t, n) \/ Missed(t, n, d.term - 1)
    <2> DEFINE b == Ballot(d.term, v, d.cand)
    <2>1. b \in ballots' /\ b.term = d.term /\ b.voter = v /\ b.cand = d.cand
      BY <1>2, Zenon DEF Ballot
    <2>2. v \in Server
      BY Zenon DEF QuorumsMeet
    <2>3. d.term <= term'[v]
      BY <2>1, Zenon DEF ElectionInv, BallotsPast
    <2> HIDE DEF b
    <2>4. ASSUME NEW t \in Nat, NEW n \in Nat, Kept(v, t, n), t < d.term
          PROVE  Has(d.log, t, n) \/ Missed(t, n, d.term - 1)
      <3>1. Has(d.log, t, n) \/ Missed(t, n, d.term)
        BY <1>1, <1>3, <2>1, <2>2, <2>4, VotesKeep, Zenon
      <3>2. ASSUME Missed(t, n, d.term) PROVE Missed(t, n, d.term - 1)
        <4>1. PICK x \in Won : t < x.term /\ x.term <= d.term /\ ~Has(x.log, t, n)
          BY <3>2, Zenon DEF Missed
        <4>2. x.term \in Nat /\ x.term # d.term
          BY <1>1, <1>3, LedByWinner, WonFields, Zenon DEF ElectionInv
        <4>3. x.term <= d.term - 1
          BY <1>1, <4>1, <4>2
        <4> QED
          BY <4>1, <4>3, Zenon DEF Missed
      <3> QED
        BY <3>1, <3>2, Zenon
    <2> QED
      BY <2>3, <2>4, Zenon
  <1> QED
    BY <1>2, <1>4, Zenon

\* A sound step keeps what is known of acknowledgements and elections.
LEMMA AcksNext ==
    ASSUME ElectionInv, LogInv, VoteInv, ElectionInv', LogInv', Sound
    PROVE  AcksTrue'
  <1> SUFFICES ASSUME NEW v \in Server, NEW t \in Nat, NEW n \in Nat, Ack(v, t, n)'
               PROVE  /\ t <= term'[v]
                      /\ \E e \in Won' :
                          /\ e.term = t
                          /\ term'[v] = t => Follows(log'[v], n, e)
                          /\ n > Len(e.log) => Kept(v, t, n)'
    BY Zenon DEF AcksTrue, Follows, LogTerm, LeaderTerm
  <1>1. /\ term[v] \in Nat /\ term'[v] \in Nat /\ term[v] <= term'[v]
        /\ log'[v] \in Seq(Entry) /\ Len(log'[v]) \in Nat
        /\ TypeOK /\ TypeOK'
    BY ServerTypes, ServerTypesNext, Zenon DEF ElectionInv, Sound, TermsGrow
  <1>2. Won \subseteq Won'
    BY WonGrows, Zenon DEF Sound
  <1>3. CASE Ack(v, t, n)
    <2>1. PICK e \in Won :
            /\ t <= term[v] /\ e.term = t
            /\ term[v] = t => Follows(log[v], n, e)
            /\ n > Len(e.log) => Kept(v, t, n)
      BY <1>3, Zenon DEF VoteInv, AcksTrue
    <2>2. t <= term'[v] /\ (term'[v] = t => term[v] = t)
      BY <1>1, <2>1
    <2>3. term'[v] = t => Follows(log'[v], n, e)
      BY <1>1, <2>1, <2>2, FollowsStays, Zenon DEF Sound
    <2>4. n > Len(e.log) => Kept(v, t, n)'
      BY <2>1, KeptStays, Zenon
    <2> QED
      BY <1>2, <2>1, <2>2, <2>3, <2>4, Zenon
  <1>4. CASE Acknowledges(v, t, n)
    <2>1. PICK e \in Won : e.term = t /\ t = term'[v] /\ n > 0 /\ Follows(log'[v], n, e)
      BY <1>4, Zenon DEF Acknowledges
    <2>2. ASSUME n > Len(e.log) PROVE Kept(v, t, n)'
      <3>1. Has(log'[v], t, n)
        <4>1. n \in 1..Len(log'[v]) /\ n \in 0..n
          BY <1>1, <2>1 DEF Follows
        <4>2. LogTerm(log'[v], n) = LeaderTerm(e, n)
          BY <2>1, <4>1, Zenon DEF Follows
        <4> QED
          BY <2>1, <2>2, <4>1, <4>2 DEF LogTerm, LeaderTerm, Has
      <3>2. \A b \in ballots' : b.voter = v => ~(b.term > t)
        <4>1. \A b \in ballots' : b.term \in Nat
          BY <1>1, Zenon DEF TypeOK
        <4>2. \A b \in ballots' : b.term <= term'[b.voter]
          BY Zenon DEF ElectionInv, BallotsPast
        <4> QED
          BY <1>1, <2>1, <4>1, <4>2
      <3> QED
        BY <1>1, <2>1, <3>1, <3>2 DEF Kept, Has
    <2> QED
      BY <1>1, <1>2, <2>1, <2>2
  <1> QED
    BY <1>3, <1>4, Zenon DEF Sound

\* The same for those who elected a leader.
LEMMA QuorumsNext ==
    ASSUME QuorumsMeet, ElectionInv, LogInv, VoteInv, ElectionInv', LogInv', Sound
    PROVE  QuorumsTold'
  <1>1. Won \subseteq Won' /\ TypeOK /\ TypeOK'
    BY WonGrows, Zenon DEF Sound, ElectionInv
  <1>2. ASSUME NEW v \in Server, NEW e \in Won', NEW n \in Nat, Ack(v, e.term, n)',
               e.term < term'[v], n > Len(e.log)
        PROVE  e \in Won /\ Ack(v, e.term, n) /\ Kept(v, e.term, n) /\ e.term \in Nat
    <2>1. e.term \in Nat
      BY <1>1, WonFieldsNext, Zenon
    <2>2. Ack(v, e.term, n)
      <3>1. ~Acknowledges(v, e.term, n)
        BY <1>1, <1>2, <2>1, ServerTypesNext DEF Acknowledges
      <3> QED
        BY <1>2, <2>1, <3>1, Zenon DEF Sound
    <2>3. PICK x \in Won : x.term = e.term /\ (n > Len(x.log) => Kept(v, e.term, n))
      BY <2>1, <2>2, Zenon DEF VoteInv, AcksTrue
    <2>4. \A y, z \in Won' : y.term = z.term => y = z
      BY WonUniqueNext, Zenon
    <2>5. x = e
      BY <1>1, <2>3, <2>4, Zenon
    <2> QED
      BY <1>2, <2>1, <2>2, <2>3, <2>5, Zenon
  <1>3. ASSUME NEW d \in Won'
        PROVE  \E Q \in Quorum :
                \A v \in Q :
                    /\ d.term <= term'[v]
                    /\ \A e \in Won', n \in Nat :
                        Ack(v, e.term, n)' /\ e.term < d.term /\ n > Len(e.log)
                            => Has(d.log, e.term, n) \/ Missed(e.term, n, d.term - 1)'
    <2>1. d.term \in Nat
      BY <1>1, WonFieldsNext, Zenon
    <2>2. PICK Q \in Quorum :
            \A v \in Q :
                /\ d.term <= term'[v]
                /\ \A e \in Won, n \in Nat :
                    Ack(v, e.term, n) /\ Kept(v, e.term, n) /\ e.term < d.term
                    /\ n > Len(e.log)
                        => Has(d.log, e.term, n) \/ Missed(e.term, n, d.term - 1)
      <3>1. CASE d \in Won
        <4>1. PICK Q \in Quorum :
                \A v \in Q :
                    /\ d.term <= term[v]
                    /\ \A e \in Won, n \in Nat :
                        Ack(v, e.term, n) /\ e.term < d.term /\ n > Len(e.log)
                            => Has(d.log, e.term, n) \/ Missed(e.term, n, d.term - 1)
          BY <3>1, Zenon DEF VoteInv, QuorumsTold
        <4>2. \A v \in Q : d.term <= term'[v]
          <5>1. \A v \in Q : v \in Server
            BY Zenon DEF QuorumsMeet
          <5> QED
            BY <1>1, <2>1, <4>1, <5>1, ServerTypes, ServerTypesNext DEF Sound, TermsGrow
        <4> QED
          BY <4>1, <4>2, Zenon
      <3>2. CASE d \notin Won
        <4>1. PICK Q \in Quorum :
                \A v \in Q :
                    /\ d.term <= term'[v]
                    /\ \A t, n \in Nat :
                        Kept(v, t, n) /\ t < d.term
                            => Has(d.log, t, n) \/ Missed(t, n, d.term - 1)
          BY <3>2, ElectedHas, Zenon
        <4>2. \A e \in Won : e.term \in Nat
          BY <1>1, WonFields, Zenon
        <4> QED
          BY <4>1, <4>2, Zenon
      <3> QED
        BY <3>1, <3>2, Zenon
    <2>3. ASSUME NEW v \in Q, NEW e \in Won', NEW n \in Nat,
                 Ack(v, e.term, n)', e.term < d.term, n > Len(e.log)
          PROVE  Has(d.log, e.term, n) \/ Missed(e.term, n, d.term - 1)'
      <3>1. v \in Server /\ term'[v] \in Nat /\ d.term <= term'[v] /\ e.term \in Nat
        BY <1>1, <2>2, ServerTypesNext, WonFieldsNext, Zenon DEF QuorumsMeet
      <3>2. e.term < term'[v]
        BY <2>1, <2>3, <3>1
      <3>3. e \in Won /\ Ack(v, e.term, n) /\ Kept(v, e.term, n)
        BY <1>2, <2>3, <3>1, <3>2, Zenon
      <3>4. Has(d.log, e.term, n) \/ Missed(e.term, n, d.term - 1)
        BY <2>2, <2>3, <3>3, Zenon
      <3> QED
        BY <1>1, <3>4, Zenon DEF Missed
    <2> QED
      BY <2>2, <2>3, Zenon
  <1> QED
    BY <1>3, Zenon DEF QuorumsTold, Has, Missed

\* The first leader that misses an entry is the one it was or the new one.
LEMMA FirstNext ==
    ASSUME ElectionInv, LogInv, VoteInv, ElectionInv', LogInv', Sound,
           NEW l, leaders' \subseteq leaders \cup {l}
    PROVE  FirstMissed'
  <1>1. Won \subseteq Won' /\ TypeOK /\ TypeOK'
    BY WonGrows, Zenon DEF Sound, ElectionInv
  <1>2. \A d, e \in Won' : d.term = e.term => d = e
    BY WonUniqueNext, Zenon
  <1>3. \A d \in Won' : d \in Won \/ <<d.term, d.cand>> = l
    <2>1. SUFFICES ASSUME NEW d \in Won', <<d.term, d.cand>> \in leaders PROVE d \in Won
      BY Zenon DEF Won
    <2>2. PICK x \in Won : x.term = <<d.term, d.cand>>[1]
      BY <2>1, WinnerRan, Zenon
    <2> QED
      BY <1>1, <1>2, <2>2, Zenon
  <1>4. \A d, e \in Won' : d \in Won \/ e \in Won \/ d = e
    BY <1>2, <1>3
  <1>5. SUFFICES ASSUME NEW t \in Nat, NEW n \in Nat, NEW d \in Won',
                        t < d.term, ~Has(d.log, t, n)
                 PROVE  \E f \in Won' :
                           /\ t < f.term /\ ~Has(f.log, t, n)
                           /\ \A x \in Won' : t < x.term /\ x.term < f.term => Has(x.log, t, n)
    BY Zenon DEF FirstMissed, Has
  <1>6. \A x \in Won' : x.term \in Nat
    BY <1>1, WonFieldsNext, Zenon
  <1>7. CASE \A x \in Won : t < x.term => Has(x.log, t, n)
    <2>1. \A x \in Won' : x \in Won \/ x = d
      BY <1>4, <1>5, <1>7, Zenon
    <2> QED
      BY <1>5, <1>6, <1>7, <2>1
  <1>8. ASSUME NEW y \in Won, t < y.term, ~Has(y.log, t, n)
        PROVE  \E f \in Won' :
                  /\ t < f.term /\ ~Has(f.log, t, n)
                  /\ \A x \in Won' : t < x.term /\ x.term < f.term => Has(x.log, t, n)
    <2>1. PICK f \in Won :
            /\ t < f.term /\ ~Has(f.log, t, n)
            /\ \A x \in Won : t < x.term /\ x.term < f.term => Has(x.log, t, n)
      BY <1>8, Zenon DEF VoteInv, FirstMissed
    <2>2. CASE \A x \in Won' : t < x.term /\ x.term < f.term => Has(x.log, t, n)
      BY <1>1, <2>1, <2>2, Zenon
    <2>3. ASSUME NEW g \in Won', t < g.term, g.term < f.term, ~Has(g.log, t, n)
          PROVE  \A x \in Won' : t < x.term /\ x.term < g.term => Has(x.log, t, n)
      <3>1. g \notin Won
        BY <2>1, <2>3, Zenon
      <3>2. ASSUME NEW x \in Won', t < x.term, x.term < g.term PROVE Has(x.log, t, n)
        <4>1. x.term \in Nat /\ g.term \in Nat /\ f.term \in Nat
          BY <1>1, <1>6, Zenon
        <4>2. x # g /\ x.term < f.term
          BY <2>3, <3>2, <4>1
        <4>3. x \in Won
          BY <1>4, <3>1, <4>2, Zenon
        <4> QED
          BY <2>1, <3>2, <4>2, <4>3, Zenon
      <3> QED
        BY <3>2, Zenon
    <2> QED
      BY <2>2, <2>3, Zenon
  <1> QED
    BY <1>7, <1>8, Zenon

-----------------------------------------------------------------------------
(* Chosen entries.                                                         *)

\* A chosen entry stays chosen.
LEMMA ChosenStays ==
    ASSUME QuorumsMeet, ElectionInv, LogInv, ElectionInv', LogInv', Sound,
           NEW e \in Won, NEW n \in Nat, Chosen(e, n)
    PROVE  Chosen(e, n)'
  <1>1. e.term \in Nat
    BY WonFields, Zenon DEF ElectionInv
  <1>2. PICK P \in Quorum : \A v \in P : Kept(v, e.term, n)
    BY Zenon DEF Chosen
  <1>3. \A v \in P : v \in Server /\ Kept(v, e.term, n)'
    BY <1>1, <1>2, KeptStays, Zenon DEF QuorumsMeet
  <1>4. ASSUME NEW d \in Won', d.term > e.term
        PROVE  Has(d.log, e.term, n)
    <2>1. CASE d \in Won
      BY <1>4, <2>1, Zenon DEF Chosen
    <2>2. CASE d \notin Won
      <3>1. PICK Q \in Quorum :
              \A v \in Q :
                  \A t, k \in Nat :
                      Kept(v, t, k) /\ t < d.term
                          => Has(d.log, t, k) \/ Missed(t, k, d.term - 1)
        BY <2>2, ElectedHas, Zenon
      <3>2. PICK v \in Server : v \in P /\ v \in Q
        BY Zenon DEF QuorumsMeet
      <3>3. Has(d.log, e.term, n) \/ Missed(e.term, n, d.term - 1)
        BY <1>1, <1>2, <1>4, <3>1, <3>2, Zenon
      <3>4. ~Missed(e.term, n, d.term - 1)
        BY Zenon DEF Chosen, Missed
      <3> QED
        BY <3>3, <3>4, Zenon
    <2> QED
      BY <2>1, <2>2, Zenon
  <1>5. n > Len(e.log)
    BY Zenon DEF Chosen
  <1> QED
    BY <1>2, <1>3, <1>4, <1>5, Zenon DEF Chosen, Has

\* An entry of its own term that a leader can commit is chosen, and covers what
\* is below it.
LEMMA CommitChosen ==
    ASSUME QuorumsMeet, ElectionInv, LogInv, VoteInv,
           NEW s \in Server, NEW n \in Nat, Committable(s, n)
    PROVE  Covered(log[s], n, term[s])
  <1> DEFINE t == term[s]
  <1>1. /\ log[s] \in Seq(Entry) /\ Len(log[s]) \in Nat /\ t \in Nat /\ n > 0
        /\ n \in 1..Len(log[s]) /\ log[s][n].term = t /\ TypeOK
    BY ServerTypes DEF ElectionInv, Committable
  <1>2. PICK e \in Won : e.term = t /\ e.cand = s /\ Follows(log[s], Len(log[s]), e)
    BY LeaderElection, Zenon DEF Committable
  <1>3. e \in elections /\ e.log \in Seq(Entry) /\ Len(e.log) \in Nat
    BY <1>1, WonFields, Zenon
  <1>4. n > Len(e.log)
    <2>1. PICK x \in Won : x.term = t /\ Len(x.log) < n
      BY <1>1, HeldFrom, Zenon DEF LogInv, LogsGrown, Has
    <2>2. x = e
      BY <1>2, <2>1, WonUnique, Zenon
    <2> QED
      BY <2>1, <2>2, Zenon
  <1>5. Follows(log[s], n, e)
    BY <1>1, <1>2 DEF Follows
  <1>6. PICK P \in Quorum :
            \A v \in P : v = s \/ \E a \in acks : a.voter = v /\ a.term = t /\ n <= a.index
    BY Zenon DEF Committable
  <1>7. \A v \in P : v \in Server /\ (v # s => Ack(v, t, n))
    BY <1>1, <1>6, Zenon DEF Ack, QuorumsMeet
  <1>8. ASSUME NEW v \in P PROVE Kept(v, t, n)
    <2>1. CASE v = s
      <3>1. \A b \in ballots : b.voter = s => ~(b.term > t)
        BY <1>1 DEF ElectionInv, BallotsPast, TypeOK
      <3> QED
        BY <1>1, <2>1, <3>1 DEF Kept, Has
    <2>2. CASE v # s
      <3>1. PICK x \in Won : x.term = t /\ (n > Len(x.log) => Kept(v, t, n))
        BY <1>1, <1>7, <2>2, Zenon DEF VoteInv, AcksTrue
      <3>2. x = e
        BY <1>2, <3>1, WonUnique, Zenon
      <3> QED
        BY <1>4, <3>1, <3>2, Zenon
    <2> QED
      BY <2>1, <2>2, Zenon
  <1>9. ASSUME NEW d \in Won, d.term > t, ~Has(d.log, t, n) PROVE FALSE
    <2>1. PICK f \in Won :
            /\ t < f.term /\ ~Has(f.log, t, n)
            /\ \A x \in Won : t < x.term /\ x.term < f.term => Has(x.log, t, n)
      BY <1>1, <1>9, Zenon DEF VoteInv, FirstMissed
    <2>3. f.term \in Nat
      BY <1>1, WonFields, Zenon
    <2>4. ~Missed(t, n, f.term - 1)
      <3>1. SUFFICES ASSUME NEW x \in Won, t < x.term, x.term <= f.term - 1, ~Has(x.log, t, n)
                     PROVE  FALSE
        BY Zenon DEF Missed
      <3>2. x.term \in Nat
        BY <1>1, WonFields, Zenon
      <3>3. x.term < f.term
        BY <2>3, <3>1, <3>2
      <3> QED
        BY <2>1, <3>1, <3>3, Zenon
    <2>5. PICK Q \in Quorum :
            \A v \in Q :
                /\ f.term <= term[v]
                /\ Ack(v, e.term, n) /\ e.term < f.term /\ n > Len(e.log)
                        => Has(f.log, e.term, n) \/ Missed(e.term, n, f.term - 1)
      BY <1>1, <2>1, Zenon DEF VoteInv, QuorumsTold
    <2>6. PICK v \in Server : v \in P /\ v \in Q
      BY Zenon DEF QuorumsMeet
    <2>7. v # s
      BY <1>1, <2>1, <2>3, <2>5, <2>6
    <2> QED
      BY <1>2, <1>4, <1>7, <2>1, <2>4, <2>5, <2>6, <2>7, Zenon
  <1>10. Chosen(e, n)
    BY <1>2, <1>4, <1>8, <1>9, Zenon DEF Chosen
  <1> QED
    BY <1>1, <1>2, <1>5, <1>10 DEF Covered

\* What is covered stays covered, and so does less.
LEMMA CoveredStays ==
    ASSUME QuorumsMeet, ElectionInv, LogInv, ElectionInv', LogInv', Sound,
           NEW s \in Server, NEW c \in Nat, Covered(log[s], c, term[s]), NEW i \in 0..c
    PROVE  Covered(log[s], i, term[s])'
  <1>1. /\ log[s] \in Seq(Entry) /\ Len(log[s]) \in Nat /\ term[s] \in Nat
        /\ log'[s] \in Seq(Entry) /\ Len(log'[s]) \in Nat /\ term'[s] \in Nat
        /\ term[s] <= term'[s] /\ TypeOK /\ TypeOK'
    BY ServerTypes, ServerTypesNext, Zenon DEF ElectionInv, Sound, TermsGrow
  <1>2. KeepsFirst(s, c)
    BY <1>1, CoveredKept, Zenon DEF Sound
  <1>3. CASE c = 0
    BY <1>3 DEF Covered
  <1>4. CASE c > 0
    <2>1. PICK e \in Won, n \in Nat :
              Chosen(e, n) /\ e.term <= term[s] /\ c <= n /\ Follows(log[s], c, e)
      BY <1>4, Zenon DEF Covered
    <2>2. e \in Won' /\ Chosen(e, n)' /\ e.term \in Nat
      BY <1>1, <2>1, ChosenStays, WonGrows, WonFields, Zenon DEF Sound
    <2>3. i <= Len(log'[s]) /\ \A k \in 1..i : log'[s][k].term = log[s][k].term
      BY <1>1, <1>2 DEF KeepsFirst
    <2>4. Follows(log'[s], i, e)
      BY <1>1, <2>1, <2>3, FollowsPrefix, Zenon
    <2>5. e.term <= term'[s] /\ i <= n
      BY <1>1, <2>1, <2>2
    <2>6. Follows(log[s], i, e)'
      BY <2>4, Zenon DEF Follows, LogTerm, LeaderTerm
    <2> QED
      BY <2>2, <2>5, <2>6, Zenon DEF Covered
  <1> QED
    BY <1>3, <1>4

\* A sound step keeps what is known of commitment, if it commits, stores, sends
\* and applies only what is covered.
LEMMA CommitStays ==
    ASSUME QuorumsMeet, ElectionInv, LogInv, CommitInv, ElectionInv', LogInv', Sound,
           \A s \in Server : \/ commitIndex'[s] <= commitIndex[s]
                             \/ commitIndex'[s] <= storedCommit[s]
                             \/ Covered(log[s], commitIndex[s], term[s])',
           \A s \in Server : storedCommit'[s] \in {storedCommit[s], commitIndex[s]},
           \A m \in requests' : m \in requests \/ \E s \in Server :
               m.commit = commitIndex[s] /\ m.term = term[s],
           \A a \in applied' : a \in applied \/ \E s \in Server :
               a[1] \in 1..commitIndex[s] /\ a[2] = log[s][a[1]]
    PROVE  CommitInv'
  <1>1. TypeOK /\ TypeOK'
    BY Zenon DEF ElectionInv
  <1>2. \A s \in Server : /\ commitIndex[s] \in Nat /\ commitIndex'[s] \in Nat
                          /\ storedCommit[s] \in Nat /\ storedCommit'[s] \in Nat
    BY <1>1, Zenon DEF TypeOK
  <1>3. \A s \in Server : \A c \in Nat : \A i \in 0..c :
            Covered(log[s], c, term[s]) => Covered(log[s], i, term[s])'
    BY CoveredStays, Zenon
  <1>4. \A s \in Server : /\ \A i \in 0..commitIndex[s] : Covered(log[s], i, term[s])'
                          /\ \A i \in 0..storedCommit[s] : Covered(log[s], i, term[s])'
    BY <1>2, <1>3, Zenon DEF CommitInv
  <1>5. ASSUME NEW s \in Server PROVE Covered(log[s], commitIndex[s], term[s])'
    <2>1. CASE commitIndex'[s] \in 0..commitIndex[s] \cup 0..storedCommit[s]
      BY <1>4, <2>1, Zenon DEF Covered
    <2> QED
      BY <1>2, <2>1
  <1>6. ASSUME NEW s \in Server PROVE Covered(log[s], storedCommit[s], term[s])'
    <2>1. storedCommit'[s] \in 0..commitIndex[s] \cup 0..storedCommit[s]
      BY <1>2, OwnRange, Zenon
    <2> QED
      BY <1>4, <2>1, Zenon DEF Covered
  <1>7. \A e \in Won, n \in Nat : Chosen(e, n) => e \in Won' /\ Chosen(e, n)'
    BY ChosenStays, WonGrows, Zenon DEF Sound
  <1>8. ASSUME NEW m \in requests', m.commit > 0
        PROVE  \E e \in Won', n \in Nat : Chosen(e, n)' /\ e.term <= m.term /\ m.commit <= n
    <2>1. \E e \in Won, n \in Nat : Chosen(e, n) /\ e.term <= m.term /\ m.commit <= n
      BY <1>8, Zenon DEF CommitInv, Covered
    <2> QED
      BY <1>7, <2>1, Zenon
  <1>9. ASSUME NEW a \in applied'
        PROVE  \E e \in Won', n \in Nat :
                  Chosen(e, n)' /\ a[1] \in 1..n /\ a[2].term = LeaderTerm(e, a[1])
    <2>1. CASE a \in applied
      BY <1>7, <2>1, Zenon DEF CommitInv
    <2>2. ASSUME NEW s \in Server, a[1] \in 1..commitIndex[s], a[2] = log[s][a[1]]
          PROVE  \E e \in Won, n \in Nat :
                    Chosen(e, n) /\ a[1] \in 1..n /\ a[2].term = LeaderTerm(e, a[1])
      <3>1. /\ commitIndex[s] \in Nat /\ a[1] \in Nat /\ a[1] > 0 /\ a[1] <= commitIndex[s]
            /\ commitIndex[s] > 0
        BY <1>2, <2>2, InRange, Zenon
      <3>2. PICK e \in Won, n \in Nat :
              Chosen(e, n) /\ commitIndex[s] <= n /\ Follows(log[s], commitIndex[s], e)
        BY <3>1, Zenon DEF CommitInv, Covered
      <3>3. a[1] \in 1..n /\ a[1] \in 0..commitIndex[s]
        BY <3>1, <3>2
      <3>4. LogTerm(log[s], a[1]) = LeaderTerm(e, a[1])
        BY <3>2, <3>3, Zenon DEF Follows
      <3>5. a[2].term = LeaderTerm(e, a[1])
        BY <2>2, <3>1, <3>4 DEF LogTerm
      <3> QED
        BY <3>2, <3>3, <3>5, Zenon
    <2> QED
      BY <1>7, <2>1, <2>2, Zenon
  <1> QED
    BY <1>5, <1>6, <1>8, <1>9, Zenon DEF CommitInv, LeaderTerm, LogTerm

=============================================================================
