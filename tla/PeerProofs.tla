----------------------------- MODULE PeerProofs -----------------------------
(***************************************************************************)
(* What is proved of the parts a server needs to talk to its peers, for    *)
(* every value of their constants.                                         *)
(*                                                                         *)
(* DurableVote: the server tells of one vote per term, through write       *)
(* errors and crashes between any two writes, if a candidate's own vote is *)
(* written.  InflightWindow: the ring buffer of pkg/raft/inflight.go       *)
(* implements the bounded queue of module Window.                          *)
(***************************************************************************)
EXTENDS DurableVote, InflightWindow, Integers, TLAPS

-----------------------------------------------------------------------------
(* The durable vote: types.                                                *)

\* Whom a vote can be for.
Ballots == Others \cup {Self, Nil}

\* What the stable store holds.
Disk == [term : 0..MaxTerm, vote : Ballots]

\* What persistTermAndVotedFor leaves on disk and how it ends, where it is given
\* a term and a vote of their types.
LEMMA PersistType ==
    ASSUME NEW disk \in Disk, NEW t \in 0..MaxTerm, NEW v \in Ballots, NEW p \in Persist(disk, t, v)
    PROVE  p.disk \in Disk /\ p.result \in {"ok", "error", "dead"}
  BY DEF Persist, Written, Disk

\* A handler that writes nothing leaves the disk alone.
LEMMA NoPersistType ==
    ASSUME NEW disk \in Disk, NEW p \in NoPersist(disk)
    PROVE  p.disk = disk /\ p.result = "ok"
  BY DEF NoPersist

\* A critical section that ends keeps the counters within their bounds.
LEMMA EndsType ==
    ASSUME VoteTypeOK, NEW o, NEW p, p.disk \in Disk,
           o.result \in {"ok", "error", "dead"}, p.result \in {"ok", "error", "dead"},
           Ends(o, p)
    PROVE  /\ voteErrors' \in 0..MaxVoteErrors
           /\ crashes' \in 0..MaxCrashes
           /\ up' \in BOOLEAN
           /\ stored' \in Disk
  BY DurableVoteAssumption DEF VoteTypeOK, Ends

\* Every step keeps the types.
LEMMA VoteTypeNext == VoteTypeOK /\ [VoteNext]_voteVars => VoteTypeOK'
  <1> SUFFICES ASSUME VoteTypeOK, [VoteNext]_voteVars PROVE VoteTypeOK'
    OBVIOUS
  <1> USE DurableVoteAssumption
  <1>0. stored \in Disk /\ votedFor \in Ballots /\ term \in 0..MaxTerm
    BY Zenon DEF VoteTypeOK, Disk, Ballots
  <1>1. CASE StartElection
    <2>1. PICK o \in NoPersist(stored), p \in Persist(stored, term + 1, Self) :
            Ends(o, p) /\ told' = IF p.result = "dead" THEN told ELSE told \cup {<<term + 1, Self>>}
      BY <1>1, Zenon DEF StartElection
    <2>2. term + 1 \in 1..MaxTerm /\ Self \in Ballots
      BY <1>0, <1>1 DEF StartElection, Ballots
    <2>3. p.disk \in Disk /\ p.result \in {"ok", "error", "dead"} /\ o.result = "ok"
      BY <1>0, <2>2, PersistType, NoPersistType
    <2>4. /\ voteErrors' \in 0..MaxVoteErrors /\ crashes' \in 0..MaxCrashes
          /\ up' \in BOOLEAN /\ stored' \in Disk
      BY <2>1, <2>3, EndsType, Zenon
    <2>5. told' \subseteq (1..MaxTerm) \X (Others \cup {Self})
      BY <2>1, <2>2 DEF VoteTypeOK
    <2> QED
      BY <1>0, <1>1, <2>2, <2>4, <2>5 DEF StartElection, VoteTypeOK, Disk, Ballots
  <1>2. ASSUME NEW t \in 1..MaxTerm, ObserveTerm(t) PROVE VoteTypeOK'
    <2>1. PICK o \in NoPersist(stored), p \in Persist(stored, t, Nil) : Ends(o, p)
      BY <1>2, Zenon DEF ObserveTerm
    <2>2. p.disk \in Disk /\ p.result \in {"ok", "error", "dead"} /\ o.result = "ok"
      BY <1>0, PersistType, NoPersistType DEF Ballots
    <2>3. /\ voteErrors' \in 0..MaxVoteErrors /\ crashes' \in 0..MaxCrashes
          /\ up' \in BOOLEAN /\ stored' \in Disk
      BY <2>1, <2>2, EndsType, Zenon
    <2> QED
      BY <1>2, <2>3 DEF ObserveTerm, VoteTypeOK, Disk, Ballots
  <1>3. ASSUME NEW t \in 1..MaxTerm, NEW c \in Others, NEW logOK \in BOOLEAN,
               HandleRequestVote(t, c, logOK)
        PROVE  VoteTypeOK'
    <2> DEFINE newer == t > term
               cast == IF newer THEN Nil ELSE votedFor
    <2>1. PICK o \in IF newer THEN Persist(stored, t, Nil) ELSE NoPersist(stored) :
             IF o.result # "dead" /\ cast \in {Nil, c} /\ logOK
             THEN \E p \in Persist(o.disk, t, c) :
                    /\ Ends(o, p)
                    /\ votedFor' = IF Granted(p) THEN c ELSE cast
                    /\ told' = IF Granted(p) THEN told \cup {<<t, c>>} ELSE told
             ELSE /\ \E p \in NoPersist(o.disk) : Ends(o, p)
                  /\ votedFor' = cast
                  /\ UNCHANGED told
      BY <1>3, Zenon DEF HandleRequestVote
    <2>2. o.disk \in Disk /\ o.result \in {"ok", "error", "dead"}
      BY <1>0, PersistType, NoPersistType DEF Ballots
    <2>3. PICK p : /\ Ends(o, p) /\ p.disk \in Disk /\ p.result \in {"ok", "error", "dead"}
                   /\ votedFor' \in {c, cast}
                   /\ told' \in {told, told \cup {<<t, c>>}}
      BY <2>1, <2>2, PersistType, NoPersistType DEF Ballots
    <2>4. /\ voteErrors' \in 0..MaxVoteErrors /\ crashes' \in 0..MaxCrashes
          /\ up' \in BOOLEAN /\ stored' \in Disk
      BY <2>2, <2>3, EndsType, Zenon
    <2>5. told' \subseteq (1..MaxTerm) \X (Others \cup {Self})
      BY <2>3 DEF VoteTypeOK
    <2>6. votedFor' \in Ballots
      BY <1>0, <2>3, Zenon DEF Ballots
    <2> QED
      BY <1>3, <2>4, <2>5, <2>6 DEF HandleRequestVote, VoteTypeOK, Disk, Ballots
  <1>4. CASE Crash
    <2>1. crashes' \in 0..MaxCrashes
      BY <1>4 DEF Crash, VoteTypeOK
    <2>2. up' \in BOOLEAN
      BY <1>4, Zenon DEF Crash
    <2> QED
      BY <1>4, <2>1, <2>2, Zenon DEF Crash, VoteTypeOK
  <1>5. CASE LoadTerm
    BY <1>5, Zenon DEF LoadTerm, VoteTypeOK
  <1>6. CASE UNCHANGED voteVars
    BY <1>6, Zenon DEF voteVars, VoteTypeOK
  <1> QED
    BY <1>1, <1>2, <1>3, <1>4, <1>5, <1>6, Zenon DEF VoteNext

-----------------------------------------------------------------------------
(* The durable vote: the inductive invariant.                              *)

\* A vote that was told is on disk, until the disk holds a later term.
ToldIsStored ==
    \A a \in told : a[1] < stored.term \/ (a[1] = stored.term /\ a[2] = stored.vote)

\* A running server has not fallen behind its disk, and remembers the vote it told
\* of in its term.
ToldIsRemembered ==
    up => /\ stored.term <= term
          /\ \A a \in told : a[1] < term \/ (a[1] = term /\ a[2] = votedFor)

\* The inductive invariant of the durable vote.
VoteInv == VoteTypeOK /\ ToldIsStored /\ ToldIsRemembered /\ VotesOncePerTerm

\* persistTermAndVotedFor in a term that is not behind the disk, whatever becomes
\* of it: what was told stays on disk if it is of an earlier term, or is the vote
\* being written and on disk already.
LEMMA PersistKeepsTold ==
    ASSUME VoteTypeOK, NEW disk \in Disk, NEW t \in 0..MaxTerm, NEW v \in Ballots,
           NEW p \in Persist(disk, t, v),
           disk.term <= t,
           \A a \in told : a[1] < disk.term \/ (a[1] = disk.term /\ a[2] = disk.vote),
           \A a \in told : a[1] = t => a[2] = v
    PROVE  /\ p.disk.term <= t
           /\ \A a \in told : a[1] < p.disk.term \/ (a[1] = p.disk.term /\ a[2] = p.disk.vote)
  <1>1. told \subseteq Nat \X Ballots
    BY DEF VoteTypeOK, Ballots
  <1>2. PICK n \in 0..2 : p.disk = Written(disk, n, t, v)
    BY DEF Persist
  <1>3. p.disk.term = (IF n >= 1 THEN t ELSE disk.term) /\ p.disk.vote = (IF n >= 2 THEN v ELSE disk.vote)
    BY <1>2 DEF Written
  <1>4. disk.term \in 0..MaxTerm
    BY Zenon DEF Disk
  <1> QED
    BY <1>1, <1>3, <1>4, DurableVoteAssumption

\* A write that succeeds leaves both values.
LEMMA PersistOk ==
    ASSUME NEW disk, NEW t, NEW v, NEW p \in Persist(disk, t, v), p.result = "ok"
    PROVE  p.disk = [term |-> t, vote |-> v]
  BY DEF Persist, Written

\* It holds at first.
LEMMA VoteInvInit == VoteInit => VoteInv
  BY DurableVoteAssumption
  DEF VoteInit, VoteInv, VoteTypeOK, ToldIsStored, ToldIsRemembered, VotesOncePerTerm

\* startElectionWith, where the self-vote is written.
LEMMA StartElectionKeeps ==
    ASSUME VoteInv, SelfVoteFails = FALSE, StartElection
    PROVE  ToldIsStored' /\ ToldIsRemembered' /\ VotesOncePerTerm'
  <1> USE DurableVoteAssumption
  <1>0. stored \in Disk /\ term \in 0..MaxTerm /\ told \subseteq Nat \X Ballots /\ stored.term <= term
    BY DEF VoteInv, VoteTypeOK, Disk, Ballots, ToldIsRemembered, StartElection
  <1>1. PICK o \in NoPersist(stored), p \in Persist(stored, term + 1, Self) :
          /\ p.result = "error" => SelfVoteFails
          /\ Ends(o, p)
          /\ told' = IF p.result = "dead" THEN told ELSE told \cup {<<term + 1, Self>>}
    BY Zenon DEF StartElection
  <1>2. term + 1 \in 0..MaxTerm /\ Self \in Ballots
    BY <1>0 DEF StartElection, Ballots
  <1>3. \A a \in told : a[1] <= term
    BY <1>0 DEF VoteInv, ToldIsRemembered, StartElection
  <1>4. /\ p.disk.term <= term + 1
        /\ \A a \in told : a[1] < p.disk.term \/ (a[1] = p.disk.term /\ a[2] = p.disk.vote)
    <2>1. \A a \in told : a[1] = term + 1 => a[2] = Self
      BY <1>0, <1>3
    <2>2. stored.term <= term + 1
      BY <1>0 DEF Disk
    <2> QED
      BY <1>0, <1>2, <2>1, <2>2, PersistKeepsTold DEF VoteInv, ToldIsStored
  <1>5. stored' = p.disk /\ term' = term + 1 /\ votedFor' = Self
    BY <1>1, Zenon DEF Ends, StartElection
  <1>6. CASE p.result = "dead"
    <2>1. up' = FALSE
      BY <1>1, <1>6 DEF Ends, NoPersist
    <2>2. told' = told
      BY <1>1, <1>6, Zenon
    <2> QED
      BY <1>4, <1>5, <2>1, <2>2, Zenon DEF ToldIsStored, ToldIsRemembered, VotesOncePerTerm, VoteInv
  <1>7. CASE p.result # "dead"
    <2>1. p.result = "ok"
      BY <1>1, <1>7, <1>0, <1>2, PersistType, Zenon
    <2>2. p.disk = [term |-> term + 1, vote |-> Self]
      BY <2>1, PersistOk
    <2>3. told' = told \cup {<<term + 1, Self>>}
      BY <1>1, <1>7, Zenon
    <2>4. \A a \in told : a[1] < term + 1
      BY <1>0, <1>3
    <2>5. ToldIsStored'
      BY <1>5, <2>2, <2>3, <2>4 DEF ToldIsStored
    <2>6. ToldIsRemembered'
      BY <1>0, <1>5, <2>2, <2>3, <2>4 DEF ToldIsRemembered
    <2>7. VotesOncePerTerm'
      BY <1>0, <2>3, <2>4 DEF VotesOncePerTerm, VoteInv
    <2> QED
      BY <2>5, <2>6, <2>7, Zenon
  <1> QED
    BY <1>6, <1>7, Zenon

\* A newer term clears the vote; no vote of that term was told.
LEMMA ObserveTermKeeps ==
    ASSUME VoteInv, NEW t \in 1..MaxTerm, ObserveTerm(t)
    PROVE  ToldIsStored' /\ ToldIsRemembered' /\ VotesOncePerTerm'
  <1> USE DurableVoteAssumption
  <1>0. stored \in Disk /\ term \in 0..MaxTerm /\ told \subseteq Nat \X Ballots
        /\ stored.term <= term /\ t > term
    BY DEF VoteInv, VoteTypeOK, Disk, Ballots, ToldIsRemembered, ObserveTerm
  <1>1. PICK o \in NoPersist(stored), p \in Persist(stored, t, Nil) : Ends(o, p)
    BY Zenon DEF ObserveTerm
  <1>2. \A a \in told : a[1] < t
    BY <1>0 DEF VoteInv, ToldIsRemembered, ObserveTerm
  <1>3. /\ p.disk.term <= t
        /\ \A a \in told : a[1] < p.disk.term \/ (a[1] = p.disk.term /\ a[2] = p.disk.vote)
    <2>1. \A a \in told : a[1] = t => a[2] = Nil
      BY <1>0, <1>2
    <2>2. stored.term <= t /\ Nil \in Ballots /\ t \in 0..MaxTerm
      BY <1>0 DEF Disk, Ballots
    <2> QED
      BY <1>0, <2>1, <2>2, PersistKeepsTold DEF VoteInv, ToldIsStored
  <1>4. stored' = p.disk /\ term' = t /\ votedFor' = Nil /\ told' = told
    BY <1>1, Zenon DEF Ends, ObserveTerm
  <1> QED
    BY <1>2, <1>3, <1>4, Zenon DEF ToldIsStored, ToldIsRemembered, VotesOncePerTerm, VoteInv

\* handleRequestVote: a newer term is adopted first, then the vote is written and
\* only then told.
LEMMA HandleRequestVoteKeeps ==
    ASSUME VoteInv, NEW t \in 1..MaxTerm, NEW c \in Others, NEW logOK \in BOOLEAN,
           HandleRequestVote(t, c, logOK)
    PROVE  ToldIsStored' /\ ToldIsRemembered' /\ VotesOncePerTerm'
  <1> USE DurableVoteAssumption
  <1> DEFINE newer == t > term
             cast == IF newer THEN Nil ELSE votedFor
             Safe(disk) == /\ disk.term <= t
                           /\ \A a \in told : \/ a[1] < disk.term
                                              \/ a[1] = disk.term /\ a[2] = disk.vote
  <1>0. /\ stored \in Disk /\ term \in 0..MaxTerm /\ told \subseteq Nat \X (Others \cup {Self})
        /\ votedFor \in Ballots /\ stored.term <= term /\ t >= term /\ term' = t
    BY DEF VoteInv, VoteTypeOK, Disk, Ballots, ToldIsRemembered, HandleRequestVote
  <1>1. PICK o \in IF newer THEN Persist(stored, t, Nil) ELSE NoPersist(stored) :
           IF o.result # "dead" /\ cast \in {Nil, c} /\ logOK
           THEN \E p \in Persist(o.disk, t, c) :
                  /\ Ends(o, p)
                  /\ votedFor' = IF Granted(p) THEN c ELSE cast
                  /\ told' = IF Granted(p) THEN told \cup {<<t, c>>} ELSE told
           ELSE /\ \E p \in NoPersist(o.disk) : Ends(o, p)
                /\ votedFor' = cast
                /\ UNCHANGED told
    BY Zenon DEF HandleRequestVote
  <1>2. \A a \in told : a[1] < t \/ (a[1] = t /\ a[2] = cast)
    BY <1>0 DEF VoteInv, ToldIsRemembered, HandleRequestVote
  <1>3. o.disk \in Disk /\ Safe(o.disk)
    <2>1. CASE newer
      <3>1. \A a \in told : a[1] = t => a[2] = Nil
        BY <1>2, <2>1
      <3>2. stored.term <= t /\ Nil \in Ballots /\ t \in 0..MaxTerm
        BY <1>0 DEF Disk, Ballots
      <3>3. o \in Persist(stored, t, Nil)
        BY <2>1, Zenon
      <3> QED
        BY <1>0, <3>1, <3>2, <3>3, PersistKeepsTold, PersistType DEF VoteInv, ToldIsStored
    <2>2. CASE ~newer
      <3>1. o.disk = stored
        BY <2>2, NoPersistType, <1>0, Zenon
      <3> QED
        BY <1>0, <3>1 DEF VoteInv, ToldIsStored, Disk
    <2> QED
      BY <2>1, <2>2, Zenon
  <1>4. CASE o.result # "dead" /\ cast \in {Nil, c} /\ logOK
    <2>1. PICK p \in Persist(o.disk, t, c) :
                  /\ Ends(o, p)
                  /\ votedFor' = IF Granted(p) THEN c ELSE cast
                  /\ told' = IF Granted(p) THEN told \cup {<<t, c>>} ELSE told
      BY <1>1, <1>4, Zenon
    <2>2. \A a \in told : a[1] = t => a[2] = c
      BY <1>0, <1>2, <1>4
    <2>3. Safe(p.disk)
      <3>1. t \in 0..MaxTerm /\ c \in Ballots
        BY DEF Ballots
      <3> QED
        BY <1>3, <2>2, <3>1, PersistKeepsTold DEF VoteInv
    <2>4. stored' = p.disk
      BY <2>1, Zenon DEF Ends
    <2>5. CASE Granted(p)
      <3>1. p.disk = [term |-> t, vote |-> c]
        BY <2>5, PersistOk DEF Granted
      <3>2. told' = told \cup {<<t, c>>} /\ votedFor' = c
        BY <2>1, <2>5, Zenon
      <3>3. \A a \in told : a = <<a[1], a[2]>>
        BY <1>0
      <3>4. VotesOncePerTerm'
        <4>1. \A a \in told : a[1] = t => a = <<t, c>>
          BY <2>2, <3>3, Zenon
        <4> QED
          BY <3>2, <4>1 DEF VotesOncePerTerm, VoteInv
      <3>5. ToldIsStored'
        BY <2>3, <2>4, <3>1, <3>2 DEF ToldIsStored
      <3>6. ToldIsRemembered'
        BY <1>0, <1>2, <2>2, <2>4, <3>1, <3>2 DEF ToldIsRemembered
      <3> QED
        BY <3>4, <3>5, <3>6, Zenon
    <2>6. CASE ~Granted(p)
      BY <1>0, <1>2, <2>1, <2>3, <2>4, <2>6, Zenon DEF ToldIsStored, ToldIsRemembered, VotesOncePerTerm, VoteInv
    <2> QED
      BY <2>5, <2>6, Zenon
  <1>5. CASE ~(o.result # "dead" /\ cast \in {Nil, c} /\ logOK)
    <2>1. stored' = o.disk /\ votedFor' = cast /\ told' = told
      BY <1>1, <1>5 DEF NoPersist, Ends
    <2> QED
      BY <1>0, <1>2, <1>3, <2>1, Zenon DEF ToldIsStored, ToldIsRemembered, VotesOncePerTerm, VoteInv
  <1> QED
    BY <1>4, <1>5, Zenon

\* Whatever write fails and whenever the process dies, handleRequestVote and
\* startElectionWith tell of one vote per term, if a candidate's own vote, which
\* startElectionWith writes without looking at the result, is written.
THEOREM OneVotePerTerm ==
    ASSUME SelfVoteFails = FALSE
    PROVE  VoteSpec => []VotesOncePerTerm
  <1>1. VoteInv /\ [VoteNext]_voteVars => VoteInv'
    <2> SUFFICES ASSUME VoteInv, [VoteNext]_voteVars PROVE VoteInv'
      OBVIOUS
    <2>0. VoteTypeOK'
      BY VoteTypeNext, Zenon DEF VoteInv
    <2>1. CASE StartElection
      BY <2>0, <2>1, StartElectionKeeps, Zenon DEF VoteInv
    <2>2. ASSUME NEW t \in 1..MaxTerm, ObserveTerm(t) PROVE VoteInv'
      BY <2>0, <2>2, ObserveTermKeeps, Zenon DEF VoteInv
    <2>3. ASSUME NEW t \in 1..MaxTerm, NEW c \in Others, NEW logOK \in BOOLEAN,
                 HandleRequestVote(t, c, logOK)
          PROVE  VoteInv'
      BY <2>0, <2>3, HandleRequestVoteKeeps, Zenon DEF VoteInv
    <2>4. CASE Crash
      BY <2>0, <2>4, Zenon DEF Crash, VoteInv, ToldIsStored, ToldIsRemembered, VotesOncePerTerm
    <2>5. CASE LoadTerm
      <3>1. stored.term \in Nat
        BY DEF VoteInv, VoteTypeOK
      <3> QED
        BY <2>0, <2>5, <3>1 DEF LoadTerm, VoteInv, ToldIsStored, ToldIsRemembered, VotesOncePerTerm
    <2>6. CASE UNCHANGED voteVars
      BY <2>0, <2>6, Zenon DEF voteVars, VoteInv, ToldIsStored, ToldIsRemembered, VotesOncePerTerm
    <2> QED
      BY <2>1, <2>2, <2>3, <2>4, <2>5, <2>6, Zenon DEF VoteNext
  <1>2. VoteInv => VotesOncePerTerm
    BY Zenon DEF VoteInv
  <1> QED
    BY VoteInvInit, <1>1, <1>2, PTL DEF VoteSpec

-----------------------------------------------------------------------------
(* The window: cursors.                                                    *)

\* A cursor advanced by no more than the capacity wraps at most once.
LEMMA Wrap ==
    ASSUME NEW c \in Nat \ {0}, NEW a \in 0..(2 * c - 1)
    PROVE  a % c = IF a < c THEN a ELSE a - c
  <1>1. a = c * (a \div c) + (a % c) /\ a % c \in 0..(c - 1)
    OBVIOUS
  <1>2. a \div c \in Int
    OBVIOUS
  <1> QED
    BY <1>1, <1>2

\* A sequence with one more element is one it was appended to.
LEMMA Extended ==
    ASSUME NEW S, NEW q \in Seq(S), NEW r \in Seq(S), NEW x \in S,
           Len(r) = Len(q) + 1, \A k \in 1..Len(q) : r[k] = q[k], r[Len(q) + 1] = x
    PROVE  r = Append(q, x)
  OBVIOUS

\* What is left of a sequence without its first n elements.
LEMMA Suffix ==
    ASSUME NEW S, NEW q \in Seq(S), NEW r \in Seq(S), NEW n \in 0..Len(q),
           Len(r) = Len(q) - n, \A k \in 1..Len(r) : r[k] = q[n + k]
    PROVE  r = SubSeq(q, n + 1, Len(q))
  <1> DEFINE u == SubSeq(q, n + 1, Len(q))
  <1>1. u \in Seq(S) /\ Len(u) = Len(q) - n
    OBVIOUS
  <1>2. \A k \in 1..Len(u) : u[k] = q[n + k]
    OBVIOUS
  <1> HIDE DEF u
  <1> QED
    BY <1>1, <1>2

\* The window has at least one slot.
LEMMA CapType == Cap \in Nat \ {0}
  BY WindowAssumption DEF Cap

\* The slot of a position that counts on from slot 0.
SlotOf(i) == IF i < Cap THEN i ELSE i - Cap

\* It is the position modulo the capacity.
LEMMA SlotIsMod ==
    ASSUME NEW i \in 0..(2 * Cap - 1)
    PROVE  i % Cap = SlotOf(i) /\ SlotOf(i) \in Slots
  <1>1. i % Cap = SlotOf(i)
    BY CapType, Wrap, Zenon DEF SlotOf
  <1>2. SlotOf(i) \in Slots
    BY CapType DEF SlotOf, Slots
  <1> QED
    BY <1>1, <1>2, Zenon

-----------------------------------------------------------------------------
(* The window: the inductive invariant.                                    *)

\* The cursors are slots, and the write cursor is size slots after the read
\* cursor, modulo the capacity.
RingInv ==
    /\ buf \in [Slots -> Nat]
    /\ tail \in Slots /\ head \in Slots
    /\ size \in 0..Cap
    /\ head = SlotOf(tail + size)

\* A new ring is an empty queue.
LEMMA RingInit == WindowInit => RingInv /\ Queue!Init
  <1> SUFFICES ASSUME WindowInit PROVE RingInv /\ Queue!Init
    OBVIOUS
  <1>1. RingInv
    BY CapType DEF WindowInit, RingInv, Slots, SlotOf
  <1>2. Contents = << >>
    BY DEF WindowInit, Contents
  <1> QED
    BY <1>1, <1>2, Zenon DEF Queue!Init

\* What a ring holds is a sequence, read slot by slot from the read cursor.
RingSeq(b, t, n) == [k \in 1..n |-> b[(t + k - 1) % Cap]]

\* It is a sequence of n indexes.
LEMMA RingSeqType ==
    ASSUME NEW b \in [Slots -> Nat], NEW t \in Slots, NEW n \in 0..Cap
    PROVE  /\ RingSeq(b, t, n) \in Seq(Nat)
           /\ Len(RingSeq(b, t, n)) = n
           /\ \A k \in 1..n : RingSeq(b, t, n)[k] = b[SlotOf(t + k - 1)]
  <1>1. \A k \in 1..n : t + k - 1 \in 0..(2 * Cap - 1)
    BY CapType DEF Slots
  <1>2. \A k \in 1..n : (t + k - 1) % Cap = SlotOf(t + k - 1) /\ SlotOf(t + k - 1) \in Slots
    BY <1>1, SlotIsMod, Zenon
  <1>3. \A k \in 1..n : RingSeq(b, t, n)[k] = b[SlotOf(t + k - 1)] /\ b[SlotOf(t + k - 1)] \in Nat
    BY <1>2, Zenon DEF RingSeq
  <1>4. n \in Nat
    BY CapType
  <1> QED
    BY <1>3, <1>4 DEF RingSeq

\* The contents of the ring are such a sequence.
LEMMA ContentsIsRingSeq == Contents = RingSeq(buf, tail, size)
  BY Zenon DEF Contents, RingSeq

-----------------------------------------------------------------------------
(* The window: its operations.                                             *)

\* add appends.
LEMMA AddImplements ==
    ASSUME RingInv, NEW idx \in Index, Add(idx)
    PROVE  RingInv' /\ Queue!Add(idx)
  <1>1. tail + size \in 0..(2 * Cap - 1) /\ head + 1 \in 0..(2 * Cap - 1) /\ size < Cap
    <2>1. size # Cap
      BY Zenon DEF Add, Full
    <2> QED
      BY <2>1, CapType DEF RingInv, Slots
  <1>2. head' = SlotOf(head + 1) /\ head' \in Slots
    BY <1>1, SlotIsMod, Zenon DEF Add
  <1>3. RingInv'
    <2>1. buf' \in [Slots -> Nat]
      BY WindowAssumption, Zenon DEF RingInv, Add
    <2>2. head' = SlotOf(tail + (size + 1))
      BY <1>1, <1>2, CapType DEF SlotOf, RingInv, Slots
    <2> QED
      BY <1>1, <1>2, <2>1, <2>2, CapType DEF RingInv, Add
  <1>4. \A k \in 1..size : SlotOf(tail + k - 1) # head /\ SlotOf(tail + k - 1) \in Slots
    BY <1>1, CapType DEF SlotOf, RingInv, Slots
  <1>5. /\ Contents \in Seq(Nat) /\ Len(Contents) = size
        /\ \A k \in 1..size : Contents[k] = buf[SlotOf(tail + k - 1)]
    BY RingSeqType, ContentsIsRingSeq, Zenon DEF RingInv
  <1>6. /\ Contents' \in Seq(Nat) /\ Len(Contents') = size'
        /\ \A k \in 1..size' : Contents'[k] = buf'[SlotOf(tail' + k - 1)]
    <2>1. Contents' = RingSeq(buf', tail', size')
      BY ContentsIsRingSeq, Zenon DEF Contents, RingSeq
    <2> QED
      BY <1>3, <2>1, RingSeqType, Zenon DEF RingInv
  <1>7. \A k \in 1..size : Contents'[k] = Contents[k]
    BY <1>1, <1>4, <1>5, <1>6, CapType DEF Add, RingInv
  <1>8. Contents'[size + 1] = idx
    <2>1. SlotOf(tail + (size + 1) - 1) = head
      BY <1>1, CapType DEF RingInv, SlotOf, Slots
    <2> QED
      BY <1>1, <1>6, <2>1, CapType DEF Add, RingInv
  <1>9. Contents' = Append(Contents, idx)
    <2>1. size' = size + 1
      BY Zenon DEF Add
    <2>2. idx \in Nat
      BY WindowAssumption, Zenon
    <2>3. /\ Len(Contents') = Len(Contents) + 1 /\ Contents'[Len(Contents) + 1] = idx
          /\ \A k \in 1..Len(Contents) : Contents'[k] = Contents[k]
      BY <1>5, <1>6, <1>7, <1>8, <2>1, Zenon
    <2> QED
      BY <1>5, <1>6, <2>2, <2>3, Extended
  <1> QED
    BY <1>1, <1>3, <1>5, <1>9, Zenon DEF Queue!Add

\* ack drops the acknowledged front and nothing else.
LEMMA AckImplements ==
    ASSUME RingInv, NEW idx \in Index, Ack(idx)
    PROVE  RingInv' /\ Queue!Ack(idx)
  <1>1. PICK n \in 0..size :
          /\ \A k \in 0..(n - 1) : buf[(tail + k) % Cap] <= idx
          /\ n < size => buf[(tail + n) % Cap] > idx
          /\ tail' = (tail + n) % Cap
          /\ size' = size - n
          /\ UNCHANGED <<buf, head>>
    BY Zenon DEF Ack
  <1>2. size \in Nat /\ size <= Cap /\ n \in Nat /\ n <= size
    BY CapType DEF RingInv
  <1>3. \A k \in 0..n : tail + k \in 0..(2 * Cap - 1)
    BY <1>2, CapType DEF RingInv, Slots
  <1>4. \A k \in 0..n : (tail + k) % Cap = SlotOf(tail + k)
    BY <1>3, SlotIsMod, Zenon
  <1>5. tail' = SlotOf(tail + n) /\ tail' \in Slots
    BY <1>1, <1>2, <1>3, SlotIsMod
  <1>6. RingInv'
    <2>1. head = SlotOf(tail' + (size - n))
      BY <1>2, <1>5, CapType DEF RingInv, SlotOf, Slots
    <2> QED
      BY <1>1, <1>2, <1>5, <2>1, CapType DEF RingInv
  <1>7. /\ Contents \in Seq(Nat) /\ Len(Contents) = size
        /\ \A k \in 1..size : Contents[k] = buf[SlotOf(tail + k - 1)]
    BY RingSeqType, ContentsIsRingSeq, Zenon DEF RingInv
  <1>8. /\ Contents' \in Seq(Nat) /\ Len(Contents') = size - n
        /\ \A k \in 1..(size - n) : Contents'[k] = buf[SlotOf(tail' + k - 1)]
    <2>1. Contents' = RingSeq(buf', tail', size')
      BY Zenon DEF Contents, RingSeq
    <2> QED
      BY <1>1, <1>6, <2>1, RingSeqType, Zenon DEF RingInv
  <1>9. \A k \in 1..(size - n) : Contents'[k] = Contents[n + k]
    <2> SUFFICES ASSUME NEW k \in 1..(size - n) PROVE Contents'[k] = Contents[n + k]
      OBVIOUS
    <2>1. SlotOf(tail' + k - 1) = SlotOf(tail + (n + k) - 1)
      BY <1>2, <1>5, CapType DEF RingInv, SlotOf, Slots
    <2>2. n + k \in 1..size
      BY <1>2
    <2>3. Contents[n + k] = buf[SlotOf(tail + (n + k) - 1)]
      BY <1>7, <2>2, Zenon
    <2>4. Contents'[k] = buf[SlotOf(tail' + k - 1)]
      BY <1>8, Zenon
    <2> QED
      BY <2>1, <2>3, <2>4, Zenon
  <1>10. Contents' = SubSeq(Contents, n + 1, Len(Contents))
    <2>1. n \in 0..Len(Contents) /\ Len(Contents') = Len(Contents) - n
      BY <1>2, <1>7, <1>8, Zenon
    <2>2. \A k \in 1..Len(Contents') : Contents'[k] = Contents[n + k]
      BY <1>8, <1>9, Zenon
    <2> QED
      BY <1>7, <1>8, <2>1, <2>2, Suffix, Zenon
  <1>11. \A k \in 1..n : Contents[k] <= idx
    <2> SUFFICES ASSUME NEW k \in 1..n PROVE Contents[k] <= idx
      OBVIOUS
    <2>1. k - 1 \in 0..(n - 1) /\ k \in 1..size /\ tail + (k - 1) = tail + k - 1
      BY <1>2, CapType DEF RingInv, Slots
    <2>2. buf[(tail + (k - 1)) % Cap] <= idx /\ (tail + (k - 1)) % Cap = SlotOf(tail + (k - 1))
      BY <1>1, <1>2, <1>4, <2>1
    <2> QED
      BY <1>7, <2>1, <2>2, Zenon
  <1>12. n < size => Contents[n + 1] > idx
    <2> SUFFICES ASSUME n < size PROVE Contents[n + 1] > idx
      OBVIOUS
    <2>1. n + 1 \in 1..size /\ tail + (n + 1) - 1 = tail + n
      BY <1>2, CapType DEF RingInv, Slots
    <2> QED
      BY <1>1, <1>2, <1>4, <1>7, <2>1
  <1> QED
    BY <1>2, <1>6, <1>7, <1>10, <1>11, <1>12, Zenon DEF Queue!Ack

\* reset empties, and leaves the slots as they are.
LEMMA ResetImplements ==
    ASSUME RingInv, Reset
    PROVE  RingInv' /\ Queue!Reset
  <1>1. RingInv'
    BY CapType DEF RingInv, Reset, Slots, SlotOf
  <1>2. Contents' = << >>
    BY DEF Contents, Reset
  <1> QED
    BY <1>1, <1>2, Zenon DEF Queue!Reset

\* Every step of the ring buffer is a step of the bounded queue: add appends, ack
\* drops exactly the acknowledged front, reset empties, whatever the cursors of
\* inflightWindow have wrapped to and whatever reset left in the slots.
THEOREM RingImplementsQueue == WindowSpec => RefinesWindow
  <1>1. RingInv /\ [WindowNext]_windowVars => RingInv' /\ [Queue!Next]_Contents
    <2> SUFFICES ASSUME RingInv, [WindowNext]_windowVars
                 PROVE  RingInv' /\ [Queue!Next]_Contents
      OBVIOUS
    <2>1. ASSUME NEW idx \in Index, Add(idx) PROVE RingInv' /\ [Queue!Next]_Contents
      BY <2>1, AddImplements, Zenon DEF Queue!Next
    <2>2. ASSUME NEW idx \in Index, Ack(idx) PROVE RingInv' /\ [Queue!Next]_Contents
      BY <2>2, AckImplements, Zenon DEF Queue!Next
    <2>3. CASE Reset
      BY <2>3, ResetImplements, Zenon DEF Queue!Next
    <2>4. CASE UNCHANGED windowVars
      BY <2>4, Zenon DEF windowVars, RingInv, Contents
    <2> QED
      BY <2>1, <2>2, <2>3, <2>4, Zenon DEF WindowNext
  <1> QED
    BY RingInit, <1>1, PTL DEF WindowSpec, RefinesWindow, Queue!Spec

=============================================================================
