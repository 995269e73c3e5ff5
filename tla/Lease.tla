-------------------------------- MODULE Lease --------------------------------
(***************************************************************************)
(* The leader lease of pkg/raft/raft.go (Config.LeaseReads): ReadIndex     *)
(* answers without a heartbeat round while the lease runs.  Nodes that     *)
(* heard from the leader less than an election timeout ago refuse to vote  *)
(* (pre-votes always, votes with CheckQuorum), and the lease is meant to   *)
(* end before they stop refusing.  Time is counted in units of the clock   *)
(* all nodes share; MaxClockDrift is the code's margin for their skew, and *)
(* is used here for answers that take time.  Leadership transfer, which    *)
(* asks voters not to refuse, is left out.                                 *)
(***************************************************************************)
EXTENDS Integers, FiniteSets

CONSTANTS
    Followers,          \* the voters other than the leader
    ElectionTimeout,
    MaxClockDrift,
    MaxDelay,           \* the longest time an answer takes
    MaxTime             \* bound: time

ASSUME LeaseAssumption ==
    /\ IsFiniteSet(Followers)
    /\ ElectionTimeout \in Nat /\ MaxClockDrift \in Nat
    /\ MaxDelay \in Nat /\ MaxTime \in Nat

VARIABLES
    now,
    contact,    \* per follower: when its election timer was last reset
    handled,    \* per follower: when the leader noted its acknowledgement
    answers,    \* acknowledgements in flight, with the time they were sent
    expiry,     \* r.leaseExpiry
    elected     \* whether another leader was elected

leaseVars == <<now, contact, handled, answers, expiry, elected>>

LeaseInit ==
    /\ now = 1 /\ expiry = 0 /\ elected = FALSE /\ answers = {}
    /\ contact = [f \in Followers |-> 1]
    /\ handled = [f \in Followers |-> 0]

QuorumSize == (Cardinality(Followers) + 1) \div 2 + 1

\* Time passes; an answer does not stay longer than MaxDelay.
Pass ==
    /\ now < MaxTime /\ \A a \in answers : now < a.sent + MaxDelay
    /\ now' = now + 1
    /\ UNCHANGED <<contact, handled, answers, expiry, elected>>

\* handleAppendEntries: the follower resets its election timer and answers.
\* Nothing arrives at the followers of a new leader, which has a higher term.
HeartbeatArrives(f) ==
    /\ ~elected
    /\ contact' = [contact EXCEPT ![f] = now]
    /\ answers' = answers \cup {[from |-> f, sent |-> now]}
    /\ UNCHANGED <<now, handled, expiry, elected>>

\* Mutant of LeaseDuration: the whole election timeout, half of it not withheld.
WholeTimeout == ElectionTimeout

LeaseDuration == ElectionTimeout \div 2 - MaxClockDrift

\* replicateOnce with an acknowledgement: it is noted, and when a quorum was
\* noted within an election timeout the lease runs from now.
AnswerArrives(a) ==
    LET recent == {f \in Followers : handled'[f] + ElectionTimeout > now /\ handled'[f] > 0}
    IN  /\ a \in answers
        /\ answers' = answers \ {a}
        /\ handled' = [handled EXCEPT ![a.from] = now]
        /\ expiry' = IF Cardinality(recent) + 1 >= QuorumSize /\ LeaseDuration > 0
                     THEN now + LeaseDuration ELSE expiry
        /\ UNCHANGED <<now, contact, elected>>

LoseAnswer(a) ==
    /\ a \in answers
    /\ answers' = answers \ {a}
    /\ UNCHANGED <<now, contact, handled, expiry, elected>>

\* handleRequestVote: a quorum whose election timers ran out votes for one of them.
ElectOther(q) ==
    /\ ~elected /\ Cardinality(q) >= QuorumSize
    /\ \A f \in q : now >= contact[f] + ElectionTimeout
    /\ elected' = TRUE
    /\ UNCHANGED <<now, contact, handled, answers, expiry>>

LeaseNext ==
    \/ Pass
    \/ \E f \in Followers : HeartbeatArrives(f)
    \/ \E a \in answers : AnswerArrives(a) \/ LoseAnswer(a)
    \/ \E q \in SUBSET Followers : ElectOther(q)

LeaseSpec == LeaseInit /\ [][LeaseNext]_leaseVars

-----------------------------------------------------------------------------
\* While the lease runs, so that ReadIndex answers at once, no other leader has
\* been elected that could commit a write the read misses.
LeaseExcludesLeader == elected => now >= expiry
=============================================================================
