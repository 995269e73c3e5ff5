----------------------------- MODULE FlowControl -----------------------------
(***************************************************************************)
(* How one leader brings one follower up to date (raft.go, sendHeartbeat,  *)
(* spawnReplication, replicateTo, replicateOnce, and handleAppendEntries   *)
(* on the other side): the replication goroutine, its flow-control window  *)
(* and probe or replicate mode, and the back-off of nextIndex.             *)
(*                                                                         *)
(* One leadership, of term Term, that lasts.  With PreVote that is what a  *)
(* follower that hears nothing gets: its pre-votes are refused by those    *)
(* that hear the leader.  A log is the sequence of its entries' terms.     *)
(* The leader holds everything committed, so the refusal to overwrite a    *)
(* committed entry does not arise.                                         *)
(***************************************************************************)
EXTENDS Naturals, Sequences

CONSTANTS
    Term,            \* the leader's term
    FollowerTerms,   \* the terms the follower may be in when it is elected
    NoRPC,             \* no RPC is out
    MaxInflight,     \* Config.MaxInflight
    MaxBatch,        \* entries per AppendEntries request
    MaxOld,          \* bound: length of the logs before the election
    MaxLogLen,       \* bound: length of the leader's log
    MaxRpcErrors        \* bound: RPCs that fail

ASSUME FlowAssumption ==
    /\ Term \in Nat \ {0}
    /\ FollowerTerms \subseteq 0..Term
    /\ MaxInflight \in Nat \ {0} /\ MaxBatch \in Nat \ {0}
    /\ MaxOld \in Nat /\ MaxLogLen \in Nat /\ MaxRpcErrors \in Nat

VARIABLES
    log,             \* the leader's
    nextIndex, matchIndex,
    window,          \* inflightWindows: last index of each batch in flight
    mode,            \* followerStates: "probe" or "replicate"
    replicating,     \* inflightReplication: the goroutine exists
    rpc,             \* its AppendEntries request or response
    late,            \* requests on their way that nobody waits for
    flog, fterm,     \* the follower's
    rpcErrors

flowVars == <<log, nextIndex, matchIndex, window, mode, replicating, rpc, late,
          flog, fterm, rpcErrors>>

W == INSTANCE Window WITH inflight <- window, Cap <- MaxInflight, Index <- Nat

\* Logs of terms before t.  Terms never fall along a log.
OldLogs(t) ==
    {lg \in UNION {[1..n -> 1..(t - 1)] : n \in 0..MaxOld} :
        \A i \in 1..(Len(lg) - 1) : lg[i] <= lg[i + 1]}

\* An entry is in two logs only with everything before it.
Matching(a, b) ==
    \A i \in 1..Len(a) :
        i <= Len(b) /\ a[i] = b[i] => SubSeq(a, 1, i) = SubSeq(b, 1, i)

\* becomeLeader has just run: the no-op is appended, nothing is sent yet.
FlowInit ==
    /\ fterm \in FollowerTerms
    /\ flog \in {lg \in OldLogs(Term) : \A i \in 1..Len(lg) : lg[i] <= fterm}
    /\ \E old \in OldLogs(Term) :
        /\ Matching(old, flog)
        /\ log = Append(old, Term)
        /\ nextIndex = Len(old) + 1
    /\ matchIndex = 0
    /\ window = << >>
    /\ mode = "probe"
    /\ replicating = TRUE
    /\ rpc = NoRPC
    /\ late = {}
    /\ rpcErrors = 0

\* sendHeartbeat, spawnReplication: on a tick, if no goroutine is there.
Tick ==
    /\ ~replicating
    /\ replicating' = TRUE
    /\ UNCHANGED <<log, nextIndex, matchIndex, window, mode, rpc, late, flog,
                   fterm, rpcErrors>>

\* handleProposal appends to the log and triggers replication.
LeaderAppends ==
    /\ Len(log) < MaxLogLen
    /\ log' = Append(log, Term)
    /\ replicating' = TRUE
    /\ UNCHANGED <<nextIndex, matchIndex, window, mode, rpc, late, flog, fterm,
                   rpcErrors>>

\* replicateOnce: one batch in probe mode, MaxInflight in replicate mode.
WindowFull == Len(window) = MaxInflight \/ (mode = "probe" /\ Len(window) >= 1)

\* replicateOnce, window full: the goroutine ends until the next tick.
Yield ==
    /\ replicating /\ rpc = NoRPC
    /\ WindowFull
    /\ replicating' = FALSE
    /\ UNCHANGED <<log, nextIndex, matchIndex, window, mode, rpc, late, flog,
                   fterm, rpcErrors>>

\* replicateOnce, up to the send.
Send ==
    LET prev == nextIndex - 1
    IN  /\ replicating /\ rpc = NoRPC
        /\ ~WindowFull
        /\ \E last \in prev..Len(log) :
            /\ last - prev <= MaxBatch
            /\ last = prev => prev = Len(log)
            /\ rpc' = [type |-> "request", prevIndex |-> prev,
                       prevTerm |-> IF prev = 0 THEN 0 ELSE log[prev],
                       entries |-> SubSeq(log, nextIndex, last)]
            /\ IF last > prev THEN W!Add(last) ELSE UNCHANGED window
        /\ UNCHANGED <<log, nextIndex, matchIndex, mode, replicating, late, flog,
                       fterm, rpcErrors>>

\* The last index the request carried, 0 for a heartbeat.
LastSent(m) == IF m.entries = << >> THEN 0 ELSE m.prevIndex + Len(m.entries)

PrevMatches(m) ==
    m.prevIndex > 0 => m.prevIndex <= Len(flog) /\ flog[m.prevIndex] = m.prevTerm

\* The log the request leaves behind.
Merged(m) ==
    LET present(i) == m.prevIndex + i <= Len(flog) /\ flog[m.prevIndex + i] = m.entries[i]
    IN  IF \A i \in 1..Len(m.entries) : present(i)
        THEN flog
        ELSE SubSeq(flog, 1, m.prevIndex) \o m.entries

\* The first index the follower holds of the term it has at i.
FirstOfTerm(i) ==
    CHOOSE first \in 1..i :
        /\ \A j \in first..i : flog[j] = flog[i]
        /\ first > 1 => flog[first - 1] # flog[i]

\* handleAppendEntries.  Only a success carries the term it just adopted.
Reply(m) ==
    LET reject(index, conflict) ==
            [type |-> "response", lastSent |-> LastSent(m), success |-> FALSE,
             term |-> fterm, index |-> index, conflictTerm |-> conflict]
    IN  IF PrevMatches(m)
        THEN [type |-> "response", lastSent |-> LastSent(m), success |-> TRUE,
              term |-> Term, index |-> Len(Merged(m)), conflictTerm |-> 0]
        ELSE IF m.prevIndex > Len(flog)
        THEN reject(Len(flog) + 1, 0)
        ELSE reject(FirstOfTerm(m.prevIndex), flog[m.prevIndex])

HandleAppendEntries(m) ==
    /\ \/ m = rpc /\ rpc' = Reply(m) /\ UNCHANGED late
       \/ m \in late /\ late' = late \ {m} /\ UNCHANGED rpc
    /\ fterm' = Term
    /\ flog' = IF PrevMatches(m) THEN Merged(m) ELSE flog
    /\ UNCHANGED <<log, nextIndex, matchIndex, window, mode, replicating, rpcErrors>>

\* replicateOnce, transport error of a request with entries.
ErrorReset == W!Reset

\* replicateOnce, transport error: the goroutine ends, the next tick retries.
\* The request is lost or still on its way, or it is the answer that is lost.
TransportError ==
    /\ rpc # NoRPC
    /\ rpcErrors < MaxRpcErrors
    /\ rpcErrors' = rpcErrors + 1
    /\ \/ UNCHANGED late
       \/ rpc.type = "request" /\ late' = late \cup {rpc}
    /\ IF (IF rpc.type = "request" THEN LastSent(rpc) ELSE rpc.lastSent) > 0
       THEN ErrorReset /\ mode' = "probe"
       ELSE UNCHANGED <<window, mode>>
    /\ rpc' = NoRPC
    /\ replicating' = FALSE
    /\ UNCHANGED <<log, nextIndex, matchIndex, flog, fterm>>

\* replicateOnce, reply of another term: the goroutine ends.
AppendDiscarded ==
    /\ rpc.term # Term
    /\ replicating' = FALSE
    /\ UNCHANGED <<nextIndex, matchIndex, window, mode>>

NextAfter(match) == match + 1

\* replicateOnce, acknowledgement.  It goes on while the follower is behind.
AppendAcked ==
    LET sent  == rpc.lastSent
        match == IF sent > matchIndex THEN sent ELSE matchIndex
    IN  /\ rpc.term = Term /\ rpc.success
        /\ matchIndex' = match
        /\ IF sent > 0
           THEN nextIndex' = NextAfter(match) /\ W!Ack(match) /\ mode' = "replicate"
           ELSE UNCHANGED <<nextIndex, window, mode>>
        /\ replicating' = (nextIndex' <= Len(log))

\* lastIndexOfTerm: the last index of an entry of term t, 0 if there is none.
LastIndexOfTerm(t) ==
    CHOOSE last \in 0..Len(log) :
        /\ last > 0 => log[last] = t
        /\ \A i \in (last + 1)..Len(log) : log[i] # t

\* Mutant of BackOff: the hint is followed even if it is no progress.
BackOffToHint(hint, less) == hint

\* replicateOnce, rejection: to the hint, at least by one.
BackOff(hint, less) == IF hint < nextIndex THEN hint ELSE less

\* replicateOnce, rejection: the window is emptied, the mode is probe again
\* and the goroutine goes on.
AppendRejected ==
    LET last == LastIndexOfTerm(rpc.conflictTerm)
        less == IF nextIndex > 1 THEN nextIndex - 1 ELSE nextIndex
        hint == IF rpc.conflictTerm > 0 /\ last > 0 THEN last + 1
                ELSE IF rpc.index > 0 THEN rpc.index
                ELSE less
    IN  /\ rpc.term = Term /\ ~rpc.success
        /\ W!Reset
        /\ mode' = "probe"
        /\ nextIndex' = BackOff(hint, less)
        /\ UNCHANGED <<matchIndex, replicating>>

HandleAppendResponse ==
    /\ rpc # NoRPC /\ rpc.type = "response"
    /\ AppendDiscarded \/ AppendAcked \/ AppendRejected
    /\ rpc' = NoRPC
    /\ UNCHANGED <<log, late, flog, fterm, rpcErrors>>

RpcArrives ==
    /\ rpc # NoRPC /\ rpc.type = "request"
    /\ HandleAppendEntries(rpc)

FlowNext ==
    \/ Tick
    \/ LeaderAppends
    \/ Yield
    \/ Send
    \/ RpcArrives
    \/ \E m \in late : HandleAppendEntries(m)
    \/ TransportError
    \/ HandleAppendResponse

\* The ticker never stops, the goroutine is scheduled, and an RPC that does not
\* fail is answered.
FlowFairness ==
    /\ WF_flowVars(Tick)
    /\ WF_flowVars(Yield \/ Send)
    /\ WF_flowVars(RpcArrives)
    /\ WF_flowVars(HandleAppendResponse)

FlowSpec == FlowInit /\ [][FlowNext]_flowVars /\ FlowFairness

-----------------------------------------------------------------------------
\* raft.go:1094-1095, a full window only makes the goroutine "yield until an
\* ack arrives": whatever logs the two start from and whatever RPCs fail, the
\* follower ends up with the leader's log and the leader knows it.
CatchesUp == <>[](flog = log /\ matchIndex = Len(log))

\* CatchesUp for a follower that is in the leader's term when it is elected.
VoterCatchesUp == fterm = Term => CatchesUp
=============================================================================
