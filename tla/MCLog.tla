------------------------------- MODULE MCLog -------------------------------
(***************************************************************************)
(* The ways of a log entry, side by side: to a follower (flow control, its *)
(* in-flight window, snapshot transfers) and to disk (the write-ahead log; *)
(* the term and the vote).  The parts share no variable.  A behaviour      *)
(* picks one part and only that part moves, so the reachable states are    *)
(* the union of the parts' and each part's properties are checked as they  *)
(* would be alone.                                                         *)
(***************************************************************************)
EXTENDS FlowControl, InflightWindow, DurableVote, SnapshotTransfer, WAL

VARIABLE part       \* the part that moves

logVars == <<part, flowVars, windowVars, voteVars, transferVars, walVars>>

\* A part that does not move and has several initial states stays in one.
LogInit ==
    /\ part \in {"flow", "window", "vote", "transfer", "wal"}
    /\ FlowInit /\ WindowInit /\ VoteInit /\ TransferInit /\ WalInit
    /\ part # "flow" => fterm = 0 /\ flog = <<>> /\ log = <<Term>>
    /\ part # "transfer" => lead.last = 0

Flow(Step) ==
    part = "flow" /\ Step /\ UNCHANGED <<part, windowVars, voteVars, transferVars, walVars>>

Windowed(Step) ==
    part = "window" /\ Step /\ UNCHANGED <<part, flowVars, voteVars, transferVars, walVars>>

Vote(Step) ==
    part = "vote" /\ Step /\ UNCHANGED <<part, flowVars, windowVars, transferVars, walVars>>

Transfer(Step) ==
    part = "transfer" /\ Step /\ UNCHANGED <<part, flowVars, windowVars, voteVars, walVars>>

Wal(Step) ==
    part = "wal" /\ Step /\ UNCHANGED <<part, flowVars, windowVars, voteVars, transferVars>>

LogNext ==
    \/ Flow(FlowNext)
    \/ Windowed(WindowNext)
    \/ Vote(VoteNext)
    \/ Transfer(TransferNext)
    \/ Wal(WalNext)

InAppend(t) == GroupSync(t) \/ PickSegment(t) \/ FinishSync(t)

\* FlowFairness, the fairness of TransferSpec and WalFairness.  Only one part
\* moves in a behaviour, so fairness of a disjunction over parts is fairness of
\* the disjunct of that part.
LogFairness ==
    /\ WF_logVars(Flow(Tick) \/ Transfer(LeaderStep) \/ Wal(InAppend(1)))
    /\ WF_logVars(Flow(Yield \/ Send) \/ Wal(InAppend(2)))
    /\ WF_logVars(Flow(RpcArrives))
    /\ WF_logVars(Flow(HandleAppendResponse))

LogSpec == LogInit /\ [][LogNext]_logVars /\ LogFairness
=============================================================================
