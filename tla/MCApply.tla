------------------------------ MODULE MCApply ------------------------------
(***************************************************************************)
(* What happens to a committed entry, side by side: the apply loop with    *)
(* its futures and snapshots (Replica), the state machine it calls         *)
(* (KVStore), and the watch streams the events go to (Watch).  The parts   *)
(* share no variable; a behaviour picks one and only that one moves.       *)
(***************************************************************************)
EXTENDS Replica, KVStore, Watch

VARIABLE part       \* the part that moves

applyVars == <<part, replicaVars, kvVars, watchVars>>

\* The events of the two transactions the state machine applies.
MCBatches == <<2, 1>>

\* Commands of two clients, of none, with and without a time to live.
Plain(op, k, v, c, n) ==
    [op |-> op, key |-> k, val |-> v, client |-> c, seq |-> n, stamp |-> 0, ttl |-> FALSE]
PutTTL(k, t) == [Plain("put", k, 1, NoClient, 0) EXCEPT !.stamp = t, !.ttl = TRUE]
TickAt(t) == [Plain("tick", 0, 0, NoClient, 0) EXCEPT !.stamp = t]
Txn(cmp, yes, no) ==
    Plain("txn", 0, 0, NoClient, 0) @@ [compare |-> cmp, success |-> yes, failure |-> no]
OpPut(k) == [type |-> "put", key |-> k, val |-> 0]
OpDelete(k) == [type |-> "delete", key |-> k, val |-> 0]

MCCommands ==
    {Plain("put", 1, NotInteger, NoClient, 0), Plain("put", 2, 0, "c1", 1),
     Plain("incr", 1, 1, "c1", 1), Plain("incr", 1, 1, "c1", 2), Plain("incr", 2, 1, "c2", 1),
     Plain("delete", 1, 0, "c1", 2), Plain("delete", 2, 0, NoClient, 0),
     PutTTL(1, 1), PutTTL(2, 2), TickAt(1), TickAt(3), Plain("get", 1, 0, NoClient, 0),
     Txn(<<[key |-> 1, target |-> "absent", val |-> 0]>>, <<OpPut(1), OpPut(2)>>, <<OpDelete(1), OpPut(1)>>),
     Txn(<<[key |-> 2, target |-> "value", val |-> 0]>>, <<OpDelete(2), OpDelete(1)>>, << >>)}

-----------------------------------------------------------------------------
\* A part that does not move and has several initial states stays in one.
ApplyInit ==
    /\ part \in {"replica", "kv", "watch"}
    /\ ReplicaInit /\ KvInit /\ WatchInit
    /\ part # "replica" => role = "leader" /\ waiter.index = 1

Replicas(Step) == part = "replica" /\ Step /\ UNCHANGED <<part, kvVars, watchVars>>

Watches(Step) == part = "watch" /\ Step /\ UNCHANGED <<part, replicaVars, kvVars>>

ApplyNext ==
    \/ Replicas(ReplicaNext)
    \/ part = "kv" /\ KvNext /\ UNCHANGED <<part, replicaVars, watchVars>>
    \/ Watches(WatchNext)

\* ReplicaFairness and WatchFairness.  Only one part moves in a behaviour, so
\* fairness of a disjunction over parts is fairness of the disjunct of that part.
ApplyFairness ==
    /\ WF_applyVars(Replicas(LoopStep) \/ Watches(StreamStep))
    /\ WF_applyVars(Replicas(InstallEnds) \/ Watches(\E n \in WatchNodes : Subscribe(n)))
    /\ WF_applyVars(Replicas(Look) \/ Watches(Emit(1)))
    /\ WF_applyVars(Watches(ServerStep(1)))
    /\ WF_applyVars(Watches(Emit(2)))
    /\ WF_applyVars(Watches(ServerStep(2)))

ApplySpec == ApplyInit /\ [][ApplyNext]_applyVars /\ ApplyFairness
=============================================================================
