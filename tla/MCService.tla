----------------------------- MODULE MCService -----------------------------
(***************************************************************************)
(* The parts around the consensus core, side by side: the election after a *)
(* leader's death (Failover), the TCP transport, the etcd front end, the   *)
(* shards of a multi-group node, and the snapshot store.  The parts share  *)
(* no variable; a behaviour picks one and only that one moves.             *)
(***************************************************************************)
EXTENDS Failover, Transport, EtcdKV, Shards, SnapshotStore

VARIABLE part       \* the part that moves

serviceVars == <<part, vars, transportVars, etcdVars, shardVars, snapVars>>

-----------------------------------------------------------------------------
MCRpcPlans == {<<"AppendEntries", "AppendEntries", "RequestVote">>,
               <<"InstallSnapshot", "TimeoutNow">>}

\* Every pair of ranges, and every way to cut the keys in three.
MCBounds == {<<>>, <<1>>, <<1, 1>>, <<2>>}
MCRanges == [start : MCBounds, end : MCBounds]
MCShardConfigs ==
    {<<a, b>> : a, b \in MCRanges}
    \union {<<[start |-> y, end |-> <<>>], [start |-> <<>>, end |-> x], [start |-> x, end |-> y]>> :
                x, y \in MCBounds}
MCShardKeys == {<<1>>, <<1, 2>>}
MCPrefixes == {<<>>, <<1>>, <<1, 2>>}

\* The keys "a", "ab" and "b", and range_end as the clients of etcd encode it.
A == <<1>>
AB == <<1, 2>>
B == <<2>>
MCEtcdKeys == {A, AB, B}
EndOf(intent, key, end) ==
    CASE intent = "one" -> <<>> [] intent = "prefix" -> Append(key, 0)
      [] intent = "from" -> <<0>> [] intent = "interval" -> end
Rpc(op, intent, key, end) == [op |-> op, intent |-> intent, key |-> key,
                              end |-> EndOf(intent, key, end)]
Read(intent, key, serializable, limit, order, minMod) ==
    Rpc("range", intent, key, B) @@ [serializable |-> serializable, limit |-> limit,
                                     order |-> order, minMod |-> minMod]
Op(type, key) == [type |-> type, key |-> key]

MCEtcdRequests ==
    {Read("one", AB, FALSE, 0, "key", 0), Read("prefix", A, TRUE, 1, "mod", 0),
     Read("from", AB, TRUE, 0, "last", 0), Read("interval", A, TRUE, 0, "key", 2),
     Read("prefix", A, FALSE, 1, "key", 0), Read("from", A, FALSE, 2, "last", 2)}
    \union {Rpc("delete", intent, A, B) : intent \in {"one", "prefix", "from", "interval"}}
    \union {Rpc("put", "one", k, B) : k \in {A, AB}}
    \union {[op |-> "txn", cmp |-> [key |-> A, mod |-> 0],
             success |-> <<Op("put", A), Op("delete", B)>>, failure |-> <<Op("delete", A)>>]}

\* A call is followed no further: the next one begins from a store that other clients'
\* writes reach as well.
MCOneCall == response.op = "none"

-----------------------------------------------------------------------------
Failing(Step) ==
    part = "failover" /\ Step /\ UNCHANGED <<part, transportVars, etcdVars, shardVars, snapVars>>

\* A part that does not move and has several initial states stays in one.
ServiceInit ==
    /\ part \in {"failover", "transport", "etcd", "shards", "snapshots"}
    /\ FailoverInit /\ TransportInit /\ EtcdInit /\ ShardInit /\ SnapInit
    /\ part # "failover" => \A s \in Server : leaderID[s] = Nil
    /\ part # "transport" => binaryTransport /\ Len(todo) = 3
    /\ part # "shards" => cfgs = <<[start |-> <<>>, end |-> A], [start |-> A, end |-> <<>>]>>

ServiceNext ==
    \/ Failing(FailoverNext)
    \/ /\ part = "transport" /\ TransportNext
       /\ UNCHANGED <<part, vars, etcdVars, shardVars, snapVars>>
    \/ /\ part = "etcd" /\ EtcdNext
       /\ UNCHANGED <<part, vars, transportVars, shardVars, snapVars>>
    \/ /\ part = "shards" /\ ShardNext
       /\ UNCHANGED <<part, vars, transportVars, etcdVars, snapVars>>
    \/ /\ part = "snapshots" /\ SnapNext
       /\ UNCHANGED <<part, vars, transportVars, etcdVars, shardVars>>

\* The fairness of FailoverSpec.
ServiceSpec ==
    /\ ServiceInit
    /\ [][ServiceNext]_serviceVars
    /\ \A s \in Server : SF_serviceVars(Failing(TimerFires(s)))
    /\ WF_serviceVars(Failing(\E m \in msgs : RPCEnds(m)))

\* The survivors of a leader that died elect another (LeaderEventually of Failover).
SurvivorsElect == part = "failover" => LeaderEventually
=============================================================================
