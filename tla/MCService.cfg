\* One part at a time; a leader that died, with CheckQuorum and without pre-vote.
SPECIFICATION ServiceSpec
CONSTANTS
    \* Failover
    v1 = v1
    v2 = v2
    v3 = v3
    Server = {v1, v2, v3}
    Voters = {v1, v2, v3}
    Value = {}
    Noop = Noop
    Nil = Nil
    PreVote = FALSE
    CheckQuorum = TRUE
    Transfers = FALSE
    Restarts = FALSE
    MaxBatch = 2
    MaxTerm = 7
    MaxCampaigns = 3
    MaxLogLen = 2
    MaxApplied = 0
    MaxCrashes = 1
    MaxDeadlines = 0
    MaxFaults = 1
    MaxInFlight = 0
    Dead = v1
    \* Transport
    Callers = {"t1", "t2"}
    RpcPlans <- MCRpcPlans
    MaxPeerConns = 1
    MaxPeers = 2
    MaxConns = 2
    \* EtcdKV
    EtcdKeys <- MCEtcdKeys
    EtcdRequests <- MCEtcdRequests
    MaxEtcdLog = 4
    \* Shards
    ShardConfigs <- MCShardConfigs
    ShardKeys <- MCShardKeys
    ScanPrefixes <- MCPrefixes
    \* SnapshotStore
    RetainCount = 2
    MaxSnapIndex = 4
    MaxCreates = 4
    MaxFailures = 1
    MaxSnapCrashes = 1
CONSTRAINT MCOneCall
INVARIANTS
    AnswersOwnRequest
    NoConnectionLeaks
    
    WriteAnswersTrue
    ShardsCoverKeys
    
    
PROPERTIES
    SurvivorsElect
CHECK_DEADLOCK FALSE
