\* The apply loop under a changing leadership, two replicas of the state machine,
\* or a watcher and two nodes.
SPECIFICATION ApplySpec
CONSTANTS
    \* Replica
    Proposals = {1}
    FutureCap = 1
    MaxEntries = 2
    MaxTaken = 1
    MaxInstalled = 1
    MaxBroken = 1
    \* KVStore
    Keys = {1, 2}
    KvClients = {"c1", "c2"}
    NoClient = "none"
    Commands <- MCCommands
    MaxInt = 2
    MaxRevision = 2
    MaxDedupEntries = 1
    HistorySize = 2
    MaxCommands = 3
    MaxPending = 2
    \* Watch
    WatchNodes = {1, 2}
    Batches <- MCBatches
    HistoryEvents = 2
    EventChanSize = 2
    WatchChanSize = 2
    MaxDisconnects = 2
    MaxInstalls = 1
INVARIANTS
    AppliedPrefix
    
    NothingLost
    ReplicasAgree
    EventsTellAll
    PagesCoverKeys
    EachEventOnce
PROPERTIES
    ExactlyOnce
    ExpiredStaysExpired
    
    
    EventuallySeen
CHECK_DEADLOCK FALSE
