\* One part at a time; no part has a liveness property.
SPECIFICATION ClusterSpec
CONSTANTS
    \* Membership
    Nodes = {1, 2, 3, 4}
    Requests <- MCRequests
    TrailingLogs = 1
    MaxMTerm = 2
    MaxRequests = 1
    MaxFaults = 1
    \* Reads
    Voters = {"n1", "n2", "n3"}
    MaxReadTerm = 3
    MaxReadWrites = 1
    MaxHeartbeats = 2
    \* Lease
    Followers = {"f1", "f2"}
    ElectionTimeout = 4
    MaxClockDrift = 1
    MaxDelay = 3
    MaxTime = 8
    \* WritePath
    Addrs <- MCAddrs
    Plans <- MCPlans
    RetryMax = 1
    MaxUpsets = 1
    MaxAlive = 2
CONSTRAINTS MCMemberBound MCReadBound
INVARIANTS
    
    ConfirmedReadIsFresh
    
    
    
CHECK_DEADLOCK FALSE
