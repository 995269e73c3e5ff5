\* A follower that missed the election: its term is older than the leader's.
CONSTANTS
    NoRPC = NoRPC
    Term = 3
    FollowerTerms = {2}
    MaxInflight = 2
    MaxBatch = 2
    MaxOld = 3
    MaxLogLen = 5
    MaxRpcErrors = 2
SPECIFICATION FlowSpec
PROPERTIES
    CatchesUp
CHECK_DEADLOCK FALSE
