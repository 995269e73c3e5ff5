\* One part at a time, each with its faults.
SPECIFICATION LogSpec
CONSTANTS
    \* FlowControl: a follower of any term, with any log it can have
    NoRPC = NoRPC
    Term = 3
    FollowerTerms = {0, 2, 3}
    MaxInflight = 2
    MaxBatch = 2
    MaxOld = 3
    MaxLogLen = 5
    MaxRpcErrors = 2
    \* InflightWindow
    WindowSize = 3
    Index = {1, 2, 3}
    \* DurableVote: failing writes, and crashes between any two writes
    me = me
    x = x
    y = y
    Self = me
    Others = {x, y}
    Nil = Nil
    SelfVoteFails = FALSE
    MaxTerm = 3
    MaxCampaigns = 3
    MaxVoteErrors = 2
    MaxCrashes = 2
    \* SnapshotTransfer
    ChunkCount = 2
    MaxLast = 3
    MaxSnaps = 2
    MaxLate = 1
    \* WAL
    Appenders = {1, 2}
    SegmentSize = 2
    MaxWrites = 3
    MaxIndex = 3
    MaxWalTerm = 2
    MaxWalErrors = 1
    MaxWalCrashes = 1
INVARIANTS
    VotesOncePerTerm
    InstalledWhole
    MatchBeyondSnapshotHeld
    
PROPERTIES
    VoterCatchesUp
    RefinesWindow
    
    AppendReturns
CHECK_DEADLOCK FALSE
