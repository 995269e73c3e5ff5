\* A leader dies; pre-vote on.
CONSTANTS
    v1 = v1
    v2 = v2
    v3 = v3
    Server = {v1, v2, v3}
    Voters = {v1, v2, v3}
    Value = {}
    Noop = Noop
    Nil = Nil
    PreVote = TRUE
    CheckQuorum = FALSE
    Transfers = FALSE
    Restarts = FALSE
    MaxBatch = 2
    MaxTerm = 7
    MaxCampaigns = 3
    MaxLogLen = 2
    MaxApplied = 0
    MaxCrashes = 1
    MaxDeadlines = 0
    MaxFaults = 1
    MaxInFlight = 0
    Dead = v1
SPECIFICATION FailoverSpec
PROPERTIES
    LeaderEventually
CHECK_DEADLOCK FALSE
