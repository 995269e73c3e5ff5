\* An RPC outlives its deadline; the follower's commit index.
CONSTANTS
    a = a
    v1 = v1
    v2 = v2
    v3 = v3
    Server = {v1, v2, v3}
    Voters = {v1, v2, v3}
    Value = {a}
    Noop = Noop
    Nil = Nil
    PreVote = FALSE
    CheckQuorum = FALSE
    Transfers = FALSE
    Restarts = TRUE
    MaxBatch = 1
    MaxTerm = 1
    MaxCampaigns = 1
    MaxLogLen = 3
    MaxApplied = 3
    MaxCrashes = 0
    MaxDeadlines = 1
    MaxFaults = 1
    MaxInFlight = 0
SPECIFICATION Spec
SYMMETRY Symmetry
PROPERTIES
    CommitIndexAdvances
CHECK_DEADLOCK FALSE
