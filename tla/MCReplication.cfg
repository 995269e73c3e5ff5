\* Three leaders, a client command, divergent logs.
CONSTANTS
    a = a
    v1 = v1
    v2 = v2
    v3 = v3
    Server = {v1, v2, v3}
    Voters = {v1, v2, v3}
    Value = {a}
    Noop = Noop
    Nil = Nil
    PreVote = FALSE
    CheckQuorum = FALSE
    Transfers = FALSE
    Restarts = TRUE
    MaxBatch = 2
    MaxTerm = 4
    MaxCampaigns = 2
    MaxLogLen = 3
    MaxApplied = 0
    MaxCrashes = 0
    MaxDeadlines = 0
    MaxFaults = 1
    MaxInFlight = 0
SPECIFICATION Spec
SYMMETRY Symmetry
INVARIANTS
    TypeOK
    LogMatching
    LeaderCompleteness
CHECK_DEADLOCK FALSE
