\* One voter and a learner.
CONSTANTS
    l = l
    v1 = v1
    Server = {v1, l}
    Voters = {v1}
    Value = {}
    Noop = Noop
    Nil = Nil
    PreVote = FALSE
    CheckQuorum = FALSE
    Transfers = FALSE
    Restarts = TRUE
    MaxBatch = 2
    MaxTerm = 3
    MaxCampaigns = 2
    MaxLogLen = 3
    MaxApplied = 3
    MaxCrashes = 1
    MaxDeadlines = 0
    MaxFaults = 1
    MaxInFlight = 0
SPECIFICATION Spec
INVARIANTS
    ElectionSafety
CHECK_DEADLOCK FALSE
