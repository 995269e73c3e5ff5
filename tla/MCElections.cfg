\* Pre-votes, forced elections, late votes, a second leadership of one term.
CONSTANTS
    v1 = v1
    v2 = v2
    v3 = v3
    Server = {v1, v2, v3}
    Voters = {v1, v2, v3}
    Value = {}
    Noop = Noop
    Nil = Nil
    PreVote = TRUE
    CheckQuorum = TRUE
    Transfers = TRUE
    Restarts = TRUE
    MaxBatch = 2
    MaxTerm = 1
    MaxCampaigns = 1
    MaxLogLen = 2
    MaxApplied = 0
    MaxCrashes = 0
    MaxDeadlines = 0
    MaxFaults = 1
    MaxInFlight = 1
SPECIFICATION Spec
SYMMETRY Symmetry
INVARIANTS
    ElectionSafety
    MatchIndexTruthful
CHECK_DEADLOCK FALSE
