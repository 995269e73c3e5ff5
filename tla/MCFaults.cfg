\* An RPC outlives its deadline, or a server dies and restarts.
CONSTANTS
    v1 = v1
    v2 = v2
    v3 = v3
    Server = {v1, v2, v3}
    Voters = {v1, v2, v3}
    Value = {}
    Noop = Noop
    Nil = Nil
    PreVote = FALSE
    CheckQuorum = FALSE
    Transfers = FALSE
    Restarts = TRUE
    MaxBatch = 2
    MaxTerm = 2
    MaxCampaigns = 2
    MaxLogLen = 2
    MaxApplied = 2
    MaxCrashes = 1
    MaxDeadlines = 1
    MaxFaults = 1
    MaxInFlight = 0
SPECIFICATION Spec
SYMMETRY Symmetry
INVARIANTS
    StateMachineSafety
PROPERTIES
    CommittedNeverRewritten
CHECK_DEADLOCK FALSE
