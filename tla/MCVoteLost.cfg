\* A candidate on a failing stable store.
CONSTANTS
    me = me
    x = x
    y = y
    Self = me
    Others = {x, y}
    Nil = Nil
    SelfVoteFails = TRUE
    MaxTerm = 3
    MaxCampaigns = 1
    MaxVoteErrors = 1
    MaxCrashes = 2
SPECIFICATION VoteSpec
INVARIANTS
    VotesOncePerTerm
CHECK_DEADLOCK FALSE
