SPECIFICATION Spec
CONSTANTS
    N = 3
    Payloads = {1, 2}
    NoBlock = NoBlock
    Building <- TwoBlocksFirst
    Impatient = {2}
    Restarting = {}
    TwoFPlusOne = FALSE
    Prompt = TRUE
    MaxSequence = 1
    MaxRound = 1
    MaxRestarts = 0
INVARIANTS
    TypeOK
    Agreement
    CommitsAreCarried
    ProposalsKeepDecisions
    OneVotePerView
CHECK_DEADLOCK FALSE
