SPECIFICATION LateSpec
CONSTANTS
    N = 3
    Payloads = {1}
    NoBlock = NoBlock
    Building <- OwnBlock
    Impatient = {2}
    Restarting = {}
    TwoFPlusOne = FALSE
    Prompt = FALSE
    MaxSequence = 2
    MaxRound = 1
    MaxRestarts = 0
INVARIANTS
    Agreement
CHECK_DEADLOCK FALSE
