SPECIFICATION Spec
CONSTANTS
    N = 3
    Payloads = {1}
    NoBlock = NoBlock
    Building <- OneBlockEach
    Impatient = {0, 1, 2}
    Restarting = {}
    TwoFPlusOne = FALSE
    Prompt = TRUE
    MaxSequence = 1
    MaxRound = 1
    MaxRestarts = 0
INVARIANTS
    NeverPanics
CHECK_DEADLOCK FALSE
