SPECIFICATION Spec
CONSTANTS
    N = 2
    Payloads = {1}
    NoBlock = NoBlock
    Building <- OneBlockEach
    Impatient = {0, 1}
    Restarting = {0}
    TwoFPlusOne = FALSE
    Prompt = TRUE
    MaxSequence = 2
    MaxRound = 1
    MaxRestarts = 1
PROPERTIES
    ImplementsFinalLedger
CHECK_DEADLOCK FALSE
