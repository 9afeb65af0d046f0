SPECIFICATION FairSpec
CONSTANTS
    j1 = j1
    j2 = j2
    Jobs = {j1, j2}
    Workers = {w1, w2}
    Publishers = {poller}
    MaxAttempts <- TwoAndZero
    Backoffs <- OneTick
    None = None
    Gone = Gone
    MaxFaults = 0
    ClockSkew = 0
    LossyBroker = FALSE
    PromptCommit = FALSE
PROPERTIES
    EveryJobSettles
CHECK_DEADLOCK FALSE
