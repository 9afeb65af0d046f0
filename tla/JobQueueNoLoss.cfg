SPECIFICATION FairSpec
CONSTANTS
    j1 = j1
    j2 = j2
    Jobs = {j1, j2}
    Workers = {w1, w2}
    Publishers = {api, poller}
    MaxAttempts <- ThreeAndZero
    Backoffs <- OneTick
    None = None
    Gone = Gone
    MaxFaults = 1
    ClockSkew = 0
    LossyBroker = FALSE
    PromptCommit = TRUE
INVARIANTS
    NoJobIsLost
PROPERTIES
    EveryJobSettles
CHECK_DEADLOCK FALSE
