SPECIFICATION Spec
CONSTANTS
    j1 = j1
    j2 = j2
    Jobs = {j1, j2}
    Workers = {w1, w2}
    Publishers = {poller}
    MaxAttempts <- TwoAndOne
    Backoffs <- OneTick
    None = None
    Gone = Gone
    MaxFaults = 2
    ClockSkew = 1
    LossyBroker = TRUE
    PromptCommit = FALSE
SYMMETRY Symmetry
INVARIANTS
    TypeOK
    AttemptIsFenced
    LostIsLost
    DeadLettersAreFailed
    LocksProtect
PROPERTIES
    TerminalIsStable
    TerminalFailuresAreDeadLettered
    ImplementsLease
CHECK_DEADLOCK FALSE
