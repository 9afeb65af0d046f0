SPECIFICATION Spec
CONSTANTS
    PartCount = 3
    MaxConcurrent = 2
    CreateReq = create
    CompleteReq = complete
    RefreshReq = refresh
    AbortReq = abort
    OtherComplete = {complete2}
    OtherAbort = {}
    Parts <- MCParts
    Creates <- MCCreates
    Completes <- MCCompletes
    Refreshes <- MCRefreshes
    Aborts <- MCAborts
    MaxFaults = 2
INVARIANTS
    TypeOK
    QueuedIsStored
    FailedLeavesNothing
    NothingStranded
    NoPartForgotten
    CancelledInTime
PROPERTIES
    OutcomeIsFinal
    ImplementsRow
    EveryAttemptEnds
    UploadIsQueued
CHECK_DEADLOCK FALSE
