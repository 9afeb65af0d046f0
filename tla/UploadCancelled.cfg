SPECIFICATION Spec
CONSTANTS
    PartCount = 2
    MaxConcurrent = 2
    CreateReq = create
    CompleteReq = complete
    RefreshReq = refresh
    AbortReq = abort
    OtherComplete = {}
    OtherAbort = {}
    Parts <- MCParts
    Creates <- MCCreates
    Completes <- MCCompletes
    Refreshes <- MCRefreshes
    Aborts <- MCAborts
    MaxFaults = 0
INVARIANTS
    CancelledIsNotQueued
CHECK_DEADLOCK FALSE
