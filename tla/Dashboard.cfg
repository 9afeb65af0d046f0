SPECIFICATION Spec
CONSTANTS
    Uploads = {u1, u2}
    ApiStatus = {"uploading", "pending", "failed", "mixed"}
    Files <- MCFiles
    Limits <- MCLimits
    PageSize = 3
    PollSlots = {p1}
SYMMETRY Symmetry
INVARIANTS
    RowsAreTheLiveUploads
    LeavingCancels
    FinishedIsListed
    
PROPERTIES
    UsesRows
CHECK_DEADLOCK FALSE
