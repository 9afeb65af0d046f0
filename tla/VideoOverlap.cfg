SPECIFICATION ProgressSpec
CONSTANTS
    Renditions = {r1, r2, r3}
    MaxAttempts = 2
    Reaper = Reaper
    Overlap = TRUE
SYMMETRY Symmetry
INVARIANTS
    TypeOK
    PlaybackIsComplete
    DoneIsPlayable
    DoneIsCounted
PROPERTIES
    DoneIsFinal
    ImplementsLedger
CHECK_DEADLOCK FALSE
