SPECIFICATION Spec
CONSTANTS
    Renditions = {r1, r2}
    MaxAttempts = 2
    Reaper = Reaper
    Overlap = TRUE
SYMMETRY Symmetry
INVARIANTS
    MasterWhenTerminal
CHECK_DEADLOCK FALSE
