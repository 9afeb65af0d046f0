SPECIFICATION Spec
CONSTANTS
    Renditions = {r1, r2}
    MaxAttempts = 1
    Reaper = Reaper
    Overlap = FALSE
SYMMETRY Symmetry
INVARIANTS
    MasterWhenTerminal
CHECK_DEADLOCK FALSE
