SPECIFICATION Spec
CONSTANTS
    Workers = {w1, w2}
    None = none
    Gone = gone
    Unknown = unknown
    Sources <- MCSources
    Resolutions = {"144p", "1080p"}
    MaxSegments = 2
    MaxAttempts = 3
    MaxFaults = 2
SYMMETRY Symmetry
INVARIANTS
    PlaylistNeverDangles
    DoneIsOneEncoding
    NoticedStops
CHECK_DEADLOCK FALSE
