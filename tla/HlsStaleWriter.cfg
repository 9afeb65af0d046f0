SPECIFICATION Spec
CONSTANTS
    Workers = {w1, w2}
    None = none
    Gone = gone
    Unknown = unknown
    Sources <- MCSources
    Resolutions = {"144p"}
    MaxSegments = 1
    MaxAttempts = 2
    MaxFaults = 0
PROPERTIES
    StaleWorkersDoNotOverwrite
CHECK_DEADLOCK FALSE
