SPECIFICATION Spec
CONSTANTS
    Browsers = {"native", "unsupported", "hls"}
    FeedPageSize = 1
    MaxDone = 2
    FeedLoads = {f1, f2}
    PromptTimers = TRUE
    StateLoads = {first, other}
    Initial = first
    MaxDetailFailures = 1
    Manifest <- MCManifest
    Items <- MCItems
    Nothing = nothing
    MaxMounts = 2
INVARIANTS
    FeedShowsItsPage
    QualityIsPlayed
    HighlightIsNew
PROPERTIES
    QualityIsKept
    PlayerAppears
    HighlightCatchesUp
CHECK_DEADLOCK FALSE
