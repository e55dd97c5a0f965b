CHECK_DEADLOCK FALSE
SPECIFICATION FairRenderSpec
CONSTANTS
    Events = {"created", "poll", "cancel", "expire"}
    Workers = {w1}
    None = None
    BatchSize = 2
    MaxAttempts = 2
    Timely = TRUE
    MaxCrashes = 1
    MaxFaults = 0
PROPERTIES EveryJobEnds
