SPECIFICATION FairHistorySpec
CONSTANTS
    Events = {e1, e2}
    Workers = {w1, w2}
    None = None
    BatchSize = 2
    MaxAttempts = 1
    Timely = FALSE
    MaxCrashes = 1

INVARIANTS SettledForAReason
PROPERTIES LeaseRespected SettledIsFinal EveryEventIsServed
