CHECK_DEADLOCK FALSE
SPECIFICATION RenderSpec
CONSTANTS
    Events = {"created", "poll", "cancel", "expire"}
    Workers = {w1, w2}
    None = None
    BatchSize = 1
    MaxAttempts = 1
    Timely = FALSE
    MaxCrashes = 0
    MaxFaults = 1
SYMMETRY Interchangeable
INVARIANTS ReservationMatchesJob AssetMatchesJob OneIngestion
PROPERTIES JobOutcomeIsFinal CancelWins OutboxSpec
