SPECIFICATION FairSpec
CONSTANTS
    Procs = {server, cli}
    Server = server
    Runs = {r1, r2}
    Keys = {k1}
    Routes = {"map_image", "special_points_search"}
    NoRun = NoRun
    MaxFaults = 1
INVARIANTS LocksMatchHolders CompletedHasArtifacts AnswersAreStable
PROPERTIES LiveRowsAreOwn CancelledForAReason OutcomeIsFinal EveryRunEnds
CHECK_DEADLOCK FALSE
