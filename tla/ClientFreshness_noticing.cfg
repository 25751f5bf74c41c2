SPECIFICATION FairSpec
CONSTANTS
    FedWrites = {}
    UnfedWrites = {i1}
    Automatic = TRUE
    MaxOpen = 2
    MaxFailures = 1
    MaxEdits = 1
    MaxRestarts = 1
    MaxRestores = 1
    None = None
INVARIANTS PollerAwake UnstaleMeansCurrent
PROPERTIES RevisionNoticed DeepRefreshIsFresh
CHECK_DEADLOCK FALSE
