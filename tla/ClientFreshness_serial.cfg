SPECIFICATION Spec
CONSTANTS
    FedWrites = {w1, w2}
    UnfedWrites = {i1}
    Automatic = FALSE
    MaxOpen = 2
    MaxFailures = 1
    MaxEdits = 0
    MaxRestarts = 0
    MaxRestores = 1
    None = None
SYMMETRY Symmetry
INVARIANTS CursorCovers
PROPERTIES RefreshIsFresh
CHECK_DEADLOCK FALSE
