SPECIFICATION Spec
CONSTANTS
    Publishers = {b1, b2}
    Launchers = {l1, l2}
    MaxVersion = 2
    Floors = {1, 2}
    MaxBuilds = 3
    None = None
SYMMETRY Symmetry
INVARIANTS
    LatestInstallable
    OfflineStartPossible
    OneBuildPerVersion
PROPERTIES
    AppNeverDowngraded
CHECK_DEADLOCK FALSE
