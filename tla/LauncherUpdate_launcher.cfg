SPECIFICATION Spec
CONSTANTS
    Processes = {p1, p2}
    Manifests <- MCManifests
    LegacyVersion = 1
    MaxTxn = 2
    None = None
    Partial = Partial
    Legacy = Legacy
INVARIANTS
    ConfirmedStaysLaunchable
    FallbackConfirmed
    PointersSound
PROPERTIES
    ActiveNeverOlder
SYMMETRY Symmetry
CHECK_DEADLOCK FALSE
