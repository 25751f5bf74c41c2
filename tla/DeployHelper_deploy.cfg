SPECIFICATION Spec
CONSTANTS
    Deployments = {d1, d2}
    HostChanges = {h1}
    Helpers = {p1, p2}
    Releases = {r0, r1}
    Base = r0
    MaxOverlaps = 1
    Unwritten = Unwritten
    None = None
    d1 = d1
    d2 = d2
    h1 = h1
    p1 = p1
    p2 = p2
    r0 = r0
    r1 = r1
SYMMETRY Symmetry
CHECK_DEADLOCK FALSE
INVARIANTS OpenHoldsLock FreeLockSound
PROPERTIES CompletedRuns PreviousWasCurrent HostChangesAlone
