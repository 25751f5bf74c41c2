SPECIFICATION Spec
CONSTANTS
    Tools = {t1}
    Machines = {m1}
    Eoats = {e1}
    Requests = {r1, r2}
    Verdicts = {"COMPATIBLE", "INCOMPATIBLE", "NEEDS_REVIEW"}
    MaxDay = 1
    MaxChanges = 2
SYMMETRY Symmetry
INVARIANTS OfferedFits InstalledWhileFitting DesktopFollows
CHECK_DEADLOCK FALSE
