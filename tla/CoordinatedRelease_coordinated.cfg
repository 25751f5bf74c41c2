SPECIFICATION Spec
CONSTANTS
    Helpers = {h1, h2}
    Releases = {r0, r1, r2}
    First = r0
    MaxTxns = 3
    None = None
SYMMETRY Symmetry
CHECK_DEADLOCK FALSE
INVARIANTS
    SettledIsConsistent
PROPERTIES
    RolledBackIsRestored
