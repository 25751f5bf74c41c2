SPECIFICATION Spec
CONSTANTS
    Eoats = {e1, e2}
    Machines = {m1, m2}
    Locations = {s1}
    Requests = {r1, r2, r3}
    SharedKeys = {}
    Kinds = {"move_to_machine", "move_to_storage", "mark_location_unknown", "close_installation", "update_asset", "archive", "restore"}
    None = None
SYMMETRY Symmetry
INVARIANTS OnePlace MachineHoldsOne ArchivedNotInstalled NoLostUpdate
PROPERTIES HistoryKept InstallsOnActiveMachine PlacementSpec
CHECK_DEADLOCK FALSE
