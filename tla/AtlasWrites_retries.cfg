SPECIFICATION FairSpec
CONSTANTS
    Eoats = {e1}
    Machines = {m1}
    Locations = {s1}
    Requests = {r1, r2, r3}
    SharedKeys = {k1}
    Kinds = {"move_to_machine", "close_installation", "move_to_storage", "mark_location_unknown"}
    None = None
INVARIANTS TypeOK ExecutedOncePerKey ReplayedWasExecuted
PROPERTIES EveryRequestAnswered
CHECK_DEADLOCK FALSE
