SPECIFICATION Spec
CONSTANTS
    Gap = 1
    MaxTicks = 3
    Need = 0
    Warm = {4, 5}
    MaxFaults = 1
INVARIANTS
    EntriesFollowReadiness
    HandoverExact
CHECK_DEADLOCK FALSE
PROPERTY PausesAndStartsEnd
