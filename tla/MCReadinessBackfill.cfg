SPECIFICATION Spec
CONSTANTS
    Gap = 1
    MaxTicks = 2
    Need = 0
    Warm = {4}
    MaxFaults = 1
PROPERTY BackfillFailuresRetried
CHECK_DEADLOCK FALSE
