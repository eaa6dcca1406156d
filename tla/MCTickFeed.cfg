SPECIFICATION Spec
CONSTANTS
    MaxTicks = 4
    BatchSize = 2
    MaxRetries = 1
    BarSize = 2
    Keep = 1
    Every = 2
    MaxFaults = 3
INVARIANTS
    TicksAccounted
    BarsAreBlocks
    RowsKeepWindow
PROPERTY DrainReturns
CHECK_DEADLOCK FALSE
