SPECIFICATION FairSpec
CONSTANTS
    Entry = {e1, e2}
    Null = Null
    MaxBars = 2
    MaxFaults = 1
INVARIANTS
    OneOrderPerScan
    CapitalMatchesTrades
    PositionsCovered
PROPERTIES
    FreedOnlyWhenOver
    OrphansFreed
    AllComesToAnEnd
