SPECIFICATION Spec
CONSTANTS
    Entry = {e1, e2}
    Null = Null
    MaxBars = 1
    MaxFaults = 1
INVARIANTS
    OpenTradesKeepTheirScans
