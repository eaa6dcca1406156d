SPECIFICATION DataSpec
CONSTANTS
    Price = {1, 2}
    MaxTicks = 8
    Base = 2
    Multiples = {1, 2}
    LiveTicks = 4
    MaxBatch = 5
    MaxRestarts = 1
    p1 = p1
    p2 = p2
    s1 = s1
    Proc = {p1, p2}
    Symbol = {s1}
    SymbolOf <- OneSymbol
    MonthSlots = 6
    MaxNow = 8
    MaxFaults = 1
SYMMETRY Downloaders
INVARIANTS
    GapsFilled
    ResearchBarsExact
    LiveBarsMatch
CHECK_DEADLOCK FALSE
