SPECIFICATION FairSpec
CONSTANTS
    MaxScan = 2
    MaxLegacy = 1
    eur = eur
    gbp = gbp
    c1 = c1
    c2 = c2
    Symbol = {eur, gbp}
    Candidate = {c1, c2}
    SymbolOf <- MCSymbolOf
    Horizon = {1, 2}
    Null = Null
    MaxFaults = 1
INVARIANTS
    OneEntryOneExit
    ActionsFollowStates
    HorizonsCountBars
    PositionsLinkedOnce
PROPERTIES
    LegacyNeverTrades
    ImplementsLifecycle
    ScansEnd
