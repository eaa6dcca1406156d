SPECIFICATION SessionSpec
CONSTANTS
    eur = eur
    gbp = gbp
    Symbol = {eur, gbp}
    Money = {7, 9, 10}
    Initial = 10
    DailyHard = 3
    DailyInternal = 1
    MaxHard = 4
    MaxInternal = 3
    NeedsSnapshot = TRUE
    DayLength = 2
    Window = 2
    MaxTime = 5
    MaxReports = 3
    MaxFaults = 1
    MaxSignals = 2
    MaxStuck = 2
INVARIANTS
    GateFollowsAccount
    NothingLeftRunning
PROPERTIES
    DayStartMovesBack
    RunEndsTogether
CHECK_DEADLOCK FALSE
