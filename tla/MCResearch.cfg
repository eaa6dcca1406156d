SPECIFICATION StudySpec
CONSTANTS
    VolWindow = 2
    CostWindow = 4
    StructWindow = 2
    MinVol = 1
    MinCost = 2
    MinSlip = 1
    MinStruct = 1
    Keep = 6
    Every = 2
    MaxBars = 9
    NBars = 9
    HourLen = 3
    HoldHours = 2
    MonthLen = 21
    Weekend = 2
    NFolds = 2
    Embargo = 1
    Symbols = 2
    XsWindow = 2
    MinCount = 2
    Horizons = {1, 2}
    MaxTimes = 7
    MaxFlats = 1
INVARIANTS
    FeaturesExact
    
    XsFollowsThePast
CHECK_DEADLOCK FALSE
