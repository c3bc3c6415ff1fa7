SPECIFICATION Spec
CONSTANTS
    NumUes = 2
    Cells = {1, 2}
    InitCells = {1, 2}
    Cap <- SecondCellFull
    Measurements <- TwoLevels
    Hysteresis = 0
    MinAcceptableRsrp = 0
    Warmup = 1
    MinHoInterval = 1
    HoAttemptTimeout = 3
    LowRsrpRecheck = 1
    TimeToTrigger = 0
    TryNextBest = TRUE
    ReportDelay = 0
    CommandDelay = 1
    Faults = {"gnb"}
    MaxIds = 2
INVARIANT CapacityRespected
INVARIANT OneCommandPerUe
