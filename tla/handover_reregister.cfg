SPECIFICATION Spec
CONSTANTS
    NumUes = 1
    Cells = {1, 2}
    InitCells = {1}
    Cap <- SecondCellTwo
    Measurements <- WithWeakTarget
    Hysteresis = 0
    MinAcceptableRsrp = 2
    Warmup = 1
    MinHoInterval = 3
    HoAttemptTimeout = 2
    LowRsrpRecheck = 1
    TimeToTrigger = 1
    TryNextBest = TRUE
    ReportDelay = 0
    CommandDelay = 1
    Faults = {"ue"}
    MaxIds = 2
INVARIANT TypeOK
INVARIANT ReservationHeld
INVARIANT OneCommandPerUe
PROPERTY TttContinuous
