SPECIFICATION Spec
CONSTANTS
    d = d
    x = x
    Lms = {d, x}
    Default = d
    Additional = {x}
    LmDelays = {0, 1, 3}
    Interval = 2
    MaxWait = 3
    Policy = "DROP"
    Allowed = {"trigger", "stop"}
    MaxOps = 4
    MaxTime = 6
INVARIANT NoAbort
INVARIANT CycleAgreement
PROPERTY SentInTime
CHECK_DEADLOCK FALSE
