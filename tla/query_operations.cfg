SPECIFICATION Spec
CONSTANTS
    d = d
    x = x
    y = y
    Lms = {d, x, y}
    Default = d
    Additional = {x}
    LmDelays = {0, 3}
    Interval = 2
    MaxWait = 3
    Policy = "SAVE"
    Allowed = {"trigger", "stop", "reconfigure"}
    MaxOps = 3
    MaxTime = 4
INVARIANT TypeOK
INVARIANT QueryArmed
CHECK_DEADLOCK FALSE
