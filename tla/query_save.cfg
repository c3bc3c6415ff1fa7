SPECIFICATION Spec
CONSTANTS
    d = d
    x = x
    Lms = {d, x}
    Default = d
    Additional = {x}
    LmDelays = {0, 2}
    Interval = 3
    MaxWait = 1
    Policy = "SAVE"
    Allowed = {}
    MaxOps = 1
    MaxTime = 7
PROPERTY NotLost
CHECK_DEADLOCK FALSE
