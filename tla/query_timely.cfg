SPECIFICATION Spec
CONSTANTS
    d = d
    x = x
    y = y
    Lms = {d, x, y}
    Default = d
    Additional = {x, y}
    LmDelays = {0, 1, 2, 4}
    Interval = 3
    MaxWait = 2
    Policy = "DROP"
    Allowed = {}
    MaxOps = 1
    MaxTime = 9
PROPERTY OnlyWhenAllReturned
PROPERTY OnTimeNotDropped
PROPERTY NotLost
PROPERTY ImplementsRound
CHECK_DEADLOCK FALSE
